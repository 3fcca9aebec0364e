--------------------------- MODULE SecureChannel ---------------------------
(***************************************************************************)
(* One direction of a securechan.Session between an agent and the          *)
(* controller.  The sender's goroutines number and seal their messages     *)
(* before they queue for the socket, so envelopes travel in any order; a   *)
(* broken connection loses them and a retried request repeats them.        *)
(*                                                                         *)
(* The receiver looks at the number before it opens the envelope: one that *)
(* fails to open, because it was sealed under another session of the same  *)
(* peer, has then used up the number it carries.                           *)
(***************************************************************************)
EXTENDS ReplayWindow

CONSTANT MaxSend      \* bound: messages sent

ASSUME MaxSendAssumption == MaxSend \in Nat

Seqs == 1 .. MaxSend

VARIABLES
  sendSeq,            \* the number of the last message sealed
  wire,               \* numbers of the envelopes in flight
  recvWindow,         \* the receiver's replay window
  opened,             \* history: how often each message was opened
  spoiled             \* history: numbers used up by envelopes that did not open

vars == <<sendSeq, wire, recvWindow, opened, spoiled>>

TypeOK ==
  /\ sendSeq \in 0 .. MaxSend
  /\ wire \subseteq 1 .. sendSeq
  /\ recvWindow \in Window
  /\ opened \in [Seqs -> Nat]
  /\ spoiled \subseteq Seqs

Init ==
  /\ sendSeq = 0 /\ wire = {}
  /\ recvWindow = NewWindow
  /\ opened = [s \in Seqs |-> 0] /\ spoiled = {}

Encrypt ==
  /\ sendSeq < MaxSend
  /\ sendSeq' = sendSeq + 1
  /\ wire' = wire \cup {sendSeq + 1}
  /\ UNCHANGED <<recvWindow, opened, spoiled>>

Lose(s) ==
  /\ s \in wire /\ wire' = wire \ {s}
  /\ UNCHANGED <<sendSeq, recvWindow, opened, spoiled>>

\* An envelope arrives, and the network may deliver it again.
Decrypt(s) ==
  /\ s \in wire /\ Fresh(recvWindow, s)
  /\ recvWindow' = Noted(recvWindow, s)
  /\ opened' = [opened EXCEPT ![s] = @ + 1]
  /\ UNCHANGED <<sendSeq, wire, spoiled>>

\* An envelope of another session arrives: the number is checked, and noted,
\* before the cipher rejects it.
DecryptFails(s) ==
  /\ s \in Seqs /\ Fresh(recvWindow, s)
  /\ recvWindow' = Noted(recvWindow, s)
  /\ spoiled' = spoiled \cup {s}
  /\ UNCHANGED <<sendSeq, wire, opened>>

Next == Encrypt \/ \E s \in Seqs : Lose(s) \/ Decrypt(s) \/ DecryptFails(s)

Spec == Init /\ [][Next]_vars

-----------------------------------------------------------------------------
Received == {s \in Seqs : opened[s] > 0} \cup spoiled

\* The bitmap is exactly the received numbers that are in the window, and max
\* the greatest of them, however far and in whatever order the numbers come
\* (replayWindow.Check: the shift, its overflow and the bit tests agree).
WindowIsExact == Shows(recvWindow, Received)

\* A message that has not been opened is refused only when W or more numbers
\* have passed it or when an envelope that did not open has used up its number
\* (Decrypt checks the window before the cipher).
RefusedOnlyIfOldOrSpoiled ==
  \A s \in 1 .. sendSeq :
    opened[s] = 0 /\ ~Fresh(recvWindow, s) =>
      recvWindow.max - s >= W \/ s \in spoiled

\* The window implements a channel that hands over each message at most once.
Abstract == INSTANCE AtMostOnce WITH sent <- sendSeq
ImplementsAtMostOnce == Abstract!ChannelSpec
=============================================================================
