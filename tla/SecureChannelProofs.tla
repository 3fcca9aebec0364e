------------------------ MODULE SecureChannelProofs ------------------------
(***************************************************************************)
(* The replay window of a secure channel, for every window size and every  *)
(* number of messages.                                                     *)
(***************************************************************************)
EXTENDS SecureChannel, ReplayWindowProofs

-----------------------------------------------------------------------------
\* The channel's variables keep their types (Encrypt, Decrypt).
THEOREM ChannelTypeCorrect == Spec => []TypeOK
<1>0. W \in Nat \ {0} /\ MaxSend \in Nat BY WindowAssumption, MaxSendAssumption
<1>1. Init => TypeOK
  BY <1>0 DEF Init, TypeOK, Seqs, NewWindow, Window
<1>2. TypeOK /\ [Next]_vars => TypeOK'
  <2> SUFFICES ASSUME TypeOK, [Next]_vars PROVE TypeOK'
    OBVIOUS
  <2>1. CASE Encrypt BY <2>1, <1>0 DEF Encrypt, TypeOK
  <2>2. ASSUME NEW s \in Seqs, Lose(s) PROVE TypeOK'
    BY <2>2 DEF Lose, TypeOK
  <2>3. ASSUME NEW s \in Seqs, Decrypt(s) PROVE TypeOK'
    <3>1. Noted(recvWindow, s) \in Window
      BY <2>3, <1>0, NotedType DEF Decrypt, TypeOK, Seqs
    <3> QED BY <2>3, <3>1 DEF Decrypt, TypeOK
  <2>4. ASSUME NEW s \in Seqs, DecryptFails(s) PROVE TypeOK'
    <3>1. Noted(recvWindow, s) \in Window
      BY <2>4, <1>0, NotedType DEF DecryptFails, TypeOK, Seqs
    <3> QED BY <2>4, <3>1 DEF DecryptFails, TypeOK
  <2>5. CASE UNCHANGED vars BY <2>5 DEF vars, TypeOK
  <2> QED BY <2>1, <2>2, <2>3, <2>4, <2>5 DEF Next
<1> QED BY <1>1, <1>2, PTL DEF Spec

LEMMA ReceivedType == TypeOK => Received \in SUBSET (Nat \ {0})
<1>1. Seqs \subseteq Nat \ {0} BY MaxSendAssumption DEF Seqs
<1>2. TypeOK => Received \subseteq Seqs BY DEF Received, TypeOK
<1> QED BY <1>1, <1>2

\* A step that leaves what has been received as it was, or adds to it the one
\* number it notes, keeps the window exact.
LEMMA ExactStep ==
  ASSUME TypeOK, WindowIsExact, [Next]_vars
  PROVE  WindowIsExact'
<1>0. MaxSend \in Nat /\ Received \in SUBSET (Nat \ {0})
  BY MaxSendAssumption, ReceivedType
<1>1. CASE Encrypt
  BY <1>1 DEF Encrypt, WindowIsExact, Received, Shows
<1>2. ASSUME NEW s \in Seqs, Lose(s) PROVE WindowIsExact'
  BY <1>2 DEF Lose, WindowIsExact, Received, Shows
<1>3. ASSUME NEW s \in Seqs, Decrypt(s) PROVE WindowIsExact'
  <2>1. Received' = Received \cup {s}
    BY <1>3 DEF Decrypt, Received, TypeOK
  <2>2. Shows(Noted(recvWindow, s), Received \cup {s})
    BY <1>0, <1>3, NotedShows DEF Decrypt, WindowIsExact, TypeOK, Seqs
  <2> QED BY <1>3, <2>1, <2>2 DEF Decrypt, WindowIsExact, Shows
<1>4. ASSUME NEW s \in Seqs, DecryptFails(s) PROVE WindowIsExact'
  <2>1. Received' = Received \cup {s}
    BY <1>4 DEF DecryptFails, Received
  <2>2. Shows(Noted(recvWindow, s), Received \cup {s})
    BY <1>0, <1>4, NotedShows DEF DecryptFails, WindowIsExact, TypeOK, Seqs
  <2> QED BY <1>4, <2>1, <2>2 DEF DecryptFails, WindowIsExact, Shows
<1>5. CASE UNCHANGED vars
  BY <1>5 DEF vars, WindowIsExact, Received, Shows
<1> QED BY <1>1, <1>2, <1>3, <1>4, <1>5 DEF Next

\* The bitmap never forgets a number in the window and never invents one
\* (replayWindow.Check), for every window size.
THEOREM WindowExact == Spec => []WindowIsExact
<1>1. Init => WindowIsExact
  BY WindowAssumption, MaxSendAssumption
  DEF Init, WindowIsExact, Shows, NewWindow, Received, Seqs
<1>2. TypeOK /\ WindowIsExact /\ [Next]_vars => WindowIsExact'
  BY ExactStep
<1> QED BY <1>1, <1>2, ChannelTypeCorrect, PTL DEF Spec

\* Decrypt refuses a message not yet opened only when it is too old or when
\* its number was used up by an envelope that did not open.
THEOREM RefusalsAreJustified == Spec => []RefusedOnlyIfOldOrSpoiled
<1>1. TypeOK /\ WindowIsExact => RefusedOnlyIfOldOrSpoiled
  <2> SUFFICES ASSUME TypeOK, WindowIsExact, NEW s \in 1 .. sendSeq,
                      opened[s] = 0, ~Fresh(recvWindow, s), ~(recvWindow.max - s >= W)
               PROVE  s \in spoiled
    BY DEF RefusedOnlyIfOldOrSpoiled
  <2>0. W \in Nat \ {0} /\ MaxSend \in Nat /\ recvWindow.max \in Nat /\ s \in Nat \ {0}
        /\ s \in Seqs
    BY WindowAssumption, MaxSendAssumption DEF TypeOK, Window, Seqs
  <2>1. recvWindow.max - s \in recvWindow.bits
    BY <2>0 DEF Fresh
  <2>2. recvWindow.max - (recvWindow.max - s) \in Received
    BY <2>1 DEF WindowIsExact, Shows
  <2>3. recvWindow.max - (recvWindow.max - s) = s BY <2>0
  <2> QED BY <2>0, <2>2, <2>3 DEF Received
<1> QED BY <1>1, ChannelTypeCorrect, WindowExact, PTL

\* Lost, repeated, reordered and undecryptable envelopes notwithstanding, a
\* direction of a Session is a channel that hands over each message at most
\* once and only messages that were sent.
THEOREM ChannelImplementsAtMostOnce == Spec => ImplementsAtMostOnce
<1>1. Init => Abstract!ChannelInit
  BY DEF Init, Abstract!ChannelInit, Seqs
<1>2. TypeOK /\ WindowIsExact /\ [Next]_vars
        => [Abstract!ChannelNext]_<<sendSeq, opened>>
  <2> SUFFICES ASSUME TypeOK, WindowIsExact, [Next]_vars
               PROVE  [Abstract!ChannelNext]_<<sendSeq, opened>>
    OBVIOUS
  <2>1. CASE Encrypt
    BY <2>1 DEF Encrypt, Abstract!ChannelNext, Abstract!Send
  <2>2. ASSUME NEW s \in Seqs, Lose(s) PROVE UNCHANGED <<sendSeq, opened>>
    BY <2>2 DEF Lose
  <2>3. ASSUME NEW s \in Seqs, Decrypt(s) PROVE Abstract!ChannelNext
    <3>0. MaxSend \in Nat /\ s \in Nat /\ Received \in SUBSET (Nat \ {0})
      BY MaxSendAssumption, ReceivedType DEF Seqs
    <3>1. s \notin Received
      BY <2>3, <3>0, FreshIsNew DEF Decrypt, WindowIsExact, TypeOK
    <3>2. opened[s] = 0 BY <3>1, <3>0 DEF Received, TypeOK
    <3>3. s <= sendSeq BY <2>3, <3>0 DEF Decrypt, TypeOK
    <3>4. Abstract!HandOver(s)
      BY <2>3, <3>2, <3>3 DEF Decrypt, Abstract!HandOver
    <3> QED BY <3>4 DEF Abstract!ChannelNext, Seqs
  <2>4. ASSUME NEW s \in Seqs, DecryptFails(s) PROVE UNCHANGED <<sendSeq, opened>>
    BY <2>4 DEF DecryptFails
  <2>5. CASE UNCHANGED vars BY <2>5 DEF vars
  <2> QED BY <2>1, <2>2, <2>3, <2>4, <2>5 DEF Next
<1> QED
  BY <1>1, <1>2, ChannelTypeCorrect, WindowExact, PTL
  DEF Spec, ImplementsAtMostOnce, Abstract!ChannelSpec
=============================================================================
