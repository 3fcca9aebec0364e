----------------------------- MODULE AtMostOnce -----------------------------
(***************************************************************************)
(* What one direction of a secure channel promises: a message that was     *)
(* sent is handed over at most once, in any order, and nothing else is.    *)
(***************************************************************************)
EXTENDS Naturals

CONSTANT MaxSend      \* bound: messages sent

VARIABLES sent,       \* the messages sent are 1 .. sent
          opened      \* how often each message has been handed over

ChannelInit == sent = 0 /\ opened = [m \in 1 .. MaxSend |-> 0]

Send == sent < MaxSend /\ sent' = sent + 1 /\ UNCHANGED opened

HandOver(m) ==
  /\ m <= sent /\ opened[m] = 0
  /\ opened' = [opened EXCEPT ![m] = 1]
  /\ UNCHANGED sent

ChannelNext == Send \/ \E m \in 1 .. MaxSend : HandOver(m)

ChannelSpec == ChannelInit /\ [][ChannelNext]_<<sent, opened>>
=============================================================================
