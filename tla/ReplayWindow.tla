---------------------------- MODULE ReplayWindow ----------------------------
(***************************************************************************)
(* replayWindow: which sequence numbers a session has already received.    *)
(*                                                                         *)
(*   max    maxSeq, the greatest number received                           *)
(*   bits   bitmap, as the set of its bits: d stands for max - d           *)
(***************************************************************************)
EXTENDS Naturals

CONSTANT W            \* windowSize, 64 in the code

ASSUME WindowAssumption == W \in Nat \ {0}

Window == [max : Nat, bits : SUBSET (0 .. W - 1)]

NewWindow == [max |-> 0, bits |-> {}]

\* Mutants: the lower end of the window is one too far; a number in the window
\* is taken without looking at its bit.
FreshOffByOne(w, seq) == seq > w.max \/ (w.max - seq <= W /\ w.max - seq \notin w.bits)

FreshUnlessOld(w, seq) == seq > w.max \/ w.max - seq < W

\* Check returns true: the number is ahead of the window, or in it and unseen.
Fresh(w, seq) ==
  /\ seq # 0
  /\ seq > w.max \/ (w.max - seq < W /\ w.max - seq \notin w.bits)

\* Mutant: the bits stay where they are when the window moves.
ShiftStays(bits, shift) == bits

\* bitmap <<= shift, where bits shifted past the end are lost.
Shift(bits, shift) == {d \in 0 .. W - 1 : d >= shift /\ d - shift \in bits}

\* Mutant: moving the window forgets what it held.
NotedForgets(w, seq) ==
  IF seq > w.max THEN [max |-> seq, bits |-> {0}]
  ELSE [w EXCEPT !.bits = @ \cup {w.max - seq}]

\* The window after Check has returned true.
Noted(w, seq) ==
  IF seq > w.max THEN [max |-> seq, bits |-> Shift(w.bits, seq - w.max) \cup {0}]
  ELSE [w EXCEPT !.bits = @ \cup {w.max - seq}]

(***************************************************************************)
(* What the window stands for: it has received exactly the numbers of the  *)
(* set Received, of which the bitmap shows those less than W below max.    *)
(***************************************************************************)
Shows(w, received) ==
  /\ \A s \in received : s <= w.max
  /\ w.max # 0 => w.max \in received
  /\ w.bits = {d \in 0 .. W - 1 : d < w.max /\ w.max - d \in received}
=============================================================================
