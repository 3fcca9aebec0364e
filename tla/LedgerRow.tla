------------------------------ MODULE LedgerRow ------------------------------
(***************************************************************************)
(* One row of the controller's cumulative traffic tables (node_traffic,    *)
(* user_email_traffic, user_traffic).  The three tables are written by     *)
(* three functions that share one arithmetic: this module states it once.  *)
(*                                                                         *)
(*   up     uplink: what has been added to the ledger                      *)
(*   total  total_uplink: the counters of earlier xray processes           *)
(*   last   last_uplink: the counter read by the last committed report     *)
(*                                                                         *)
(* Uplink and downlink are two independent copies of the same arithmetic;  *)
(* one of them is kept.                                                    *)
(***************************************************************************)
EXTENDS Naturals

Row == [seen : BOOLEAN, up : Nat, total : Nat, last : Nat]

NewRow == [seen |-> FALSE, up |-> 0, total |-> 0, last |-> 0]

\* Mutants: the falling counter is not clamped; the baseline is billed; the
\* counter is billed instead of its increase; the old heuristic archives the
\* last value whenever the counter went down.
GainUnclamped(from, to) == to - from

Gain(from, to) == IF to >= from THEN to - from ELSE 0

(***************************************************************************)
(* What a report adds to the row: nothing the first time the key is seen   *)
(* (the counter is only a baseline), the whole counter when the report is  *)
(* taken for the first one of a new xray process, else the increase, and   *)
(* nothing when the counter went down.                                     *)
(***************************************************************************)
DeltaBaselineBilled(row, counter, isXrayRestarted) ==
  IF ~row.seen \/ isXrayRestarted THEN counter ELSE Gain(row.last, counter)

DeltaCumulative(row, counter, isXrayRestarted) ==
  IF row.seen THEN counter ELSE 0

Delta(row, counter, isXrayRestarted) ==
  IF ~row.seen THEN 0
  ELSE IF isXrayRestarted THEN counter ELSE Gain(row.last, counter)

UpsertByHeuristic(row, counter, isXrayRestarted) ==
  [seen  |-> TRUE,
   up    |-> row.up + Delta(row, counter, isXrayRestarted),
   total |-> IF counter < row.last THEN row.total + row.last ELSE row.total,
   last  |-> counter]

Archived(row, isXrayRestarted) ==
  IF row.seen /\ isXrayRestarted THEN row.total + row.last ELSE row.total

Upsert(row, counter, isXrayRestarted) ==
  [seen  |-> TRUE,
   up    |-> row.up + Delta(row, counter, isXrayRestarted),
   total |-> Archived(row, isXrayRestarted),
   last  |-> counter]
=============================================================================
