------------------------- MODULE TrafficLedgerProofs -------------------------
(***************************************************************************)
(* Proofs about TrafficLedger, for every set of users, every number of     *)
(* concurrent reports and every bound.                                     *)
(***************************************************************************)
EXTENDS TrafficLedger, TLAPS

-----------------------------------------------------------------------------
(* The arithmetic of a row. *)

\* A row stays a row whatever the counter and the restart flag.
LEMMA UpsertType ==
  ASSUME NEW row \in Row, NEW c \in Nat, NEW flag \in BOOLEAN
  PROVE  /\ Upsert(row, c, flag) \in Row
         /\ Delta(row, c, flag) \in Nat
         /\ Upsert(row, c, flag).up = row.up + Delta(row, c, flag)
         /\ Upsert(row, c, flag).last = c
         /\ Upsert(row, c, flag).seen
BY DEF Row, Upsert, Delta, Archived, Gain

\* A row of a known key archives no more than it adds.
LEMMA UpsertArchive ==
  ASSUME NEW row \in Row, NEW c \in Nat, NEW flag \in BOOLEAN, row.seen,
         NEW base \in Nat, row.total + row.last <= row.up + base
  PROVE  LET new == Upsert(row, c, flag) IN new.total + new.last <= new.up + base
BY DEF Row, Upsert, Delta, Archived, Gain

\* The first sight of a key only takes the baseline.
LEMMA UpsertBaseline ==
  ASSUME NEW row \in Row, NEW c \in Nat, NEW flag \in BOOLEAN, ~row.seen
  PROVE  LET new == Upsert(row, c, flag)
         IN  new.total = row.total /\ new.last = c /\ new.up = row.up
BY DEF Row, Upsert, Delta, Archived, Gain

\* Going through an intermediate reading never lowers the gain.
LEMMA GainTriangle ==
  ASSUME NEW x \in Nat, NEW y \in Nat, NEW z \in Nat
  PROVE  /\ Gain(x, y) \in Nat
         /\ Gain(x, z) <= Gain(x, y) + Gain(y, z)
         /\ Gain(x, x) = 0
         /\ x <= y => x + Gain(x, y) = y
BY DEF Gain

LEMMA SumOfType ==
  ASSUME NEW f \in [Emails -> Nat], NEW u \in Users
  PROVE  SumOf(f, u) \in Nat
BY DEF SumOf, Emails

LEMMA DailyType ==
  ASSUME NEW l \in Ledger, NEW d \in Nat
  PROVE  /\ AddDaily(l, d) \in Ledger
         /\ AddDaily(l, d).today + AddDaily(l, d).closed = l.today + l.closed + d
         /\ CloseDay(l) \in Ledger
         /\ CloseDay(l).today + CloseDay(l).closed = l.today + l.closed
BY DEF Ledger, AddDaily, CloseDay

-----------------------------------------------------------------------------
(* Type correctness. *)

LEMMA NoReportType == NoReport \in ReportType
BY DEF NoReport, ReportType, NoBoot

LEMMA InitType == Init => TypeOK
<1> SUFFICES ASSUME Init PROVE TypeOK
  OBVIOUS
<1> USE NoReportType DEF Init
<1>1. report \in [Reports -> ReportType]
  OBVIOUS
<1>2. QED
  BY <1>1 DEF TypeOK, NewRow, Row, Ledger, NoBoot

LEMMA NextType == TypeOK /\ [Next]_vars => TypeOK'
<1> SUFFICES ASSUME TypeOK, [Next]_vars PROVE TypeOK'
  OBVIOUS
<1> USE LedgerAssumption DEF TypeOK
<1>1. ASSUME NEW e \in Emails, Carry(e) PROVE TypeOK'
  BY <1>1 DEF Carry, server, nodeDB, userDB, bounds
<1>2. ASSUME NEW e \in Emails, ClientReadded(e) PROVE TypeOK'
  BY <1>2 DEF ClientReadded, server, nodeDB, userDB
<1>3. CASE XrayStop
  BY <1>3 DEF XrayStop, server, nodeDB, userDB, bounds
<1>4. CASE XrayStart
  BY <1>4 DEF XrayStart, server, nodeDB, userDB, bounds, history
<1>5. CASE Heartbeat
  BY <1>5 DEF Heartbeat, xray, nodeDB, userDB, bounds, history, NoBoot
<1>6. ASSUME NEW r \in Reports, SendReport(r) PROVE TypeOK'
  BY <1>6 DEF SendReport, ReportType, xray, server, nodeDB, userDB, bounds, history, NoBoot
<1>7. ASSUME NEW r \in Reports, LoseReport(r) PROVE TypeOK'
  BY <1>7, NoReportType DEF LoseReport, xray, server, nodeDB, userDB, bounds, history
<1>8. ASSUME NEW r \in Reports, AcceptReport(r) PROVE TypeOK'
  <2>1. PICK read \in {xrayBootTime, NoBoot} :
          report' = [report EXCEPT ![r].pc = "accepted", ![r].boot = read]
    BY <1>8 DEF AcceptReport
  <2>2. read \in Nat
    BY DEF NoBoot
  <2>3. report' \in [Reports -> ReportType]
    BY <2>1, <2>2 DEF ReportType
  <2> QED BY <1>8, <2>3 DEF AcceptReport, xray, server, nodeDB, userDB, bounds, history
<1>9. ASSUME NEW r \in Reports, CheckAndUpdate(r) PROVE TypeOK'
  <2>1. IsRestart(detector, report[r].boot) \in BOOLEAN
    BY DEF IsRestart
  <2>2. report' \in [Reports -> ReportType]
    BY <1>9, <2>1 DEF CheckAndUpdate, ReportType
  <2>3. detector' \in Nat
    BY <1>9 DEF CheckAndUpdate, ReportType
  <2>4. QED
    BY <1>9, <2>2, <2>3 DEF CheckAndUpdate, xray, nodeDB, userDB, bounds, history
<1>10. ASSUME NEW r \in Reports, UpsertNodeTrafficBatch(r) PROVE TypeOK'
  <2>1. report[r].node \in Nat /\ report[r].restarted \in BOOLEAN
    BY DEF ReportType
  <2>2. report' \in [Reports -> ReportType]
    BY <1>10 DEF UpsertNodeTrafficBatch, ReportType
  <2>3. nodeRow' \in Row /\ dailyNode' \in Ledger /\ nodeFirst' \in Nat
    <3> DEFINE raw == report[r].node
               flag == report[r].restarted
    <3>1. /\ Upsert(nodeRow, raw, flag) \in Row
          /\ AddDaily(dailyNode, Delta(nodeRow, raw, flag)) \in Ledger
      BY <2>1, UpsertType, DailyType
    <3>2. QED
      BY <1>10, <2>1, <3>1 DEF UpsertNodeTrafficBatch, nodeDB
  <2>4. QED
    BY <1>10, <2>2, <2>3
    DEF UpsertNodeTrafficBatch, xray, server, userDB, bounds, history
<1>11. ASSUME NEW r \in Reports, UpsertTrafficBatch(r) PROVE TypeOK'
  <2>1. report[r].counter \in [Emails -> Nat] /\ report[r].restarted \in BOOLEAN
    BY DEF ReportType
  <2>2. report' \in [Reports -> ReportType]
    BY <1>11, NoReportType DEF UpsertTrafficBatch
  <2>3. emailRow' \in [Emails -> Row] /\ dailyEmail' \in [Emails -> Ledger]
    BY <1>11, <2>1, UpsertType, DailyType DEF UpsertTrafficBatch
  <2>4. userRow' \in [Users -> Row] /\ dailyUser' \in [Users -> Ledger]
    <3> DEFINE raw == report[r].counter
               flag == report[r].restarted
    <3>1. ASSUME NEW u \in Users
          PROVE  /\ Upsert(userRow[u], SumOf(raw, u), flag) \in Row
                 /\ AddDaily(dailyUser[u], Delta(userRow[u], SumOf(raw, u), flag))
                      \in Ledger
      <4>1. SumOf(raw, u) \in Nat
        BY <2>1, SumOfType
      <4>2. QED
        BY <2>1, <4>1, UpsertType, DailyType
    <3>2. QED
      BY <1>11, <3>1 DEF UpsertTrafficBatch
  <2>5. first' \in [Emails -> Nat]
    BY <1>11, <2>1 DEF UpsertTrafficBatch
  <2>6. intact' \in [Emails -> BOOLEAN]
    <3>1. \A e \in Emails : (counter[e] >= report[r].counter[e]) \in BOOLEAN
      OBVIOUS
    <3>2. QED
      BY <1>11, <3>1, Zenon DEF UpsertTrafficBatch
  <2>7. joined' \in [Users -> Nat]
    BY <1>11, <2>1 DEF UpsertTrafficBatch, Emails
  <2>8. QED
    BY <1>11, <2>2, <2>3, <2>4, <2>5, <2>6, <2>7
    DEF UpsertTrafficBatch, xray, server, nodeDB, bounds
<1>12. ASSUME NEW r \in Reports, TrafficBatchFails(r) PROVE TypeOK'
  BY <1>12, NoReportType DEF TrafficBatchFails, xray, server, nodeDB, userDB, bounds, history
<1>13. ASSUME NEW u \in Users, ResetUserTrafficCycle(u) PROVE TypeOK'
  <2>1. userRow' \in [Users -> Row] /\ settled' \in [Users -> Nat]
    BY <1>13 DEF ResetUserTrafficCycle, Row
  <2>2. cycleBase' \in [Emails -> Nat]
    BY <1>13 DEF ResetUserTrafficCycle, Row
  <2>3. QED
    BY <1>13, <2>1, <2>2 DEF ResetUserTrafficCycle, xray, server, nodeDB, history
<1>14. CASE Midnight
  BY <1>14, DailyType DEF Midnight, xray, server, bounds, history
<1>15. CASE ControllerRestart
  BY <1>15, NoReportType DEF ControllerRestart, xray, nodeDB, userDB, history, NoBoot
<1>16. CASE UNCHANGED vars
  BY <1>16 DEF vars, xray, server, nodeDB, userDB, bounds, history
<1>17. QED
  BY <1>1, <1>2, <1>3, <1>4, <1>5, <1>6, <1>7, <1>8, <1>9, <1>10, <1>11, <1>12,
     <1>13, <1>14, <1>15, <1>16 DEF Next

\* Every variable keeps its type, whatever fails and whoever runs concurrently.
THEOREM TypeCorrect == Spec => []TypeOK
BY InitType, NextType, PTL DEF Spec

-----------------------------------------------------------------------------
(* The daily ledgers. *)

LEMMA DailyStep ==
  TypeOK /\ DailyLedgersAddUp /\ [Next]_vars => DailyLedgersAddUp'
<1> SUFFICES ASSUME TypeOK, DailyLedgersAddUp, [Next]_vars
             PROVE  DailyLedgersAddUp'
  OBVIOUS
<1>1. ASSUME NEW r \in Reports, UpsertNodeTrafficBatch(r)
      PROVE  DailyLedgersAddUp'
  <2> DEFINE raw == report[r].node
             flag == report[r].restarted
  <2>1. raw \in Nat /\ flag \in BOOLEAN
    BY DEF TypeOK, ReportType
  <2>2. /\ Upsert(nodeRow, raw, flag).up = nodeRow.up + Delta(nodeRow, raw, flag)
        /\ Delta(nodeRow, raw, flag) \in Nat
    BY <2>1, UpsertType DEF TypeOK
  <2>3. AddDaily(dailyNode, Delta(nodeRow, raw, flag)).today
          + AddDaily(dailyNode, Delta(nodeRow, raw, flag)).closed
            = dailyNode.today + dailyNode.closed + Delta(nodeRow, raw, flag)
    BY <2>2, DailyType DEF TypeOK
  <2>4. dailyNode'.today + dailyNode'.closed = nodeRow'.up
    BY <1>1, <2>2, <2>3 DEF UpsertNodeTrafficBatch, nodeDB, DailyLedgersAddUp
  <2>5. QED
    BY <1>1, <2>4 DEF UpsertNodeTrafficBatch, userDB, DailyLedgersAddUp
<1>2. ASSUME NEW r \in Reports, UpsertTrafficBatch(r)
      PROVE  DailyLedgersAddUp'
  <2> DEFINE raw == report[r].counter
             flag == report[r].restarted
  <2>1. raw \in [Emails -> Nat] /\ flag \in BOOLEAN
    BY DEF TypeOK, ReportType
  <2>2. ASSUME NEW e \in Emails
        PROVE  dailyEmail'[e].today + dailyEmail'[e].closed = emailRow'[e].up
    <3>1. /\ Upsert(emailRow[e], raw[e], flag).up
               = emailRow[e].up + Delta(emailRow[e], raw[e], flag)
          /\ Delta(emailRow[e], raw[e], flag) \in Nat
      BY <2>1, UpsertType DEF TypeOK
    <3>2. AddDaily(dailyEmail[e], Delta(emailRow[e], raw[e], flag)).today
            + AddDaily(dailyEmail[e], Delta(emailRow[e], raw[e], flag)).closed
              = dailyEmail[e].today + dailyEmail[e].closed
                  + Delta(emailRow[e], raw[e], flag)
      BY <3>1, DailyType DEF TypeOK
    <3>3. QED
      BY <1>2, <3>1, <3>2 DEF UpsertTrafficBatch, DailyLedgersAddUp
  <2>3. ASSUME NEW u \in Users
        PROVE  dailyUser'[u].today + dailyUser'[u].closed
                 = userRow'[u].up + settled'[u]
    <3> DEFINE d == Delta(userRow[u], SumOf(raw, u), flag)
    <3>1. SumOf(raw, u) \in Nat
      BY <2>1, SumOfType
    <3>2. Upsert(userRow[u], SumOf(raw, u), flag).up = userRow[u].up + d /\ d \in Nat
      BY <2>1, <3>1, UpsertType DEF TypeOK
    <3>3. AddDaily(dailyUser[u], d).today + AddDaily(dailyUser[u], d).closed
            = dailyUser[u].today + dailyUser[u].closed + d
      BY <3>2, DailyType DEF TypeOK
    <3>4. userRow[u].up \in Nat /\ settled[u] \in Nat
      BY DEF TypeOK, Row
    <3>5. /\ dailyUser[u].today + dailyUser[u].closed = userRow[u].up + settled[u]
          /\ settled'[u] = settled[u]
      BY <1>2 DEF UpsertTrafficBatch, DailyLedgersAddUp
    <3>6. QED
      BY <1>2, <3>2, <3>3, <3>4, <3>5 DEF UpsertTrafficBatch
  <2>4. dailyNode'.today + dailyNode'.closed = nodeRow'.up
    BY <1>2 DEF UpsertTrafficBatch, nodeDB, DailyLedgersAddUp
  <2>5. QED
    BY <2>2, <2>3, <2>4 DEF DailyLedgersAddUp
<1>3. ASSUME NEW u \in Users, ResetUserTrafficCycle(u)
      PROVE  DailyLedgersAddUp'
  BY <1>3 DEF ResetUserTrafficCycle, nodeDB, TypeOK, Row, Ledger, DailyLedgersAddUp
<1>4. CASE Midnight
  BY <1>4, DailyType DEF Midnight, TypeOK, DailyLedgersAddUp
<1>5. CASE UNCHANGED <<nodeDB, userDB>>
  BY <1>5 DEF nodeDB, userDB, DailyLedgersAddUp
<1>6. QED
  BY <1>1, <1>2, <1>3, <1>4, <1>5
  DEF Next, vars, Carry, ClientReadded, XrayStop, XrayStart, Heartbeat, SendReport,
      LoseReport, AcceptReport, CheckAndUpdate, TrafficBatchFails, ControllerRestart

\* The daily tables add up to the cumulative ones: every write of a row adds
\* the same delta to the day's row in its transaction, whoever runs
\* concurrently and whatever fails.
THEOREM DailyCorrect == Spec => []DailyLedgersAddUp
<1>1. Init => DailyLedgersAddUp
  BY DEF Init, NewRow, DailyLedgersAddUp
<1>2. QED
  BY <1>1, TypeCorrect, DailyStep, PTL DEF Spec

-----------------------------------------------------------------------------
(* The archive. *)

\* An unknown key has nothing archived; needed because the node row's first
\* report sets nodeFirst.
ArchiveInv == ArchiveIsCovered /\ (~nodeRow.seen => nodeRow.total = 0)

LEMMA ArchiveStep ==
  TypeOK /\ ArchiveInv /\ [Next]_vars => ArchiveInv'
<1> SUFFICES ASSUME TypeOK, ArchiveInv, [Next]_vars
             PROVE  ArchiveInv'
  OBVIOUS
<1>1. ASSUME NEW r \in Reports, UpsertNodeTrafficBatch(r)
      PROVE  ArchiveInv'
  <2> DEFINE raw == report[r].node
             flag == report[r].restarted
             new == Upsert(nodeRow, raw, flag)
  <2>1. raw \in Nat /\ flag \in BOOLEAN /\ nodeRow \in Row /\ nodeFirst \in Nat
    BY DEF TypeOK, ReportType
  <2>2. nodeRow.seen => new.total + new.last <= new.up + nodeFirst
    BY <2>1, UpsertArchive DEF ArchiveInv, ArchiveIsCovered
  <2>3. ~nodeRow.seen => new.total = 0 /\ new.last = raw /\ new.up = nodeRow.up
    BY <2>1, UpsertBaseline DEF ArchiveInv
  <2>4. new.seen
    BY <2>1, UpsertType
  <2>5. nodeRow.up \in Nat
    BY <2>1 DEF Row
  <2>6. ASSUME nodeRow' = new, nodeFirst' = IF nodeRow.seen THEN nodeFirst ELSE raw
        PROVE  nodeRow'.total + nodeRow'.last <= nodeRow'.up + nodeFirst'
    <3>1. CASE nodeRow.seen
      BY <2>2, <2>6, <3>1
    <3>2. CASE ~nodeRow.seen
      <4>1. 0 + raw <= nodeRow.up + raw
        BY <2>1, <2>5
      <4>2. QED
        BY <2>3, <2>6, <3>2, <4>1
    <3>3. QED
      BY <3>1, <3>2
  <2>7. /\ nodeRow'.total + nodeRow'.last <= nodeRow'.up + nodeFirst'
        /\ ~nodeRow'.seen => nodeRow'.total = 0
    BY <1>1, <2>4, <2>6 DEF UpsertNodeTrafficBatch, nodeDB, ArchiveInv, ArchiveIsCovered
  <2>8. QED
    BY <1>1, <2>7 DEF UpsertNodeTrafficBatch, userDB, ArchiveInv, ArchiveIsCovered
<1>2. ASSUME NEW r \in Reports, UpsertTrafficBatch(r)
      PROVE  ArchiveInv'
  <2> DEFINE raw == report[r].counter
             flag == report[r].restarted
  <2>1. raw \in [Emails -> Nat] /\ flag \in BOOLEAN
    BY DEF TypeOK, ReportType
  <2>2. ASSUME NEW e \in Emails
        PROVE  /\ emailRow'[e].total + emailRow'[e].last <= emailRow'[e].up + first'[e]
               /\ cycleBase'[e] <= emailRow'[e].up
    <3> DEFINE new == Upsert(emailRow[e], raw[e], flag)
    <3>1. /\ emailRow[e] \in Row /\ first[e] \in Nat /\ cycleBase[e] \in Nat
          /\ emailRow[e].total + emailRow[e].last <= emailRow[e].up + first[e]
          /\ cycleBase[e] <= emailRow[e].up
          /\ cycleBase'[e] = cycleBase[e]
      BY <1>2 DEF TypeOK, ArchiveInv, ArchiveIsCovered, UpsertTrafficBatch
    <3>2. CASE e \notin Reported(r)
      BY <1>2, <3>1, <3>2 DEF UpsertTrafficBatch, Row
    <3>3. CASE e \in Reported(r) /\ emailRow[e].seen
      <4>1. emailRow'[e] = new /\ first'[e] = first[e]
        BY <1>2, <3>1, <3>3 DEF UpsertTrafficBatch
      <4>2. new.total + new.last <= new.up + first[e]
        BY <2>1, <3>1, <3>3, UpsertArchive
      <4>3. cycleBase[e] <= new.up
        BY <2>1, <3>1, UpsertType DEF Row
      <4>4. QED
        BY <3>1, <4>1, <4>2, <4>3
    <3>4. CASE e \in Reported(r) /\ ~emailRow[e].seen
      <4>1. emailRow'[e] = new /\ first'[e] = first[e] + raw[e]
        BY <1>2, <3>4 DEF UpsertTrafficBatch
      <4>2. new.total = emailRow[e].total /\ new.last = raw[e] /\ new.up = emailRow[e].up
        BY <2>1, <3>1, <3>4, UpsertBaseline
      <4>3. QED
        BY <2>1, <3>1, <4>1, <4>2 DEF Row
    <3>5. QED
      BY <3>2, <3>3, <3>4
  <2>3. QED
    BY <1>2, <2>2 DEF UpsertTrafficBatch, nodeDB, ArchiveInv, ArchiveIsCovered
<1>3. ASSUME NEW u \in Users, ResetUserTrafficCycle(u)
      PROVE  ArchiveInv'
  BY <1>3 DEF ResetUserTrafficCycle, nodeDB, TypeOK, Row, ArchiveInv, ArchiveIsCovered
<1>4. CASE UNCHANGED <<nodeRow, nodeFirst, emailRow, first, cycleBase>>
  BY <1>4 DEF ArchiveInv, ArchiveIsCovered
<1>5. QED
  BY <1>1, <1>2, <1>3, <1>4
  DEF Next, vars, nodeDB, userDB, Carry, ClientReadded, XrayStop, XrayStart, Heartbeat,
      SendReport, LoseReport, AcceptReport, CheckAndUpdate, TrafficBatchFails,
      ControllerRestart, Midnight

\* No schedule of reports, restarts, failures and resets archives a counter
\* that was not added to the ledger, nor starts a cycle above its ledger.
THEOREM ArchiveCorrect == Spec => []ArchiveIsCovered
<1>1. Init => ArchiveInv
  BY DEF Init, NewRow, ArchiveInv, ArchiveIsCovered
<1>2. ArchiveInv => ArchiveIsCovered
  BY DEF ArchiveInv
<1>3. QED
  BY <1>1, <1>2, TypeCorrect, ArchiveStep, PTL DEF Spec

-----------------------------------------------------------------------------
(***************************************************************************)
(* A server whose reports are handled one at a time.  When its agent sends *)
(* no boot time (which is what the agent does), no byte is billed twice,   *)
(* to an email or to a user, and no missed round is lost; with boot times  *)
(* as without, the users' and the emails' rows agree.  Two handlers at     *)
(* once break the first of these: see the run ledger_concurrent.           *)
(***************************************************************************)

(* The debt of a row. *)

\* A carried byte raises the debt of its row by at most itself.
LEMMA CoverCarry ==
  ASSUME NEW row \in Row, NEW base \in Nat, NEW read \in Nat, NEW now \in Nat,
         NEW total \in Nat
  PROVE  /\ Covered(row, base, now, total) => Covered(row, base, now + 1, total + 1)
         /\ CoveredThrough(row, base, read, now, total)
              => CoveredThrough(row, base, read, now + 1, total + 1)
BY DEF Row, Covered, CoveredThrough, Debt, Gain

\* A counter that starts again from 0 forgives the debt beyond what was read.
LEMMA CoverZero ==
  ASSUME NEW row \in Row, NEW base \in Nat, NEW read \in Nat, NEW now \in Nat,
         NEW total \in Nat
  PROVE  /\ Covered(row, base, now, total) => Covered(row, base, 0, total)
         /\ CoveredThrough(row, base, read, now, total)
              => CoveredThrough(row, base, read, 0, total)
BY DEF Row, Covered, CoveredThrough, Debt, Gain

\* Reading the counter now adds no debt.
LEMMA CoverRead ==
  ASSUME NEW row \in Row, NEW base \in Nat, NEW now \in Nat, NEW total \in Nat,
         Covered(row, base, now, total)
  PROVE  CoveredThrough(row, base, now, now, total)
BY DEF Row, Covered, CoveredThrough, Debt, Gain

\* Committing what was read turns its debt into bytes, or into the baseline.
LEMMA CoverUpsert ==
  ASSUME NEW row \in Row, NEW base \in Nat, NEW read \in Nat, NEW now \in Nat,
         NEW total \in Nat,
         ~row.seen => row = NewRow /\ base = 0,
         CoveredThrough(row, base, read, now, total)
  PROVE  LET new == Upsert(row, read, FALSE)
             newBase == IF row.seen THEN base ELSE read
         IN  /\ new.seen
             /\ Covered(new, newBase, now, total)
             /\ CoveredThrough(new, newBase, read, now, total)
BY DEF Row, NewRow, Covered, CoveredThrough, Debt, Gain, Upsert, Delta, Archived

\* A covered row holds no more than was carried.
LEMMA CoverBound ==
  ASSUME NEW row \in Row, NEW base \in Nat, NEW now \in Nat, NEW total \in Nat,
         Covered(row, base, now, total)
  PROVE  row.up + base <= total
BY DEF Row, Covered, Gain

-----------------------------------------------------------------------------
(* No restart is ever seen. *)

\* An agent keeps sending boot times, or not sending them.
LEMMA AgentStays == ASSUME [Next]_vars PROVE agentReportsBoot' = agentReportsBoot
BY DEF Next, vars, server, Carry, ClientReadded, XrayStop, XrayStart, Heartbeat,
       SendReport, LoseReport, AcceptReport, CheckAndUpdate, UpsertNodeTrafficBatch,
       UpsertTrafficBatch, TrafficBatchFails, ResetUserTrafficCycle, Midnight,
       ControllerRestart

LEMMA NoRestartStep ==
  ASSUME TypeOK, NoRestartSeen, [Next]_vars
  PROVE  NoRestartSeen'
<1> USE DEF TypeOK, NoRestartSeen
<1>1. ASSUME NEW r \in Reports, SendReport(r) PROVE NoRestartSeen'
  BY <1>1 DEF SendReport, server
<1>2. ASSUME NEW r \in Reports, LoseReport(r) PROVE NoRestartSeen'
  BY <1>2 DEF LoseReport, server, NoReport
<1>3. ASSUME NEW r \in Reports, AcceptReport(r) PROVE NoRestartSeen'
  BY <1>3 DEF AcceptReport, server, ReportType
<1>4. ASSUME NEW r \in Reports, CheckAndUpdate(r) PROVE NoRestartSeen'
  <2>1. IsRestart(detector, report[r].boot) = FALSE
    BY DEF IsRestart
  <2>2. QED
    BY <1>4, <2>1 DEF CheckAndUpdate, ReportType
<1>5. ASSUME NEW r \in Reports, UpsertNodeTrafficBatch(r) PROVE NoRestartSeen'
  BY <1>5 DEF UpsertNodeTrafficBatch, server, ReportType
<1>6. ASSUME NEW r \in Reports, UpsertTrafficBatch(r) PROVE NoRestartSeen'
  BY <1>6 DEF UpsertTrafficBatch, server, NoReport
<1>7. ASSUME NEW r \in Reports, TrafficBatchFails(r) PROVE NoRestartSeen'
  BY <1>7 DEF TrafficBatchFails, server, NoReport
<1>8. CASE Heartbeat
  BY <1>8 DEF Heartbeat
<1>9. CASE ControllerRestart
  BY <1>9 DEF ControllerRestart, NoReport
<1>10. CASE UNCHANGED <<server, report>>
  BY <1>10 DEF server
<1>11. QED
  BY <1>1, <1>2, <1>3, <1>4, <1>5, <1>6, <1>7, <1>8, <1>9, <1>10
  DEF Next, vars, Carry, ClientReadded, XrayStop, XrayStart, ResetUserTrafficCycle,
      Midnight

-----------------------------------------------------------------------------
(* The node row. *)

LEMMA NodeStep ==
  ASSUME \A a, b \in Reports : a = b, TypeOK, NoRestartSeen, NodeCovered, [Next]_vars
  PROVE  NodeCovered'
<1> USE DEF TypeOK, NodeCovered, Pending
<1>0. /\ \A r \in Reports : report[r] \in ReportType /\ report[r].node \in Nat
      /\ NoReport.pc = "idle"
  BY DEF ReportType, NoReport
<1>1. ASSUME NEW e \in Emails, Carry(e) PROVE NodeCovered'
  BY <1>0, <1>1, CoverCarry DEF Carry, nodeDB
<1>2. CASE XrayStop
  BY <1>0, <1>2, CoverZero DEF XrayStop, nodeDB
<1>3. ASSUME NEW r \in Reports, SendReport(r) PROVE NodeCovered'
  <2>1. CoveredThrough(nodeRow, nodeFirst, nodeCounter, nodeCounter, nodeCarried)
    BY CoverRead
  <2>2. \A q \in Reports : report'[q].node = nodeCounter
    BY <1>3 DEF SendReport
  <2>3. QED
    BY <1>3, <2>1, <2>2 DEF SendReport, xray, nodeDB, history
<1>4. ASSUME NEW r \in Reports,
             report' = [report EXCEPT ![r] = NoReport] \/ report' = [q \in Reports |-> NoReport],
             UNCHANGED <<xray, nodeDB, nodeCarried>>
      PROVE  NodeCovered'
  BY <1>0, <1>4 DEF xray, nodeDB
<1>5. ASSUME NEW r \in Reports, AcceptReport(r) \/ CheckAndUpdate(r) PROVE NodeCovered'
  <2>1. /\ \A q \in Reports : Pending(q)
        /\ \A q \in Reports : report'[q].node = report[q].node
    BY <1>5 DEF AcceptReport, CheckAndUpdate, ReportType
  <2>2. QED
    BY <1>5, <2>1 DEF AcceptReport, CheckAndUpdate, xray, nodeDB, history
<1>6. ASSUME NEW r \in Reports, UpsertNodeTrafficBatch(r) PROVE NodeCovered'
  <2> DEFINE new == Upsert(nodeRow, report[r].node, FALSE)
             newBase == IF nodeRow.seen THEN nodeFirst ELSE report[r].node
  <2>1. /\ Pending(r) /\ report[r].restarted = FALSE
        /\ \A q \in Reports : report'[q].node = report[r].node
    BY <1>0, <1>6 DEF UpsertNodeTrafficBatch, NoRestartSeen, ReportType
  <2>2. UNCHANGED <<nodeCounter, nodeCarried>>
    BY <1>6 DEF UpsertNodeTrafficBatch, xray, history
  <2>3. CASE UNCHANGED nodeDB
    BY <1>6, <2>1, <2>2, <2>3 DEF nodeDB
  <2>4. CASE nodeRow' = new /\ nodeFirst' = newBase
    <3>1. /\ new.seen
          /\ Covered(new, newBase, nodeCounter, nodeCarried)
          /\ CoveredThrough(new, newBase, report[r].node, nodeCounter, nodeCarried)
      BY <1>0, <2>1, CoverUpsert
    <3>2. QED
      BY <2>1, <2>2, <2>4, <3>1
  <2>5. QED
    BY <1>6, <2>1, <2>3, <2>4 DEF UpsertNodeTrafficBatch
<1>7. CASE UNCHANGED <<nodeRow, nodeFirst, nodeCounter, nodeCarried, report>>
  BY <1>7
<1>8. CASE ControllerRestart
  BY <1>8, <1>0 DEF ControllerRestart, xray, nodeDB, history
<1>9. ASSUME NEW r \in Reports,
             LoseReport(r) \/ UpsertTrafficBatch(r) \/ TrafficBatchFails(r)
      PROVE  NodeCovered'
  BY <1>4, <1>9 DEF LoseReport, UpsertTrafficBatch, TrafficBatchFails, history
<1>10. QED
  BY <1>1, <1>2, <1>3, <1>5, <1>6, <1>7, <1>8, <1>9
  DEF Next, vars, xray, nodeDB, history, ClientReadded, XrayStart, Heartbeat,
      ResetUserTrafficCycle, Midnight

-----------------------------------------------------------------------------
(* The rows of the emails. *)

LEMMA EmailStep ==
  ASSUME \A a, b \in Reports : a = b, TypeOK, NoRestartSeen, [Next]_vars,
         NEW e \in Emails, EmailCovered(e)
  PROVE  EmailCovered(e)'
<1> USE DEF EmailCovered, Pending
<1>0. /\ emailRow[e] \in Row /\ first[e] \in Nat /\ counter[e] \in Nat /\ carried[e] \in Nat
      /\ \A r \in Reports : report[r] \in ReportType /\ report[r].counter[e] \in Nat
      /\ NoReport.pc = "idle"
  BY DEF TypeOK, ReportType, NoReport
<1>1. ASSUME NEW f \in Emails, Carry(f) PROVE EmailCovered(e)'
  <2>1. UNCHANGED <<emailRow, first, report>>
    BY <1>1 DEF Carry, userDB
  <2>2. CASE f = e
    <3>1. counter'[e] = counter[e] + 1 /\ carried'[e] = carried[e] + 1
      BY <1>1, <2>2 DEF Carry, TypeOK
    <3>2. QED
      BY <1>0, <2>1, <3>1, CoverCarry
  <2>3. CASE f # e
    <3>1. counter'[e] = counter[e] /\ carried'[e] = carried[e]
      BY <1>1, <2>3 DEF Carry, TypeOK
    <3>2. QED
      BY <2>1, <3>1
  <2>4. QED
    BY <2>2, <2>3
<1>2. ASSUME XrayStop \/ \E f \in Emails : ClientReadded(f) PROVE EmailCovered(e)'
  <2>1. UNCHANGED <<emailRow, first, report, carried>>
    BY <1>2 DEF XrayStop, ClientReadded, userDB
  <2>2. counter'[e] = 0 \/ counter'[e] = counter[e]
    BY <1>2 DEF XrayStop, ClientReadded, TypeOK
  <2>3. CASE counter'[e] = 0
    BY <1>0, <2>1, <2>3, CoverZero
  <2>4. CASE counter'[e] = counter[e]
    BY <2>1, <2>4
  <2>5. QED
    BY <2>2, <2>3, <2>4
<1>3. ASSUME NEW r \in Reports, SendReport(r) PROVE EmailCovered(e)'
  <2>1. CoveredThrough(emailRow[e], first[e], counter[e], counter[e], carried[e])
    BY <1>0, CoverRead
  <2>2. \A q \in Reports : report'[q].counter[e] = counter[e]
    BY <1>3 DEF SendReport, TypeOK
  <2>3. QED
    BY <1>3, <2>1, <2>2 DEF SendReport, xray, userDB, history
<1>4. ASSUME report' = [q \in Reports |-> NoReport],
             UNCHANGED <<emailRow, first, counter, carried>>
      PROVE  EmailCovered(e)'
  BY <1>0, <1>4
<1>5. ASSUME NEW r \in Reports, LoseReport(r) \/ TrafficBatchFails(r)
      PROVE  EmailCovered(e)'
  <2>1. report' = [q \in Reports |-> NoReport]
    BY <1>5 DEF LoseReport, TrafficBatchFails, TypeOK
  <2>2. QED
    BY <1>4, <1>5, <2>1 DEF LoseReport, TrafficBatchFails, xray, userDB, history
<1>6. ASSUME NEW r \in Reports,
             AcceptReport(r) \/ CheckAndUpdate(r) \/ UpsertNodeTrafficBatch(r)
      PROVE  EmailCovered(e)'
  <2>1. /\ \A q \in Reports : Pending(q)
        /\ \A q \in Reports : report'[q].counter = report[q].counter
    BY <1>0, <1>6 DEF AcceptReport, CheckAndUpdate, UpsertNodeTrafficBatch, ReportType, TypeOK
  <2>2. QED
    BY <1>6, <2>1
    DEF AcceptReport, CheckAndUpdate, UpsertNodeTrafficBatch, xray, userDB, history
<1>7. ASSUME NEW r \in Reports, UpsertTrafficBatch(r) PROVE EmailCovered(e)'
  <2> DEFINE read == report[r].counter[e]
             new == Upsert(emailRow[e], read, FALSE)
             newBase == IF emailRow[e].seen THEN first[e] ELSE read
  <2>1. Pending(r) /\ report[r].restarted = FALSE
    BY <1>0, <1>7 DEF UpsertTrafficBatch, NoRestartSeen, ReportType
  <2>2. /\ report' = [q \in Reports |-> NoReport]
        /\ counter'[e] = counter[e] /\ carried'[e] = carried[e]
    BY <1>7 DEF UpsertTrafficBatch, xray, TypeOK
  <2>3. CASE e \in Reported(r)
    <3>1. emailRow'[e] = new
      BY <1>7, <2>1, <2>3 DEF UpsertTrafficBatch
    <3>2. first'[e] = newBase
      BY <1>0, <1>7, <2>3 DEF UpsertTrafficBatch
    <3>3. /\ new.seen
          /\ Covered(new, newBase, counter[e], carried[e])
      BY <1>0, <2>1, CoverUpsert
    <3>4. QED
      BY <1>0, <2>2, <3>1, <3>2, <3>3
  <2>4. CASE e \notin Reported(r)
    <3>1. emailRow'[e] = emailRow[e] /\ first'[e] = first[e]
      BY <1>0, <1>7, <2>4 DEF UpsertTrafficBatch
    <3>2. QED
      BY <1>0, <2>2, <3>1
  <2>5. QED
    BY <2>3, <2>4
<1>8. CASE ControllerRestart
  BY <1>4, <1>8 DEF ControllerRestart, xray, userDB, history
<1>9. CASE UNCHANGED <<emailRow, first, counter, carried, report>>
  BY <1>9
<1>10. QED
  BY <1>1, <1>2, <1>3, <1>5, <1>6, <1>7, <1>8, <1>9
  DEF Next, vars, xray, userDB, history, XrayStart, Heartbeat, ResetUserTrafficCycle,
      Midnight

\* One report at a time, and no boot time reported: no row is ever billed a
\* byte twice, whatever is lost, fails or restarts.
THEOREM SerialNeverOverbills ==
  ASSUME \A a, b \in Reports : a = b
  PROVE  Spec => []NeverOverbills
<1> DEFINE Inv == ~agentReportsBoot => SerialInv
<1>1. Init => Inv
  BY DEF Init, SerialInv, NoRestartSeen, NodeCovered, EmailCovered, Covered, NoReport,
         NewRow, Pending, Gain
<1>2. TypeOK /\ Inv /\ [Next]_vars => Inv'
  BY AgentStays, NoRestartStep, NodeStep, EmailStep DEF SerialInv
<1>3. TypeOK /\ Inv => NeverOverbills
  BY CoverBound DEF TypeOK, SerialInv, NodeCovered, EmailCovered, NeverOverbills
<1> HIDE DEF Inv
<1>4. QED
  BY <1>1, <1>2, <1>3, TypeCorrect, PTL DEF Spec

-----------------------------------------------------------------------------
(* Missed rounds. *)

LEMMA InOrderStep ==
  ASSUME \A a, b \in Reports : a = b, TypeOK, NoRestartSeen, [Next]_vars,
         NEW e \in Emails, EmailCovered(e), InOrder(e)
  PROVE  InOrder(e)'
<1> USE DEF InOrder, Pending
<1>0. /\ emailRow[e] \in Row /\ first[e] \in Nat /\ counter[e] \in Nat
      /\ \A r \in Reports : report[r] \in ReportType /\ report[r].counter[e] \in Nat
      /\ NoReport.pc = "idle"
  BY DEF TypeOK, ReportType, NoReport
<1>1. ASSUME NEW f \in Emails, Carry(f) PROVE InOrder(e)'
  <2>1. UNCHANGED <<emailRow, first, report, intact>>
    BY <1>1 DEF Carry, userDB
  <2>2. counter'[e] \in Nat /\ counter[e] <= counter'[e]
    BY <1>0, <1>1 DEF Carry, TypeOK
  <2>3. QED
    BY <1>0, <2>1, <2>2 DEF Row
<1>2. ASSUME XrayStop \/ \E f \in Emails : ClientReadded(f) PROVE InOrder(e)'
  <2>1. UNCHANGED <<emailRow, first, report>>
    BY <1>2 DEF XrayStop, ClientReadded, userDB
  <2>2. intact'[e] = FALSE \/ (intact'[e] = intact[e] /\ counter'[e] = counter[e])
    BY <1>2 DEF XrayStop, ClientReadded, TypeOK
  <2>3. QED
    BY <2>1, <2>2
<1>3. ASSUME NEW r \in Reports, SendReport(r) PROVE InOrder(e)'
  <2>1. \A q \in Reports : report'[q].counter[e] = counter[e]
    BY <1>3 DEF SendReport, TypeOK
  <2>2. QED
    BY <1>0, <1>3, <2>1 DEF SendReport, xray, userDB, history
<1>4. ASSUME report' = [q \in Reports |-> NoReport],
             UNCHANGED <<emailRow, first, counter, intact>>
      PROVE  InOrder(e)'
  BY <1>0, <1>4
<1>5. ASSUME NEW r \in Reports, LoseReport(r) \/ TrafficBatchFails(r)
      PROVE  InOrder(e)'
  <2>1. report' = [q \in Reports |-> NoReport]
    BY <1>5 DEF LoseReport, TrafficBatchFails, TypeOK
  <2>2. QED
    BY <1>4, <1>5, <2>1 DEF LoseReport, TrafficBatchFails, xray, userDB, history
<1>6. ASSUME NEW r \in Reports,
             AcceptReport(r) \/ CheckAndUpdate(r) \/ UpsertNodeTrafficBatch(r)
      PROVE  InOrder(e)'
  <2>1. /\ \A q \in Reports : Pending(q)
        /\ \A q \in Reports : report'[q].counter = report[q].counter
    BY <1>0, <1>6 DEF AcceptReport, CheckAndUpdate, UpsertNodeTrafficBatch, ReportType, TypeOK
  <2>2. QED
    BY <1>6, <2>1
    DEF AcceptReport, CheckAndUpdate, UpsertNodeTrafficBatch, xray, userDB, history
<1>7. ASSUME NEW r \in Reports, UpsertTrafficBatch(r) PROVE InOrder(e)'
  <2> DEFINE read == report[r].counter[e]
  <2>1. Pending(r) /\ report[r].restarted = FALSE
    BY <1>0, <1>7 DEF UpsertTrafficBatch, NoRestartSeen, ReportType
  <2>2. report' = [q \in Reports |-> NoReport] /\ counter'[e] = counter[e]
    BY <1>7 DEF UpsertTrafficBatch, xray, TypeOK
  <2>3. CASE e \in Reported(r)
    <3>1. emailRow'[e] = Upsert(emailRow[e], read, FALSE)
      BY <1>7, <2>1, <2>3 DEF UpsertTrafficBatch
    <3>2. CASE emailRow[e].seen
      <4>1. first'[e] = first[e] /\ intact'[e] = intact[e]
        BY <1>0, <1>7, <2>3, <3>2 DEF UpsertTrafficBatch
      <4>2. QED
        BY <1>0, <2>1, <2>2, <3>1, <3>2, <4>1 DEF Upsert, Delta, Gain, Row
    <3>3. CASE ~emailRow[e].seen
      <4>1. first'[e] = read /\ (intact'[e] => read <= counter[e])
        <5>1. first'[e] = first[e] + read /\ first[e] = 0
          BY <1>0, <1>7, <2>3, <3>3 DEF UpsertTrafficBatch, EmailCovered
        <5>2. intact'[e] = (counter[e] >= read)
          BY <1>7, <2>3, <3>3, Zenon DEF UpsertTrafficBatch
        <5>3. intact'[e] => counter[e] >= read
          BY <5>2, Zenon
        <5>4. counter[e] >= read => read <= counter[e]
          BY <1>0
        <5>5. first'[e] = read
          BY <1>0, <5>1
        <5>6. QED
          BY <5>3, <5>4, <5>5, Zenon
      <4>2. emailRow[e].up = 0
        BY <3>3 DEF EmailCovered, NewRow
      <4>3. QED
        BY <1>0, <2>1, <2>2, <3>1, <3>3, <4>1, <4>2 DEF Upsert, Delta, Row
    <3>4. QED
      BY <3>2, <3>3
  <2>4. CASE e \notin Reported(r)
    <3>1. emailRow'[e] = emailRow[e] /\ first'[e] = first[e] /\ intact'[e] = intact[e]
      BY <1>0, <1>7, <2>4 DEF UpsertTrafficBatch
    <3>2. QED
      BY <1>0, <2>2, <3>1
  <2>5. QED
    BY <2>3, <2>4
<1>8. CASE ControllerRestart
  BY <1>4, <1>8 DEF ControllerRestart, xray, userDB, history
<1>9. CASE UNCHANGED <<emailRow, first, counter, intact, report>>
  BY <1>9
<1>10. QED
  BY <1>1, <1>2, <1>3, <1>5, <1>6, <1>7, <1>8, <1>9
  DEF Next, vars, xray, userDB, history, XrayStart, Heartbeat, ResetUserTrafficCycle,
      Midnight

\* Under the same assumptions a missed round costs nothing: while its counter
\* does not go down, an email's row holds every byte up to the last report.
THEOREM SerialRecoversMissedRounds ==
  ASSUME \A a, b \in Reports : a = b
  PROVE  Spec => []MissedRoundsAreRecovered
<1> DEFINE MissedInv == ~agentReportsBoot => SerialInv /\ \A e \in Emails : InOrder(e)
<1>1. Init => MissedInv
  BY DEF Init, SerialInv, NoRestartSeen, NodeCovered, EmailCovered, Covered, NoReport,
         NewRow, Pending, Gain, InOrder
<1>2. TypeOK /\ MissedInv /\ [Next]_vars => MissedInv'
  BY AgentStays, NoRestartStep, NodeStep, EmailStep, InOrderStep DEF SerialInv
<1>3. TypeOK /\ MissedInv => MissedRoundsAreRecovered
  BY DEF TypeOK, Row, InOrder, MissedRoundsAreRecovered
<1> HIDE DEF MissedInv
<1>4. QED
  BY <1>1, <1>2, <1>3, TypeCorrect, PTL DEF Spec

-----------------------------------------------------------------------------
(* The rows of the users. *)

\* A user's bytes and those settled are covered by what the counters carried.
UserCovered(u) ==
  /\ ~userRow[u].seen => userRow[u] = NewRow /\ settled[u] = 0
  /\ Covered(userRow[u], settled[u], SumOf(counter, u), SumOf(carried, u))
  /\ \A r \in Reports : Pending(r) =>
       CoveredThrough(userRow[u], settled[u], SumOf(report[r].counter, u),
                      SumOf(counter, u), SumOf(carried, u))

\* The two emails of a user.
LEMMA TwoEmails ==
  ASSUME NEW u \in Users
  PROVE  /\ <<u, "main">> \in Emails /\ <<u, "routed">> \in Emails
         /\ <<u, "main">> # <<u, "routed">>
         /\ Owner(<<u, "main">>) = u /\ Owner(<<u, "routed">>) = u
         /\ \A e \in Emails : Owner(e) = u => e = <<u, "main">> \/ e = <<u, "routed">>
         /\ \A f \in [Emails -> Nat] : SumOf(f, u) \in Nat
<1>1. /\ <<u, "main">> \in Emails /\ <<u, "routed">> \in Emails
      /\ Owner(<<u, "main">>) = u /\ Owner(<<u, "routed">>) = u
  BY DEF Emails, Owner
<1>2. <<u, "main">> # <<u, "routed">>
  OBVIOUS
<1>3. ASSUME NEW e \in Emails, Owner(e) = u
      PROVE  e = <<u, "main">> \/ e = <<u, "routed">>
  BY <1>3 DEF Emails, Owner
<1>4. ASSUME NEW f \in [Emails -> Nat] PROVE SumOf(f, u) \in Nat
  BY <1>1 DEF SumOf
<1>5. QED
  BY <1>1, <1>2, <1>3, <1>4

\* A byte of one of two counters raises their sum by itself.
LEMMA SumCarry ==
  ASSUME NEW S, NEW f \in [S -> Nat], NEW m \in S, NEW o \in S, m # o,
         NEW e \in S, e = m \/ e = o
  PROVE  [f EXCEPT ![e] = @ + 1][m] + [f EXCEPT ![e] = @ + 1][o] = f[m] + f[o] + 1
<1>1. CASE e = m
  BY <1>1
<1>2. CASE e = o
  BY <1>2
<1>3. QED
  BY <1>1, <1>2

\* A sum of counters that goes down forgives the debt beyond what was read.
LEMMA CoverFall ==
  ASSUME NEW row \in Row, NEW base \in Nat, NEW read \in Nat, NEW now \in Nat,
         NEW total \in Nat, NEW less \in Nat, less <= now
  PROVE  /\ Covered(row, base, now, total) => Covered(row, base, less, total)
         /\ CoveredThrough(row, base, read, now, total)
              => CoveredThrough(row, base, read, less, total)
BY DEF Row, Covered, CoveredThrough, Debt, Gain

\* A reset moves bytes from the row to what is settled.
LEMMA CoverSettle ==
  ASSUME NEW row \in Row, NEW base \in Nat, NEW read \in Nat, NEW now \in Nat,
         NEW total \in Nat
  PROVE  LET reset == [row EXCEPT !.up = 0]
         IN  /\ Covered(row, base, now, total) => Covered(reset, base + row.up, now, total)
             /\ CoveredThrough(row, base, read, now, total)
                  => CoveredThrough(reset, base + row.up, read, now, total)
BY DEF Row, Covered, CoveredThrough, Debt, Gain

\* The first report of a user bills nothing, the next ones what they add.
LEMMA CoverUserUpsert ==
  ASSUME NEW row \in Row, NEW base \in Nat, NEW read \in Nat, NEW now \in Nat,
         NEW total \in Nat,
         ~row.seen => row = NewRow /\ base = 0,
         CoveredThrough(row, base, read, now, total)
  PROVE  LET new == Upsert(row, read, FALSE)
         IN  new.seen /\ Covered(new, base, now, total)
BY DEF Row, NewRow, Covered, CoveredThrough, Debt, Gain, Upsert, Delta, Archived

LEMMA UserStep ==
  ASSUME \A a, b \in Reports : a = b, TypeOK, NoRestartSeen, [Next]_vars,
         NEW u \in Users, UserCovered(u)
  PROVE  UserCovered(u)'
<1> USE DEF UserCovered, Pending
<1> DEFINE now == SumOf(counter, u)
           total == SumOf(carried, u)
           read(r) == SumOf(report[r].counter, u)
<1>0. /\ userRow[u] \in Row /\ settled[u] \in Nat /\ now \in Nat /\ total \in Nat
      /\ \A r \in Reports : report[r] \in ReportType /\ read(r) \in Nat
      /\ NoReport.pc = "idle"
  BY TwoEmails DEF TypeOK, ReportType, NoReport
<1>1. ASSUME NEW e \in Emails, Carry(e) PROVE UserCovered(u)'
  <2>1. UNCHANGED <<userRow, settled, report>>
    BY <1>1 DEF Carry, userDB
  <2>2. CASE Owner(e) = u
    <3>1. now' = now + 1 /\ total' = total + 1
      <4>1. /\ counter' = [counter EXCEPT ![e] = @ + 1]
            /\ carried' = [carried EXCEPT ![e] = @ + 1]
        BY <1>1 DEF Carry
      <4>2. /\ counter \in [Emails -> Nat] /\ carried \in [Emails -> Nat]
            /\ <<u, "main">> \in Emails /\ <<u, "routed">> \in Emails
            /\ <<u, "main">> # <<u, "routed">>
            /\ e = <<u, "main">> \/ e = <<u, "routed">>
        BY <2>2, TwoEmails DEF TypeOK
      <4>3. QED
        BY <4>1, <4>2, SumCarry DEF SumOf
    <3> HIDE DEF now, total
    <3>2. QED
      BY <1>0, <2>1, <3>1, CoverCarry DEF now, total
  <2>3. CASE Owner(e) # u
    <3>1. now' = now /\ total' = total
      BY <1>1, <2>3, TwoEmails DEF Carry, TypeOK, SumOf
    <3>2. QED
      BY <2>1, <3>1
  <2>4. QED
    BY <2>2, <2>3
<1>2. ASSUME XrayStop \/ \E e \in Emails : ClientReadded(e) PROVE UserCovered(u)'
  <2>1. UNCHANGED <<userRow, settled, report, carried>>
    BY <1>2 DEF XrayStop, ClientReadded, userDB
  <2>2. /\ counter' \in [Emails -> Nat]
        /\ \A e \in Emails : counter'[e] <= counter[e]
    BY <1>2 DEF XrayStop, ClientReadded, TypeOK
  <2>3. now' \in Nat /\ now' <= now
    BY <2>2, TwoEmails DEF SumOf, TypeOK
  <2>4. total' = total /\ \A r \in Reports : read(r)' = read(r)
    BY <2>1
  <2> HIDE DEF now, total
  <2>5. QED
    BY <1>0, <2>1, <2>3, <2>4, CoverFall DEF now, total
<1>3. ASSUME NEW r \in Reports, SendReport(r) PROVE UserCovered(u)'
  <2>1. CoveredThrough(userRow[u], settled[u], now, now, total)
    BY <1>0, CoverRead
  <2>2. \A q \in Reports : report'[q].counter = counter
    BY <1>3 DEF SendReport, TypeOK
  <2>3. QED
    BY <1>3, <2>1, <2>2 DEF SendReport, xray, userDB, history
<1>4. ASSUME report' = [q \in Reports |-> NoReport],
             UNCHANGED <<userRow, settled, counter, carried>>
      PROVE  UserCovered(u)'
  BY <1>0, <1>4
<1>5. ASSUME NEW r \in Reports, LoseReport(r) \/ TrafficBatchFails(r)
      PROVE  UserCovered(u)'
  <2>1. report' = [q \in Reports |-> NoReport]
    BY <1>5 DEF LoseReport, TrafficBatchFails, TypeOK
  <2>2. QED
    BY <1>4, <1>5, <2>1 DEF LoseReport, TrafficBatchFails, xray, userDB, history
<1>6. ASSUME NEW r \in Reports,
             AcceptReport(r) \/ CheckAndUpdate(r) \/ UpsertNodeTrafficBatch(r)
      PROVE  UserCovered(u)'
  <2>1. /\ \A q \in Reports : Pending(q)
        /\ \A q \in Reports : report'[q].counter = report[q].counter
    BY <1>0, <1>6 DEF AcceptReport, CheckAndUpdate, UpsertNodeTrafficBatch, ReportType, TypeOK
  <2>2. QED
    BY <1>6, <2>1
    DEF AcceptReport, CheckAndUpdate, UpsertNodeTrafficBatch, xray, userDB, history
<1>7. ASSUME NEW r \in Reports, UpsertTrafficBatch(r) PROVE UserCovered(u)'
  <2> DEFINE new == Upsert(userRow[u], read(r), FALSE)
  <2>1. Pending(r) /\ report[r].restarted = FALSE
    BY <1>0, <1>7 DEF UpsertTrafficBatch, NoRestartSeen, ReportType
  <2>2. /\ report' = [q \in Reports |-> NoReport]
        /\ UNCHANGED <<counter, carried, settled>>
    BY <1>7 DEF UpsertTrafficBatch, xray, TypeOK
  <2>3. CASE userRow'[u] = new
    <3>1. new.seen /\ Covered(new, settled[u], now, total)
      BY <1>0, <2>1, CoverUserUpsert
    <3>2. QED
      BY <1>0, <2>2, <2>3, <3>1
  <2>4. CASE userRow'[u] = userRow[u]
    BY <1>0, <2>2, <2>4
  <2>5. QED
    BY <1>7, <2>1, <2>3, <2>4 DEF UpsertTrafficBatch
<1>8. CASE ControllerRestart
  BY <1>4, <1>8 DEF ControllerRestart, xray, userDB, history
<1>9. ASSUME NEW v \in Users, ResetUserTrafficCycle(v) PROVE UserCovered(u)'
  <2>1. UNCHANGED <<counter, carried, report>>
    BY <1>9 DEF ResetUserTrafficCycle, xray, history
  <2>2. CASE v = u
    <3>1. /\ userRow'[u] = [userRow[u] EXCEPT !.up = 0]
          /\ settled'[u] = settled[u] + userRow[u].up
      BY <1>9, <2>2 DEF ResetUserTrafficCycle, TypeOK
    <3>2. ~userRow[u].seen => [userRow[u] EXCEPT !.up = 0] = NewRow /\ settled'[u] = 0
      BY <3>1 DEF NewRow
    <3>3. [userRow[u] EXCEPT !.up = 0].seen = userRow[u].seen
      BY <1>0 DEF Row
    <3>4. QED
      BY <1>0, <2>1, <3>1, <3>2, <3>3, CoverSettle
  <2>3. CASE v # u
    <3>1. userRow'[u] = userRow[u] /\ settled'[u] = settled[u]
      BY <1>9, <2>3 DEF ResetUserTrafficCycle, TypeOK
    <3>2. QED
      BY <2>1, <3>1
  <2>4. QED
    BY <2>2, <2>3
<1>10. CASE UNCHANGED <<userRow, settled, counter, carried, report>>
  BY <1>10
<1>11. QED
  BY <1>1, <1>2, <1>3, <1>5, <1>6, <1>7, <1>8, <1>9, <1>10
  DEF Next, vars, xray, userDB, history, XrayStart, Heartbeat, Midnight

\* Under the same assumptions a user's row, with what monthly resets removed
\* from it, never holds more bytes than the user's emails carried.
THEOREM SerialUserNeverOverbilled ==
  ASSUME \A a, b \in Reports : a = b
  PROVE  Spec => []UserNeverOverbilled
<1> DEFINE Inv == ~agentReportsBoot => NoRestartSeen /\ \A u \in Users : UserCovered(u)
<1>1. Init => Inv
  <2>1. ASSUME Init, NEW u \in Users, ~agentReportsBoot PROVE UserCovered(u)
    <3>1. SumOf(counter, u) = 0 /\ SumOf(carried, u) = 0
      BY <2>1, TwoEmails DEF Init, SumOf
    <3>2. /\ userRow[u] = NewRow /\ settled[u] = 0
          /\ \A r \in Reports : ~Pending(r)
      BY <2>1 DEF Init, NoReport, Pending
    <3>3. QED
      BY <3>1, <3>2 DEF UserCovered, Covered, NewRow, Gain
  <2>2. Init /\ ~agentReportsBoot => NoRestartSeen
    BY DEF Init, NoRestartSeen, NoReport
  <2>3. QED
    BY <2>1, <2>2
<1>2. TypeOK /\ Inv /\ [Next]_vars => Inv'
  BY AgentStays, NoRestartStep, UserStep
<1>3. TypeOK /\ Inv => UserNeverOverbilled
  BY TwoEmails, CoverBound DEF TypeOK, UserCovered, UserNeverOverbilled
<1> HIDE DEF Inv
<1>4. QED
  BY <1>1, <1>2, <1>3, TypeCorrect, PTL DEF Spec

-----------------------------------------------------------------------------
(* The tables agree: with boot times too. *)

\* Every email of the user that has a row has an intact counter.
Steady(u) == \A e \in Emails : Owner(e) = u /\ emailRow[e].seen => intact[e]

\* What is read of an intact counter lies between its row and the counter.
Rising(e) ==
  /\ ~emailRow[e].seen => emailRow[e] = NewRow
  /\ emailRow[e].seen /\ intact[e] =>
       /\ emailRow[e].last <= counter[e]
       /\ \A r \in Reports : Pending(r) =>
            emailRow[e].last <= report[r].counter[e] /\ report[r].counter[e] <= counter[e]

LEMMA RisingStep ==
  ASSUME \A a, b \in Reports : a = b, TypeOK, [Next]_vars,
         NEW e \in Emails, Rising(e)
  PROVE  Rising(e)'
<1> USE DEF Rising, Pending
<1>0. /\ emailRow[e] \in Row /\ counter[e] \in Nat
      /\ \A r \in Reports : report[r] \in ReportType /\ report[r].counter[e] \in Nat
      /\ NoReport.pc = "idle"
  BY DEF TypeOK, ReportType, NoReport
<1>1. ASSUME NEW f \in Emails, Carry(f) PROVE Rising(e)'
  <2>1. UNCHANGED <<emailRow, report, intact>>
    BY <1>1 DEF Carry, userDB
  <2>2. counter'[e] \in Nat /\ counter[e] <= counter'[e]
    BY <1>0, <1>1 DEF Carry, TypeOK
  <2>3. QED
    BY <1>0, <2>1, <2>2 DEF Row
<1>2. ASSUME XrayStop \/ \E f \in Emails : ClientReadded(f) PROVE Rising(e)'
  <2>1. UNCHANGED <<emailRow, report>>
    BY <1>2 DEF XrayStop, ClientReadded, userDB
  <2>2. intact'[e] = FALSE \/ (intact'[e] = intact[e] /\ counter'[e] = counter[e])
    BY <1>2 DEF XrayStop, ClientReadded, TypeOK
  <2>3. QED
    BY <2>1, <2>2
<1>3. ASSUME NEW r \in Reports, SendReport(r) PROVE Rising(e)'
  <2>1. \A q \in Reports : report'[q].counter[e] = counter[e]
    BY <1>3 DEF SendReport, TypeOK
  <2>2. QED
    BY <1>0, <1>3, <2>1 DEF SendReport, xray, userDB, history
<1>4. ASSUME report' = [q \in Reports |-> NoReport],
             UNCHANGED <<emailRow, counter, intact>>
      PROVE  Rising(e)'
  BY <1>0, <1>4
<1>5. ASSUME NEW r \in Reports, LoseReport(r) \/ TrafficBatchFails(r)
      PROVE  Rising(e)'
  <2>1. report' = [q \in Reports |-> NoReport]
    BY <1>5 DEF LoseReport, TrafficBatchFails, TypeOK
  <2>2. QED
    BY <1>4, <1>5, <2>1 DEF LoseReport, TrafficBatchFails, xray, userDB, history
<1>6. ASSUME NEW r \in Reports,
             AcceptReport(r) \/ CheckAndUpdate(r) \/ UpsertNodeTrafficBatch(r)
      PROVE  Rising(e)'
  <2>1. /\ \A q \in Reports : Pending(q)
        /\ \A q \in Reports : report'[q].counter = report[q].counter
    BY <1>0, <1>6 DEF AcceptReport, CheckAndUpdate, UpsertNodeTrafficBatch, ReportType, TypeOK
  <2>2. QED
    BY <1>6, <2>1
    DEF AcceptReport, CheckAndUpdate, UpsertNodeTrafficBatch, xray, userDB, history
<1>7. ASSUME NEW r \in Reports, UpsertTrafficBatch(r) PROVE Rising(e)'
  <2> DEFINE read == report[r].counter[e]
  <2>1. Pending(r)
    BY <1>7 DEF UpsertTrafficBatch
  <2>2. report' = [q \in Reports |-> NoReport] /\ counter'[e] = counter[e]
    BY <1>7 DEF UpsertTrafficBatch, xray, TypeOK
  <2>3. CASE e \in Reported(r)
    <3>1. emailRow'[e].seen /\ emailRow'[e].last = read
      BY <1>7, <2>3 DEF UpsertTrafficBatch, Upsert
    <3>2. intact'[e] => read <= counter[e]
      <4>1. CASE emailRow[e].seen
        <5>1. intact'[e] = intact[e]
          BY <1>7, <4>1 DEF UpsertTrafficBatch
        <5>2. QED
          BY <2>1, <4>1, <5>1
      <4>2. CASE ~emailRow[e].seen
        <5>1. intact'[e] = (counter[e] >= read)
          BY <1>7, <2>3, <4>2, Zenon DEF UpsertTrafficBatch
        <5>2. intact'[e] => counter[e] >= read
          BY <5>1, Zenon
        <5>3. counter[e] >= read => read <= counter[e]
          BY <1>0
        <5>4. QED
          BY <5>2, <5>3, Zenon
      <4>3. QED
        BY <4>1, <4>2
    <3>3. QED
      BY <1>0, <2>2, <3>1, <3>2
  <2>4. CASE e \notin Reported(r)
    <3>1. emailRow'[e] = emailRow[e] /\ intact'[e] = intact[e]
      BY <1>7, <2>4 DEF UpsertTrafficBatch
    <3>2. QED
      BY <1>0, <2>2, <3>1
  <2>5. QED
    BY <2>3, <2>4
<1>8. CASE ControllerRestart
  BY <1>4, <1>8 DEF ControllerRestart, xray, userDB, history
<1>9. CASE UNCHANGED <<emailRow, counter, intact, report>>
  BY <1>9
<1>10. QED
  BY <1>1, <1>2, <1>3, <1>5, <1>6, <1>7, <1>8, <1>9
  DEF Next, vars, xray, userDB, history, XrayStart, Heartbeat, ResetUserTrafficCycle,
      Midnight

Main(u)   == emailRow[<<u, "main">>]
Routed(u) == emailRow[<<u, "routed">>]

\* The user's row is the sum of the emails' rows, in bytes and in the counter
\* read last.
Sums(u) ==
  /\ userRow[u].last = Main(u).last + Routed(u).last
  /\ userRow[u].up + settled[u] = Main(u).up + Routed(u).up + joined[u]

Agrees(u) ==
  /\ userRow[u].seen <=> Main(u).seen \/ Routed(u).seen
  /\ ~userRow[u].seen => userRow[u] = NewRow /\ settled[u] = 0 /\ joined[u] = 0
  /\ Steady(u) => Sums(u)

\* What one email adds to its row and to what joined late, when the user's row
\* is already there: as much as to the user's row.
Part(row, raw, flag) == IF flag THEN raw ELSE raw - row.last

LEMMA PartOfEmail ==
  ASSUME NEW row \in Row, NEW raw \in Nat, NEW flag \in BOOLEAN,
         ~row.seen => row = NewRow, row.last <= raw
  PROVE  /\ Upsert(row, raw, flag).last = raw
         /\ Upsert(row, raw, flag).up + (IF row.seen THEN 0 ELSE raw)
              = row.up + Part(row, raw, flag)
         /\ Part(row, raw, flag) \in Nat
BY DEF Row, NewRow, Upsert, Delta, Gain, Part

\* The batch that a report commits keeps the sums.
LEMMA SumsBatch ==
  ASSUME TypeOK, NEW r \in Reports, UpsertTrafficBatch(r), NEW u \in Users,
         \A e \in Emails : Rising(e), Agrees(u), NEW f \in Emails,
         f \in Reported(r), Owner(f) = u, Steady(u)
  PROVE  Sums(u)'
<1>a. SUFFICES ASSUME NEW m, NEW o, m = <<u, "main">>, o = <<u, "routed">>
               PROVE  Sums(u)'
  OBVIOUS
<1> DEFINE raw == report[r].counter
           flag == report[r].restarted
           Late(e) == IF e \in Reported(r) /\ ~emailRow[e].seen THEN raw[e] ELSE 0
<1>0. /\ m \in Emails /\ o \in Emails /\ Owner(m) = u /\ Owner(o) = u
      /\ emailRow[m] \in Row /\ emailRow[o] \in Row /\ userRow[u] \in Row
      /\ raw[m] \in Nat /\ raw[o] \in Nat /\ flag \in BOOLEAN
      /\ settled[u] \in Nat /\ joined[u] \in Nat
      /\ report[r].running
      /\ emailRow[m].last \in Nat /\ emailRow[o].last \in Nat
      /\ emailRow[m].up \in Nat /\ emailRow[o].up \in Nat /\ userRow[u].up \in Nat
  BY <1>a, TwoEmails DEF TypeOK, ReportType, Row, Reported
<1>1. \A e \in {m, o} :
        /\ ~emailRow[e].seen => emailRow[e] = NewRow
        /\ emailRow[e].last <= raw[e]
        /\ e \notin Reported(r) => raw[e] = 0 /\ emailRow[e].last = 0
  <2> SUFFICES ASSUME NEW e \in {m, o}
               PROVE  /\ ~emailRow[e].seen => emailRow[e] = NewRow
                      /\ emailRow[e].last <= raw[e]
                      /\ e \notin Reported(r) => raw[e] = 0 /\ emailRow[e].last = 0
    OBVIOUS
  <2>1. e \in Emails /\ Owner(e) = u /\ raw[e] \in Nat /\ emailRow[e].last \in Nat
    BY <1>0
  <2>2. ~emailRow[e].seen => emailRow[e] = NewRow /\ emailRow[e].last = 0
    BY <2>1 DEF Rising, NewRow
  <2>3. emailRow[e].last <= raw[e]
    <3>1. CASE emailRow[e].seen
      BY <2>1, <3>1 DEF Rising, Steady, Pending, UpsertTrafficBatch
    <3>2. QED
      BY <2>1, <2>2, <3>1
  <2>4. e \notin Reported(r) => raw[e] = 0
    BY <1>0, <2>1 DEF Reported
  <2>5. QED
    BY <2>1, <2>2, <2>3, <2>4
<1>2. \A e \in {m, o} :
        /\ emailRow'[e].last = raw[e]
        /\ emailRow'[e].up \in Nat
        /\ userRow[u].seen =>
             emailRow'[e].up + Late(e) = emailRow[e].up + Part(emailRow[e], raw[e], flag)
        /\ ~userRow[u].seen => emailRow'[e].up = 0
  <2> SUFFICES ASSUME NEW e \in {m, o}
               PROVE  /\ emailRow'[e].last = raw[e]
                      /\ emailRow'[e].up \in Nat
                      /\ emailRow'[e].up + Late(e)
                           = emailRow[e].up + Part(emailRow[e], raw[e], flag)
                      /\ ~userRow[u].seen => emailRow'[e].up = 0
    OBVIOUS
  <2>0. /\ e \in Emails /\ Owner(e) = u /\ emailRow[e] \in Row /\ raw[e] \in Nat
        /\ ~userRow[u].seen => emailRow[e] = NewRow
    BY <1>0, <1>1, <1>a DEF Agrees, Main, Routed
  <2>1. CASE e \in Reported(r)
    <3>1. emailRow'[e] = Upsert(emailRow[e], raw[e], flag)
      BY <2>0, <2>1 DEF UpsertTrafficBatch
    <3>2. Late(e) = IF emailRow[e].seen THEN 0 ELSE raw[e]
      BY <2>1
    <3>3. emailRow'[e].up \in Nat
      BY <1>0, <2>0, <3>1 DEF Upsert, Delta, Gain, Row
    <3>4. ~userRow[u].seen => emailRow'[e].up = 0
      BY <2>0, <3>1 DEF Upsert, Delta, NewRow
    <3>5. QED
      BY <1>0, <1>1, <2>0, <3>1, <3>2, <3>3, <3>4, PartOfEmail
  <2>2. CASE e \notin Reported(r)
    <3>1. emailRow'[e] = emailRow[e] /\ Late(e) = 0
      BY <2>0, <2>2 DEF UpsertTrafficBatch
    <3>2. Part(emailRow[e], raw[e], flag) = 0
      BY <1>1, <2>2 DEF Part
    <3>3. emailRow[e].up \in Nat /\ (~userRow[u].seen => emailRow[e].up = 0)
      BY <1>0, <2>0 DEF NewRow, Row
    <3>4. QED
      BY <1>1, <2>2, <3>1, <3>2, <3>3
  <2>3. QED
    BY <2>1, <2>2
<1>3. /\ userRow'[u] = Upsert(userRow[u], raw[m] + raw[o], flag)
      /\ settled'[u] = settled[u]
  BY <1>0, <1>a DEF UpsertTrafficBatch, SumOf
<1>4. joined'[u] = IF userRow[u].seen THEN joined[u] + Late(m) + Late(o) ELSE joined[u]
  BY <1>a DEF UpsertTrafficBatch
<1>5. userRow'[u].last = raw[m] + raw[o]
  BY <1>3 DEF Upsert
<1>6. Late(m) \in Nat /\ Late(o) \in Nat
  BY <1>0
<1>7. CASE userRow[u].seen
  <2>1. /\ userRow[u].last = emailRow[m].last + emailRow[o].last
        /\ userRow[u].up + settled[u] = emailRow[m].up + emailRow[o].up + joined[u]
    BY <1>7, <1>a DEF Agrees, Sums, Main, Routed
  <2> DEFINE pm == Part(emailRow[m], raw[m], flag)
             po == Part(emailRow[o], raw[o], flag)
  <2>2. userRow'[u].up = userRow[u].up + pm + po
    <3>1. emailRow[m].last <= raw[m] /\ emailRow[o].last <= raw[o]
      BY <1>1
    <3>2. Upsert(userRow[u], raw[m] + raw[o], flag).up = userRow[u].up + pm + po
      BY <1>0, <1>7, <2>1, <3>1 DEF Upsert, Delta, Gain, Part
    <3>3. QED
      BY <1>3, <3>2
  <2>3. pm \in Nat /\ po \in Nat
    BY <1>0, <1>1, PartOfEmail
  <2>4. /\ emailRow'[m].up + Late(m) = emailRow[m].up + pm
        /\ emailRow'[o].up + Late(o) = emailRow[o].up + po
        /\ emailRow'[m].up \in Nat /\ emailRow'[o].up \in Nat
    BY <1>2, <1>7
  <2>5. joined'[u] = joined[u] + Late(m) + Late(o)
    BY <1>4, <1>7
  <2>6. userRow'[u].up + settled'[u] = emailRow'[m].up + emailRow'[o].up + joined'[u]
    <3> DEFINE one == emailRow[m].up
               two == emailRow[o].up
               newOne == emailRow'[m].up
               newTwo == emailRow'[o].up
               lateOne == Late(m)
               lateTwo == Late(o)
               up == userRow[u].up
               gone == settled[u]
               late == joined[u]
    <3>1. /\ up \in Nat /\ gone \in Nat /\ late \in Nat /\ one \in Nat /\ two \in Nat
          /\ lateOne \in Nat /\ lateTwo \in Nat
      BY <1>0, <1>6
    <3>2. newOne \in Nat /\ newTwo \in Nat /\ pm \in Nat /\ po \in Nat
      BY <2>3, <2>4
    <3>3. up + gone = one + two + late
      BY <2>1
    <3>4. newOne + lateOne = one + pm /\ newTwo + lateTwo = two + po
      BY <2>4
    <3>5. /\ userRow'[u].up = up + pm + po /\ settled'[u] = gone
          /\ joined'[u] = late + lateOne + lateTwo
      BY <1>3, <2>2, <2>5
    <3> HIDE DEF one, two, newOne, newTwo, lateOne, lateTwo, up, gone, late, pm, po
    <3>6. up + pm + po + gone = newOne + newTwo + (late + lateOne + lateTwo)
      BY <3>1, <3>2, <3>3, <3>4
    <3>7. QED
      BY <3>5, <3>6 DEF newOne, newTwo
  <2>7. QED
    BY <1>2, <1>5, <1>a, <2>6 DEF Sums, Main, Routed
<1>8. CASE ~userRow[u].seen
  <2>1. userRow'[u].up = 0 /\ settled'[u] = 0 /\ joined'[u] = 0
    BY <1>3, <1>4, <1>8 DEF Agrees, NewRow, Upsert, Delta
  <2>2. QED
    BY <1>2, <1>5, <1>8, <1>a, <2>1 DEF Sums, Main, Routed
<1>9. QED
  BY <1>7, <1>8

LEMMA AgreesStep ==
  ASSUME TypeOK, [Next]_vars, \A e \in Emails : Rising(e), NEW u \in Users, Agrees(u)
  PROVE  Agrees(u)'
<1>1. ASSUME UNCHANGED <<emailRow, userRow, settled, joined>>,
             \A e \in Emails : intact'[e] => intact[e]
      PROVE  Agrees(u)'
  <2>1. Steady(u)' => Steady(u)
    BY <1>1 DEF Steady
  <2>2. Sums(u)' <=> Sums(u)
    BY <1>1 DEF Sums, Main, Routed
  <2>3. QED
    BY <1>1, <2>1, <2>2 DEF Agrees, Main, Routed
<1>2. CASE UNCHANGED <<userDB, intact>>
  BY <1>1, <1>2 DEF userDB
<1>3. ASSUME XrayStop \/ \E e \in Emails : ClientReadded(e) PROVE Agrees(u)'
  <2>1. \A e \in Emails : intact'[e] => intact[e]
    BY <1>3 DEF XrayStop, ClientReadded, TypeOK
  <2>2. QED
    BY <1>1, <1>3, <2>1 DEF XrayStop, ClientReadded, userDB
<1>4. ASSUME NEW r \in Reports, UpsertTrafficBatch(r) PROVE Agrees(u)'
  <2>1. CASE \E f \in Emails : f \in Reported(r) /\ Owner(f) = u
    <3>1. PICK f \in Emails : f \in Reported(r) /\ Owner(f) = u
      BY <2>1
    <3>2. userRow'[u].seen /\ emailRow'[f].seen
      BY <1>4, <3>1 DEF UpsertTrafficBatch, Upsert
    <3>3. Main(u)'.seen \/ Routed(u)'.seen
      BY <3>1, <3>2, TwoEmails DEF Main, Routed
    <3>4. \A e \in Emails : emailRow[e].seen => emailRow'[e].seen
      BY <1>4 DEF UpsertTrafficBatch, Upsert
    <3>5. \A e \in Emails : emailRow[e].seen => intact'[e] = intact[e]
      BY <1>4 DEF UpsertTrafficBatch
    <3>6. Steady(u)' => Steady(u)
      BY <3>4, <3>5 DEF Steady
    <3>7. Steady(u)' => Sums(u)'
      BY <1>4, <3>1, <3>6, SumsBatch
    <3>8. QED
      BY <3>2, <3>3, <3>7 DEF Agrees, Main, Routed
  <2>2. CASE ~ \E f \in Emails : f \in Reported(r) /\ Owner(f) = u
    <3>1. /\ <<u, "main">> \in Emails /\ <<u, "routed">> \in Emails
          /\ <<u, "main">> \notin Reported(r) /\ <<u, "routed">> \notin Reported(r)
      BY <2>2, TwoEmails
    <3>2. Main(u)' = Main(u) /\ Routed(u)' = Routed(u)
      BY <1>4, <3>1 DEF UpsertTrafficBatch, Main, Routed
    <3>3. userRow'[u] = userRow[u] /\ settled'[u] = settled[u]
      <4> DEFINE users == {v \in Users : \E e \in Reported(r) : Owner(e) = v}
      <4>1. u \notin users
        BY <2>2 DEF Reported
      <4>2. userRow' = [v \in Users |->
                         IF v \in users
                         THEN Upsert(userRow[v], SumOf(report[r].counter, v), report[r].restarted)
                         ELSE userRow[v]]
        BY <1>4 DEF UpsertTrafficBatch
      <4>3. UNCHANGED settled
        BY <1>4 DEF UpsertTrafficBatch
      <4> HIDE DEF users
      <4>4. QED
        BY <4>1, <4>2, <4>3
    <3>4. joined[u] \in Nat /\ joined'[u] = joined[u]
      BY <1>4, <3>1 DEF UpsertTrafficBatch, TypeOK
    <3>5. Steady(u)' => Steady(u)
      <4>1. \A e \in Emails : Owner(e) = u =>
              emailRow'[e] = emailRow[e] /\ intact'[e] = intact[e]
        BY <1>4, <2>2 DEF UpsertTrafficBatch
      <4>2. QED
        BY <4>1 DEF Steady
    <3>6. Sums(u)' <=> Sums(u)
      BY <3>2, <3>3, <3>4 DEF Sums
    <3>7. QED
      BY <3>2, <3>3, <3>4, <3>5, <3>6 DEF Agrees
  <2>3. QED
    BY <2>1, <2>2
<1>5. ASSUME NEW v \in Users, ResetUserTrafficCycle(v) PROVE Agrees(u)'
  <2>1. UNCHANGED <<emailRow, joined, intact>>
    BY <1>5 DEF ResetUserTrafficCycle, history
  <2>2. Steady(u)' => Steady(u)
    BY <2>1 DEF Steady
  <2>3. CASE v # u
    <3>1. userRow'[u] = userRow[u] /\ settled'[u] = settled[u]
      BY <1>5, <2>3 DEF ResetUserTrafficCycle, TypeOK
    <3>2. QED
      BY <2>1, <2>2, <3>1 DEF Agrees, Sums, Main, Routed
  <2>4. CASE v = u
    <3>1. userRow[u] \in Row /\ settled[u] \in Nat
      BY DEF TypeOK
    <3>2. /\ userRow'[u] = [userRow[u] EXCEPT !.up = 0]
          /\ settled'[u] = settled[u] + userRow[u].up
      BY <1>5, <2>4 DEF ResetUserTrafficCycle, TypeOK
    <3>3. /\ userRow'[u].seen = userRow[u].seen /\ userRow'[u].last = userRow[u].last
          /\ userRow'[u].up + settled'[u] = userRow[u].up + settled[u]
      BY <3>1, <3>2 DEF Row
    <3>4. ~userRow[u].seen => userRow'[u] = NewRow /\ settled'[u] = 0
      BY <3>2 DEF Agrees, NewRow
    <3>5. Sums(u)' <=> Sums(u)
      BY <2>1, <3>3 DEF Sums, Main, Routed
    <3>6. QED
      BY <2>1, <2>2, <3>3, <3>4, <3>5 DEF Agrees, Main, Routed
  <2>5. QED
    BY <2>3, <2>4
<1>6. CASE Midnight
  BY <1>1, <1>6 DEF Midnight, history
<1>7. QED
  BY <1>2, <1>3, <1>4, <1>5, <1>6
  DEF Next, vars, history, Carry, XrayStart, Heartbeat, SendReport, LoseReport,
      AcceptReport, CheckAndUpdate, UpsertNodeTrafficBatch, TrafficBatchFails,
      ControllerRestart

\* With one report at a time, and with boot times as without, the user's row
\* and the rows of the user's emails tell the same story as long as no counter
\* goes down.
THEOREM SerialTablesAgree ==
  ASSUME \A a, b \in Reports : a = b
  PROVE  Spec => []TablesAgreeWhileIntact
<1> DEFINE Inv == (\A e \in Emails : Rising(e)) /\ \A u \in Users : Agrees(u)
<1>1. Init => Inv
  <2>1. ASSUME Init, NEW u \in Users PROVE Agrees(u)
    <3>1. /\ Main(u) = NewRow /\ Routed(u) = NewRow /\ userRow[u] = NewRow
          /\ settled[u] = 0 /\ joined[u] = 0
      BY <2>1, TwoEmails DEF Init, Main, Routed
    <3>2. QED
      BY <3>1 DEF Agrees, Sums, NewRow
  <2>2. ASSUME Init, NEW e \in Emails PROVE Rising(e)
    BY <2>2 DEF Init, Rising, NewRow
  <2>3. QED
    BY <2>1, <2>2
<1>2. TypeOK /\ Inv /\ [Next]_vars => Inv'
  BY RisingStep, AgreesStep
<1>3. Inv => TablesAgreeWhileIntact
  BY DEF Agrees, Steady, Sums, Main, Routed, TablesAgreeWhileIntact
<1> HIDE DEF Inv
<1>4. QED
  BY <1>1, <1>2, <1>3, TypeCorrect, PTL DEF Spec
=============================================================================
