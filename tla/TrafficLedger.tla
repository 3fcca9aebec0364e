---------------------------- MODULE TrafficLedger ----------------------------
(***************************************************************************)
(* The traffic ledger of one managed server.                               *)
(*                                                                         *)
(* The xray process on the server counts bytes in memory.  The agent sends *)
(* the counters at every traffic tick, over the WebSocket, by HTTP push or *)
(* as the answer to a pull; each report is handled by its own call of      *)
(* Collector.ProcessRemoteMetrics, which asks the restart detector once    *)
(* and then commits two transactions: the node rows, then the rows of the  *)
(* emails and of the users they belong to.                                 *)
(*                                                                         *)
(* A user owns two emails, the main account and one routed sub-account;    *)
(* the server has one inbound, through which all their bytes pass.         *)
(***************************************************************************)
EXTENDS LedgerRow

CONSTANTS
  Users,             \* user names
  Reports,           \* slots for reports in flight (concurrent handlers)
  MaxBytes,          \* bound: bytes carried by the server
  MaxBoots,          \* bound: xray processes started
  MaxResets,         \* bound: counter resets and monthly resets
  MaxCrashes         \* bound: controller restarts

NoBoot == 0          \* xray_boot_time IS NULL / server not in the cache

ASSUME LedgerAssumption ==
  /\ MaxBytes \in Nat /\ MaxBoots \in Nat
  /\ MaxResets \in Nat /\ MaxCrashes \in Nat

Emails == Users \X {"main", "routed"}
Owner(e) == e[1]
SumOf(f, u) == f[<<u, "main">>] + f[<<u, "routed">>]

VARIABLES
  running, boot,     \* the xray process: is it up, and which one is it
  counter,           \* its user counters, by email
  nodeCounter,       \* its inbound counter
  agentReportsBoot,  \* does the agent's heartbeat carry xray_boot_time?
  xrayBootTime,      \* remote_servers.xray_boot_time
  detector,          \* XrayRestartDetector.cache of this server
  report,            \* the reports in flight
  nodeRow,           \* node_traffic
  emailRow,          \* user_email_traffic
  userRow,           \* user_traffic
  cycleBase,         \* user_email_traffic.cycle_base_uplink
  dailyNode, dailyEmail, dailyUser,   \* traffic_daily_*: today and closed days
  resets, crashes    \* bounds

(***************************************************************************)
(* History variables: what a perfect observer knows of each email and of   *)
(* the inbound.  No action reads them.                                     *)
(*   carried   bytes carried since the server was installed                *)
(*   first     the counter the row's baseline was taken from               *)
(*   intact    since then the counter was never below a value read of it   *)
(*   settled   bytes removed from userRow[u].up by monthly resets          *)
(*   joined    baselines of the emails first seen after the user's row     *)
(***************************************************************************)
VARIABLES carried, nodeCarried, first, nodeFirst, intact, settled, joined

xray     == <<running, boot, counter, nodeCounter>>
server   == <<agentReportsBoot, xrayBootTime, detector>>
nodeDB   == <<nodeRow, dailyNode, nodeFirst>>
userDB   == <<emailRow, userRow, cycleBase, dailyEmail, dailyUser,
              first, settled, joined>>
bounds   == <<resets, crashes>>
history  == <<carried, nodeCarried, intact>>
vars     == <<xray, server, report, nodeDB, userDB, bounds, history>>

-----------------------------------------------------------------------------
Ledger == [today : Nat, closed : Nat]
NoReport == [pc |-> "idle", counter |-> [e \in Emails |-> 0], node |-> 0,
             running |-> FALSE, boot |-> NoBoot, restarted |-> FALSE]
ReportType == [pc : {"idle", "sent", "accepted", "node", "user"},
               counter : [Emails -> Nat], node : Nat, running : BOOLEAN,
               boot : Nat, restarted : BOOLEAN]

TypeOK ==
  /\ running \in BOOLEAN /\ boot \in Nat
  /\ counter \in [Emails -> Nat] /\ nodeCounter \in Nat
  /\ agentReportsBoot \in BOOLEAN /\ xrayBootTime \in Nat /\ detector \in Nat
  /\ report \in [Reports -> ReportType]
  /\ nodeRow \in Row /\ emailRow \in [Emails -> Row] /\ userRow \in [Users -> Row]
  /\ cycleBase \in [Emails -> Nat]
  /\ dailyNode \in Ledger
  /\ dailyEmail \in [Emails -> Ledger] /\ dailyUser \in [Users -> Ledger]
  /\ resets \in Nat /\ crashes \in Nat
  /\ carried \in [Emails -> Nat] /\ nodeCarried \in Nat
  /\ first \in [Emails -> Nat] /\ nodeFirst \in Nat
  /\ intact \in [Emails -> BOOLEAN]
  /\ settled \in [Users -> Nat] /\ joined \in [Users -> Nat]

Init ==
  /\ running = TRUE /\ boot = 1
  /\ counter = [e \in Emails |-> 0] /\ nodeCounter = 0
  /\ agentReportsBoot \in BOOLEAN /\ xrayBootTime = NoBoot /\ detector = NoBoot
  /\ report = [r \in Reports |-> NoReport]
  /\ nodeRow = NewRow
  /\ emailRow = [e \in Emails |-> NewRow] /\ userRow = [u \in Users |-> NewRow]
  /\ cycleBase = [e \in Emails |-> 0]
  /\ dailyNode = [today |-> 0, closed |-> 0]
  /\ dailyEmail = [e \in Emails |-> [today |-> 0, closed |-> 0]]
  /\ dailyUser = [u \in Users |-> [today |-> 0, closed |-> 0]]
  /\ resets = 0 /\ crashes = 0
  /\ carried = [e \in Emails |-> 0] /\ nodeCarried = 0
  /\ first = [e \in Emails |-> 0] /\ nodeFirst = 0
  /\ intact = [e \in Emails |-> TRUE]
  /\ settled = [u \in Users |-> 0] /\ joined = [u \in Users |-> 0]

-----------------------------------------------------------------------------
(* The xray process of the server. *)

Carry(e) ==
  /\ running /\ nodeCarried < MaxBytes
  /\ counter' = [counter EXCEPT ![e] = @ + 1]
  /\ nodeCounter' = nodeCounter + 1
  /\ carried' = [carried EXCEPT ![e] = @ + 1]
  /\ nodeCarried' = nodeCarried + 1
  /\ UNCHANGED <<running, boot, server, report, nodeDB, userDB, bounds, intact>>

\* The process ends and its counters with it.
XrayStop ==
  /\ running /\ boot < MaxBoots
  /\ running' = FALSE
  /\ counter' = [e \in Emails |-> 0] /\ nodeCounter' = 0
  /\ intact' = [e \in Emails |-> FALSE]
  /\ UNCHANGED <<boot, server, report, nodeDB, userDB, bounds, carried, nodeCarried>>

XrayStart ==
  /\ ~running
  /\ running' = TRUE /\ boot' = boot + 1
  /\ UNCHANGED <<counter, nodeCounter, server, report, nodeDB, userDB, bounds, history>>

\* A single counter starts again from 0 while the process lives, as the clamp
\* in the upserts allows for: an xray whose counters are read with reset, a
\* client that was removed and added again.
ClientReadded(e) ==
  /\ counter[e] > 0 /\ resets < MaxResets
  /\ counter' = [counter EXCEPT ![e] = 0]
  /\ intact' = [intact EXCEPT ![e] = FALSE]
  /\ resets' = resets + 1
  /\ UNCHANGED <<running, boot, nodeCounter, server, report, nodeDB, userDB,
                 crashes, carried, nodeCarried>>

-----------------------------------------------------------------------------
(* Messages. *)

\* UpdateRemoteServerHeartbeatWithRestart writes the field the heartbeat
\* carries, NULL when it carries none.
Heartbeat ==
  /\ xrayBootTime' = IF agentReportsBoot /\ running THEN boot ELSE NoBoot
  /\ UNCHANGED <<xray, agentReportsBoot, detector, report, nodeDB, userDB, bounds, history>>

\* The agent reads the counters.
SendReport(r) ==
  /\ report[r].pc = "idle"
  /\ report' = [report EXCEPT ![r] =
       [pc |-> "sent", counter |-> counter, node |-> nodeCounter,
        running |-> running, boot |-> NoBoot, restarted |-> FALSE]]
  /\ UNCHANGED <<xray, server, nodeDB, userDB, bounds, history>>

\* The connection breaks or the request fails before the handler runs.
LoseReport(r) ==
  /\ report[r].pc = "sent"
  /\ report' = [report EXCEPT ![r] = NoReport]
  /\ UNCHANGED <<xray, server, nodeDB, userDB, bounds, history>>

-----------------------------------------------------------------------------
(* The handler: one action per database access or lock. *)

\* The handler reads the server's row for xray_boot_time; if that fails it goes
\* on without.
AcceptReport(r) ==
  /\ report[r].pc = "sent"
  /\ \E read \in {xrayBootTime, NoBoot} :
       report' = [report EXCEPT ![r].pc = "accepted", ![r].boot = read]
  /\ UNCHANGED <<xray, server, nodeDB, userDB, bounds, history>>

IsRestart(cached, bootTime) ==
  bootTime # NoBoot /\ cached # NoBoot /\ cached # bootTime

CheckAndUpdate(r) ==
  /\ report[r].pc = "accepted"
  /\ report' = [report EXCEPT ![r].pc = "node",
                              ![r].restarted = IsRestart(detector, report[r].boot)]
  /\ detector' = IF report[r].boot = NoBoot THEN detector ELSE report[r].boot
  /\ UNCHANGED <<xray, agentReportsBoot, xrayBootTime, nodeDB, userDB, bounds, history>>

\* Mutant: the day's row is overwritten instead of added to.
AddDailyOverwrites(ledger, delta) == [ledger EXCEPT !.today = delta]

AddDaily(ledger, delta) == [ledger EXCEPT !.today = @ + delta]

\* One transaction, which may fail: the error is logged and the user batch
\* follows all the same.  An xray that is down reports no inbound.
UpsertNodeTrafficBatch(r) ==
  /\ report[r].pc = "node"
  /\ report' = [report EXCEPT ![r].pc = "user"]
  /\ LET raw == report[r].node
         flag == report[r].restarted
     IN \/ /\ report[r].running
           /\ nodeRow' = Upsert(nodeRow, raw, flag)
           /\ dailyNode' = AddDaily(dailyNode, Delta(nodeRow, raw, flag))
           /\ nodeFirst' = IF nodeRow.seen THEN nodeFirst ELSE raw
        \/ UNCHANGED nodeDB
  /\ UNCHANGED <<xray, server, userDB, bounds, history>>

\* A counter exists once its email has carried a byte in this process.
Reported(r) == {e \in Emails : report[r].running /\ report[r].counter[e] > 0}

\* aggregateAndUpsertUserTraffic with UpsertTrafficBatch: the rows of all the
\* reported emails and of their users in one transaction.
UpsertTrafficBatch(r) ==
  LET raw == report[r].counter
      flag == report[r].restarted
      users == {u \in Users : \E e \in Reported(r) : Owner(e) = u}
      New(e) == IF e \in Reported(r) /\ ~emailRow[e].seen THEN raw[e] ELSE 0
  IN
  /\ report[r].pc = "user"
  /\ report' = [report EXCEPT ![r] = NoReport]
  /\ emailRow' = [e \in Emails |->
       IF e \in Reported(r) THEN Upsert(emailRow[e], raw[e], flag) ELSE emailRow[e]]
  /\ dailyEmail' = [e \in Emails |->
       IF e \in Reported(r)
       THEN AddDaily(dailyEmail[e], Delta(emailRow[e], raw[e], flag))
       ELSE dailyEmail[e]]
  /\ userRow' = [u \in Users |->
       IF u \in users THEN Upsert(userRow[u], SumOf(raw, u), flag) ELSE userRow[u]]
  /\ dailyUser' = [u \in Users |->
       IF u \in users
       THEN AddDaily(dailyUser[u], Delta(userRow[u], SumOf(raw, u), flag))
       ELSE dailyUser[u]]
  /\ first' = [e \in Emails |-> first[e] + New(e)]
  /\ joined' = [u \in Users |->
       IF userRow[u].seen
       THEN joined[u] + New(<<u, "main">>) + New(<<u, "routed">>) ELSE joined[u]]
  /\ intact' = [e \in Emails |->
       IF e \in Reported(r) /\ ~emailRow[e].seen THEN counter[e] >= raw[e] ELSE intact[e]]
  /\ UNCHANGED <<xray, server, nodeDB, cycleBase, settled, bounds, carried, nodeCarried>>

\* Mutants: a failed batch leaves the emails' last_* updated; or it leaves the
\* emails' rows written and only the users' rows are rolled back.
BatchFailsAfterLast(r) ==
  /\ report[r].pc = "user"
  /\ report' = [report EXCEPT ![r] = NoReport]
  /\ emailRow' = [e \in Emails |->
       IF e \in Reported(r) /\ emailRow[e].seen
       THEN [emailRow[e] EXCEPT !.last = report[r].counter[e]] ELSE emailRow[e]]
  /\ UNCHANGED <<xray, server, nodeDB, userRow, cycleBase, dailyEmail, dailyUser,
                 first, settled, joined, bounds, history>>

BatchFailsAfterEmails(r) ==
  /\ report[r].pc = "user"
  /\ report' = [report EXCEPT ![r] = NoReport]
  /\ emailRow' = [e \in Emails |->
       IF e \in Reported(r) /\ emailRow[e].seen
       THEN Upsert(emailRow[e], report[r].counter[e], report[r].restarted)
       ELSE emailRow[e]]
  /\ UNCHANGED <<xray, server, nodeDB, userRow, cycleBase, dailyEmail, dailyUser,
                 first, settled, joined, bounds, history>>

\* The transaction rolls back and the report is gone.
TrafficBatchFails(r) ==
  /\ report[r].pc = "user"
  /\ report' = [report EXCEPT ![r] = NoReport]
  /\ UNCHANGED <<xray, server, nodeDB, userDB, bounds, history>>

-----------------------------------------------------------------------------
(* The controller's clock and life. *)

\* ResetUserTrafficCycle, one transaction over both tables.
ResetUserTrafficCycle(u) ==
  /\ resets < MaxResets /\ resets' = resets + 1
  /\ userRow' = [userRow EXCEPT ![u].up = 0]
  /\ cycleBase' = [e \in Emails |->
       IF Owner(e) = u /\ emailRow[e].seen THEN emailRow[e].up ELSE cycleBase[e]]
  /\ settled' = [settled EXCEPT ![u] = @ + userRow[u].up]
  /\ UNCHANGED <<xray, server, report, nodeDB, emailRow, dailyEmail, dailyUser,
                 first, joined, crashes, history>>

CloseDay(ledger) == [today |-> 0, closed |-> ledger.closed + ledger.today]

Midnight ==
  /\ dailyNode' = CloseDay(dailyNode)
  /\ dailyEmail' = [e \in Emails |-> CloseDay(dailyEmail[e])]
  /\ dailyUser' = [u \in Users |-> CloseDay(dailyUser[u])]
  /\ UNCHANGED <<xray, server, report, nodeRow, nodeFirst, emailRow, userRow,
                 cycleBase, first, settled, joined, bounds, history>>

\* The process ends: handlers and the detector's map are lost, the database
\* is not.
ControllerRestart ==
  /\ crashes < MaxCrashes /\ crashes' = crashes + 1
  /\ report' = [r \in Reports |-> NoReport]
  /\ detector' = NoBoot
  /\ UNCHANGED <<xray, agentReportsBoot, xrayBootTime, nodeDB, userDB, resets, history>>

-----------------------------------------------------------------------------
Next ==
  \/ \E e \in Emails : Carry(e) \/ ClientReadded(e)
  \/ XrayStop \/ XrayStart \/ Heartbeat
  \/ \E r \in Reports :
       \/ SendReport(r) \/ LoseReport(r) \/ AcceptReport(r) \/ CheckAndUpdate(r)
       \/ UpsertNodeTrafficBatch(r) \/ UpsertTrafficBatch(r) \/ TrafficBatchFails(r)
  \/ \E u \in Users : ResetUserTrafficCycle(u)
  \/ Midnight \/ ControllerRestart

Spec == Init /\ [][Next]_vars
-----------------------------------------------------------------------------
(* What the ledger promises. *)

\* Without boot times, no row ever holds more bytes than its counter carried
\* after the baseline, whatever reports are lost, whatever transactions fail
\* and however often the counters restart (upsertUserEmailTrafficOn,
\* UpsertNodeTrafficBatch: the delta is max(0, new-last), so a falling counter
\* is never billed again).
NeverOverbills == ~agentReportsBoot =>
  /\ nodeRow.seen => nodeRow.up + nodeFirst <= nodeCarried
  /\ \A e \in Emails : emailRow[e].seen => emailRow[e].up + first[e] <= carried[e]

\* The same of a user's row, which is written from the sum of the counters of
\* the emails that have one and zeroed by the monthly reset.
UserNeverOverbilled == ~agentReportsBoot =>
  \A u \in Users : userRow[u].up + settled[u] <= SumOf(carried, u)

\* Without boot times a missed round costs nothing: as long as a counter does not go down, the
\* row holds exactly the bytes between its baseline and the last committed
\* report, whichever reports, transactions or controllers died in between
\* (UpsertTrafficBatch: the next round's raw value is cumulative and its delta
\* takes in the missed one).
MissedRoundsAreRecovered == ~agentReportsBoot =>
  \A e \in Emails :
    emailRow[e].seen /\ intact[e] => emailRow[e].up = emailRow[e].last - first[e]

\* While no counter of a user goes down, the user's row and the rows of the
\* emails tell the same story: the two tables are committed together and the
\* user's delta is the sum of the deltas (aggregateAndUpsertUserTraffic).
TablesAgreeWhileIntact ==
  \A u \in Users :
    (\A e \in Emails : Owner(e) = u => intact[e]) =>
      userRow[u].up + settled[u]
        = emailRow[<<u, "main">>].up + emailRow[<<u, "routed">>].up + joined[u]

\* The daily ledgers add up to the cumulative tables, across midnights,
\* monthly resets, failed transactions and crashes (addDaily*Traffic in the
\* transaction of the row).
DailyLedgersAddUp ==
  /\ dailyNode.today + dailyNode.closed = nodeRow.up
  /\ \A e \in Emails : dailyEmail[e].today + dailyEmail[e].closed = emailRow[e].up
  /\ \A u \in Users :
       dailyUser[u].today + dailyUser[u].closed = userRow[u].up + settled[u]

\* What is archived in total never exceeds what was added to the ledger beyond
\* the baseline: total_* is not inflated by counters that merely went down
\* (the historical bug UpsertNodeTraffic's comment describes), and a cycle
\* starts at or below the ledger it is measured against.
ArchiveIsCovered ==
  /\ nodeRow.total + nodeRow.last <= nodeRow.up + nodeFirst
  /\ \A e \in Emails :
       /\ emailRow[e].total + emailRow[e].last <= emailRow[e].up + first[e]
       /\ cycleBase[e] <= emailRow[e].up

-----------------------------------------------------------------------------
(* Why a serial ledger never overbills: the inductive invariant. *)

\* What a row may still be billed: the increase from its last value to the
\* value a report in flight has read, and from there to the counter.
Debt(row, read, now) == Gain(row.last, read) + Gain(read, now)

\* A row's bytes, its baseline and its debt are covered by what was carried.
Covered(row, base, now, total) == row.up + base + Gain(row.last, now) <= total
CoveredThrough(row, base, read, now, total) ==
  row.up + base + Debt(row, read, now) <= total

Pending(r) == report[r].pc # "idle"

\* An agent that sends no boot time is never seen to restart xray.
NoRestartSeen ==
  /\ ~agentReportsBoot
  /\ xrayBootTime = NoBoot /\ detector = NoBoot
  /\ \A r \in Reports : report[r].boot = NoBoot /\ ~report[r].restarted

NodeCovered ==
  /\ ~nodeRow.seen => nodeRow = NewRow /\ nodeFirst = 0
  /\ Covered(nodeRow, nodeFirst, nodeCounter, nodeCarried)
  /\ \A r \in Reports : Pending(r) =>
       CoveredThrough(nodeRow, nodeFirst, report[r].node, nodeCounter, nodeCarried)

EmailCovered(e) ==
  /\ ~emailRow[e].seen => emailRow[e] = NewRow /\ first[e] = 0
  /\ Covered(emailRow[e], first[e], counter[e], carried[e])
  /\ \A r \in Reports : Pending(r) =>
       CoveredThrough(emailRow[e], first[e], report[r].counter[e], counter[e], carried[e])

SerialInv == NoRestartSeen /\ NodeCovered /\ \A e \in Emails : EmailCovered(e)

\* While a counter is intact it only grows, and so do the values read of it.
InOrder(e) ==
  emailRow[e].seen /\ intact[e] =>
    /\ emailRow[e].up + first[e] = emailRow[e].last
    /\ emailRow[e].last <= counter[e]
    /\ \A r \in Reports : Pending(r) =>
         emailRow[e].last <= report[r].counter[e] /\ report[r].counter[e] <= counter[e]
=============================================================================
