# mmwx in TLA+

A verification development of mmwx: the controller (`controller/`, the Go module
that keeps the database, bills traffic and manages servers) and its agents
(`agent/`, one per managed server, with xray embedded or beside it).  The
modules model the parts whose correctness depends on order, failure and
concurrency; TLC checks small instances, TLAPS proves the central results for
every instance.

## The system

| Component | State it keeps | Operations | What must hold |
| --- | --- | --- | --- |
| traffic ledger: `internal/traffic`, `storage` | cumulative rows `node_traffic`, `user_email_traffic`, `user_traffic`; daily ledgers; the restart detector's cache | reports (WebSocket, HTTP push, pull), monthly reset, midnight, controller restart | no byte billed twice; a missed round is made up; tables and daily ledgers agree |
| access control: `traffic_limit_enforcer.go`, `users.go`, `packages.go`, `inbound_client_reconciler.go`, `routed_outbound.go` | `users` flags and package; `user_inbound_configs`, `user_subaccounts`; the clients on the agents | enforcement tick, enable and disable, assign, renew and unbind, nightly resynchronisation | nobody without the right has a client and nobody is forgotten, but for additions cut short; flags tell the truth about the agents |
| secure channel: `securechan` on both sides | sequence numbers and replay windows | seal, open, key exchange | each message is opened at most once; only old or spoiled numbers are refused |
| remote commands: `remote_manage.go`, `ws_rpc.go`, `crypto_middleware.go` | pending RPCs, `pullSessions`, the agent's session cache | reverse RPC, HTTP with renegotiation, next address | a command is carried out again only when its answer was given up; every call ends |
| HTTP push encryption: `http_crypto.go`, `client.go` | the agent's session, the controller's cache of sessions by token, their windows | push by two goroutines, key exchange, renegotiation on 412, expiry | a report that counts as sent was handled, once; an expired session costs no report; genuine envelopes open |
| server presence and WebSocket registry: `remote_ws.go`, `collector.go`, `storage` | `remote_servers` (status, `last_heartbeat`, `offline_since`, `offline_notified`, fallback), `conns`, the heartbeat throttle | authentication, cleanup, sweep, frames, pushes, pulls, collector rounds | an outage is chosen for its notice once and only after the tolerance; a dead server ends told (unless the controller ended with the notice in hand), a reporting one shows; every registry entry is somebody's |
| streamed commands: `ws_rpc.go` on both sides, `forwardStreamToRemote`, `sseStreamCmd` | `pendingStream`, the call's channel, executions at the agent | stream over the WebSocket, fallback to HTTP, time limits on both sides | the front end sees one execution, in order; success comes after all the agent sent; every call ends |
| agent loops: `client.go` | connection mode, queues | reconnection, mode switching, recovery | as far as the controller sees them, in the components above |

Agents report counters and heartbeats to the controller; the controller calls
agents (over the WebSocket's reverse RPC or by HTTP) to add and remove clients.
Access control reads the ledger (the billable traffic) and acts through remote
commands, which run over the secure channel.  `PROJECT.json` lists the
remaining components with the reason they are left out.

The hard parts, listed line by line under "hazards" in `PROJECT.json`: reports
handled concurrently and out of order; transactions that fail between two
others; counters that start again; agents that are offline for some of several
steps; decisions taken from rows that have changed since; flags that end a retry
loop; sessions that the two sides replace independently; answers that are lost
after the work is done.

## The modules

| Module | Stands for |
| --- | --- |
| `LedgerRow` | the arithmetic the three upsert functions share: baseline, delta, archive |
| `TrafficLedger` | the ledger of one server: xray's counters, reports in flight, the handler's steps, resets, midnight, crashes |
| `AccessControl` | one user's access: database rows, clients on agents, five tasks that walk access points one call at a time |
| `ReplayWindow` | `replayWindow.Check`, with the bitmap as a set |
| `SecureChannel` | one direction of a session over a network that loses, repeats and reorders |
| `AtMostOnce` | what such a direction promises (abstract specification) |
| `RemoteCommand` | `forwardToRemoteServer` on the controller and `CryptoMiddleware` on the agent |
| `ServerPresence` | one server's presence: its row, the registry's entry, the handlers of its connections, the collector's rounds |
| `StreamingCall` | one streamed command: the call, the channel, the connection, executions at the agent, the HTTP fallback |
| `HttpPush` | reports pushed by HTTP: the agent's goroutines, requests and answers, both sides' sessions |
| `MCHttpPush`, `MCTrafficLedger`, `MCAccessControl`, `MCRemoteCommand`, `MCServerPresence`, `MCStreamingCall` | instances for TLC, and the statements of comments that TLC refutes |
| `ReplayWindowProofs`, `TrafficLedgerProofs`, `AccessControlProofs`, `SecureChannelProofs`, `RemoteCommandProofs`, `HttpPushProofs`, `ServerPresenceProofs`, `StreamingCallProofs` | theorems |

`RemoteCommand`, `HttpPush` and `SecureChannel` are built on `ReplayWindow`,
`TrafficLedger` on `LedgerRow`; `SecureChannel` (the messages of one direction)
and `HttpPush` (the reports) implement `AtMostOnce`.

### TrafficLedger

A report is a record that passes through `sent`, `accepted` (the handler has
read `xray_boot_time`), `node` (the restart detector has answered) and `user`
(the node batch is committed or has failed); each step is one access to a shared
resource, so that handlers interleave where the goroutines do.  A read of
`xray_boot_time` that fails is a report without one.  Uplink and
downlink are independent copies of the same arithmetic: one is kept.  A user has
two emails, because the user's row is written from their sum.  History variables
know the bytes carried and the baselines; `intact[e]` says that the counter has
not gone down since the row's baseline.  The agent of this repository sends no
`xray_boot_time`, so that `total_*` never moves with it although
`cmd/server/main.go:1436` expects it to; `agentReportsBoot`, chosen at the start,
covers an agent that does.

### AccessControl

A task is idle, decides, walks the plain inbounds, walks the routed nodes and
finishes; every call to an agent is one action.  An agent that is online carries
it out and answers; of one that is not, the controller learns nothing, and the
call may have been carried out all the same (`AddsClient`, `RemovesClient`).
`HandlersOverlap` allows a task to start while another works (the status handler,
the assignment and the reconciler are goroutines of their own).  A decision uses
the row the task read first (`Job.active`, `Job.expired`), a walk the rows that
exist when it starts, as in the code.

The visit of a routed node is several steps, between any two of which the agent
may be lost or the controller end:

| Visit | Steps |
| --- | --- |
| removal (`removeUserFromRoutedNode`) | `RemoveRoute`, `RemoveClient` whatever became of the rule, `MarkInactive` if both were confirmed |
| restoration (`addUserToRoutedNode`) | `AddClient`, `SaveSubaccount`, `AddRoute`; if the rule fails `UndoClient`, whose answer nobody looks at; after any failure `Retract`, which marks the row inactive (`resumeUserRoutedAccess`) |
| provisioning (`AssignAndProvision`) | `Provision` claims active rows before any call, `BatchAdd` is the one call for client and rule, `SaveBatch` saves the row unless the rule failed |

`unfinished` remembers, for each routed node, what its last visit was if it was
not confirmed to its end.  An addition that ends halfway with the row inactive
leaves the node `Stranded`: the client may be on the agent, and no removal, all
of which go by the active rows, will visit it.  The properties and theorems say
that this is the only way for a client to be forgotten, and
`access_stranded.cfg` that it happens.  The routing rule itself is no state of
the model: what is modelled of it is whether its calls were confirmed.  Traffic
is one bit: at the limit or not.  `UnassignPackage` and `UnassignDone` are an
unbinding by hand or with the package's deletion (the handler and
`unbindUserPackage` differ only in calling the agents one by one or at once):
each confirmed removal from an inbound deletes its row, and the package is
cleared whatever failed (`RemovePackageFromUser`).  `unconfirmed` remembers
where the last removal failed; neither the enforcer nor the reconciler looks at
a user without a package, so these clients stay until the next unbinding or
package.

### RemoteCommand

Every call is a goroutine with at most one HTTP exchange; requests whose caller
has given up stay in `stray` and reach the agent later or never.  At the agent a
request's handler starts in one action and answers in another, so key exchanges
and expiries fall between the two; the session is the request's own variable
(`CryptoMiddleware`).  A command that answers with an error has not been carried
out (`Outcomes`): a handler that fails half-way is outside the model.

`spoiled` remembers the numbers that answers of another session have used up in
a window: a command without a body may be run under the session that replaced
its caller's, and `Session.Decrypt` notes the number of its answer in the
caller's window before the cipher rejects it.  An answer the caller's session
did give then finds its number taken (`Displaced`).  This takes three calls and
two sessions; besides the run, an instance with three calls, two sessions and
neither RPC nor expiry was checked (3.9 million states).

### HttpPush

A report is a record that passes through `plain`, `keyexchange` or `sealed` (on
its way), its handler (`answering`, `agreeing`, `sealing`) and an answer; the key
exchange of the code carries the report in the clear, so it is one of the three.
Requests whose worker has given up stay in `late` and are handled later or never.
Both goroutines read and replace the one `httpSession`; the controller replaces
its cached session with every key exchange and reads every envelope with the
one it has, whichever the envelope was sealed with (the header carries no
session's name).  Reading the session and sealing are one step, since nothing
reads the number between the two; the answer is read with the session that the
worker has kept.  `handled` counts the reports that have passed
`handleHTTPCrypto`; `disturbed` says whether something else was under way during
a push, `spoiled` which numbers an envelope of another session has used up.  The
key's three values are the agent without a key, with a wrong one (every push
is a key exchange) and with the right one.

### ServerPresence

A connection's handler is a process that goes through `auth`, `evict`, `store`,
`update`, `live`, `check`, `delete`, `mark` and back to `closed`; each stage is
one access to `conns` or to the row, so that the cleanup of an old connection,
the authentication of a new one and `CleanupStaleConnections` interleave as the
goroutines do.  The collector's round is `MarkOffline`, the two statements of
`TakeOfflineServersToNotify`, and `Lists`, which decides to pull or to count a
failure.  A time stamp is its age in ticks up to the largest age a comparison
tells apart; `Tick` advances them all.  `row.since` of the SELECT and the UPDATE
are compared with the same cutoff, which is why `elapsed` counts the ticks
between the two.  The UPDATE commits `offline_notified` (`TakeFlags`), and only
then does `collectAll` hand the outages to `OnServerOffline` (`Notifies`); the
history variable `notice` follows an outage's notice from the SELECT that chose
it, and is `lost` if the controller ends with it in hand.  What happens to a
notice that was handed on (the notifier's own throttle of five minutes per
server and event, `notify_scheduler.go:47`, and its delivery) is not modelled;
nor is a SELECT or UPDATE that fails, which the next round repeats.  The server
has an address to pull from.

### StreamingCall

Time is left open: the controller's deadline and the agent's time limit may fire
at any moment, so nothing rests on the two seconds between them.  Execution 0 is
the one over the WebSocket, the others serve an HTTP address each; a call or a
request may arrive after the controller has given it up.  `ReplyDone` and
`ReplyTimeout` are the goroutine that waits, `Flush` and `Finish` the command.
A frame is the number of the execution and of the flush.  A command may finish
after any number of flushes above zero, the last of which is the verdict:
`sseStreamCmd` calls `cmd.Wait()` beside the scanners of the output, and the wait
closes their pipes, so that what they have not read is lost, as is what follows a
line over 256 KB.  `OkIsWhole` is therefore about what the agent sent, not about
what the command printed.  The model begins after the checks of
`forwardStreamToRemote` that end the request at once: the server exists, is
connected, and has at least one address.

## What is checked

All runs finish within five minutes on two cores.

| Run | Bounds | Result |
| --- | --- | --- |
| `ledger` | 1 user, 2 emails, 1 report at a time, 3 bytes, 2 xray processes, 1 crash, 1 reset (none with boot times: `NoResetWithBoot`) | 3.8 million states, all seven invariants hold |
| `access` | 1 inbound, 1 routed node, all five tasks, 1 crash | 228 thousand states, safety and liveness hold |
| `channel` | window of 3, 6 messages | 70 thousand states, the window is exact and implements `AtMostOnce` |
| `command` | 2 calls (one with a body), 2 addresses, 1 expiry, window of 4 | 596 thousand states, safety and `EveryCallEnds` hold |
| `presence` | 2 connections, both modes, tolerance of 2 ticks, all other limits 1, 1 controller restart | 713 thousand states, safety and liveness hold |
| `stream` | 3 frames, a channel of 2, 2 HTTP addresses | 728 thousand states, safety and liveness hold |
| `push` | 2 goroutines, 4 reports, 1 fault (expiry, agent restart, change of the setting), window of 2 | 735 thousand states, safety, `PushesEnd` and the refinement of `AtMostOnce` hold |
| `ledger_concurrent`, `access_reconciler`, `access_relapse`, `presence_fallback`, `stream_refused` | as small as the counterexample allows | each refutes what one comment of the repository says; see "findings" |

Why the bounds are enough for the questions asked: three bytes let a counter
grow, restart and pass its old value again; two emails and one user are what the
sum and the batch tell apart; one inbound and one routed node are the two kinds
of access point, and a failure of either but not the other occurs; a window of
three has numbers ahead of it, in it, at its end and behind it, with shifts
within and beyond its width; two calls are enough for each side to replace the
session the other relies on; two connections are the old and the new one, with a
tolerance above the throttle window so that a throttled report can make a
difference; four reports are what an envelope of an old session needs to use up
a number of the new one before its own envelope arrives (two key exchanges and
an envelope of each), and a window of two has a number that falls out of it;
three frames do not fit the channel of two, and two addresses are
the first and the last.  The inductive invariant `AccessInv` was also
checked with one inbound and two routed nodes (5.7 million states).

### Findings

1. *Two reports in the wrong order bill twice* (`ledger_concurrent`).
2. *The reconciler readmits disabled users* (`access_reconciler`).
3. *Over the limit, partly restored, over again: never cut off*
   (`access_relapse`).
4. *A server that has fallen back to pull mode is never pulled from*
   (`presence_fallback`): it is offline by then, and the collector skips offline
   servers in pull mode.
5. *A refused streamed command is a success* (`stream_refused`): its body is sent
   as data, before the status.

What the passing runs excuse does happen.  Three configurations beside the runs
show it, each by a counterexample to what a comment says:

- `access_stranded.cfg` (with `MCAccessControl`): *an addition to a routed node
  that ends between its calls leaves a client that nobody removes*.  The row is
  inactive, a disabling or a cut-off visits active rows only, and its completion
  is recorded with the client still on the agent, although
  `traffic_limit_enforcer.go:132` says that a disabled user is taken off all
  routed subaccounts and retried until all agents have confirmed.  This takes an
  agent that is lost for a while.
- `access_half_removed.cfg` (with `MCAccessControl`): *a removal from a routed
  node that was carried out but not confirmed is never restored*.  The row is
  still active when the user is back under the limit, the restoration visits
  inactive rows only, and the quota is lifted, although
  `traffic_limit_enforcer.go:222` says that `is_over_limit` is kept until
  everything is back.
- `presence_lost_notice.cfg` (with `MCServerPresence`): *an outage may be marked
  as told and never told*.  The flag is committed before the notice, and the
  controller may end in between; `storage/traffic.go:820` says the flag means
  that the notice was sent, and the online notice is sent because of it.

### What the passing runs assume

- `ledger`: reports of one server are handled one at a time.  With concurrent
  reports `NeverOverbills` fails (finding 1).  With boot times a restart flagged
  a round late bills a counter on top of its increase, so that `NeverOverbills`,
  `UserNeverOverbilled` and `MissedRoundsAreRecovered` speak of an agent that
  sends none; the other invariants hold whatever the detector says.
- `access`: tasks do not overlap.  A call that was not confirmed takes effect
  when it is made or never; one that an agent carries out later, behind the
  calls that follow it, is not modelled.  An agent that is online confirms what
  it does: a refusal in one call of several (an agent that answers the client
  and not the rule, say) is the agent being lost in between, except in the
  batch, whose rule may fail alone.  The claims of a first provisioning that was
  cut short (`Provision`) are `unfinished`, so that `LiftedOnlyWhenWhole`
  excuses them like half-removed nodes.  The fallback for agents without the
  batch call is left out.  With overlapping tasks every safety property of the
  module but the types is refuted; a package renewed while the enforcer removes
  the expired one, for one, is cleared (`storage/traffic.go:8717` calls it "an
  expired assignment").
- `presence`: notices are handed over in the round that has flagged them, unless
  the controller ends; `DeadServerIsTold` excuses exactly that case.  A notice
  goes out even if the server has come back since, as in the code.  Reports are
  handled in one step each (a report's SELECT for the online notice is not
  modelled); the tolerance is positive: with 0 the UPDATE could flag an outage
  that began after the SELECT.
- `stream`: none beyond the bounds; what the agent loses of the command's output is
  outside `OkIsWhole`.
- `push`: an agent with a key meets a controller that does not require
  encryption, because the setting is only looked at for a report in the clear
  (`SettingMatters` drops the duplicates).  A success in the clear to a sealed
  report (a report without statistics, or an answer that could not be sealed) is
  not modelled: the report has then passed `handleHTTPCrypto` like any other.

### Fairness

- `AccessControl!FairSpec`: work begun goes on (`WF_vars(Work)`: the calls have
  timeouts and the goroutines run) and the enforcer's ticker comes round again
  (`SF_vars(ListUsersWithPackage)`: strong, because other tasks may hold the
  turn whenever the ticker looks; in the code the tick waits for nobody).
  Liveness is stated for executions in which every agent is reachable from some
  time on.
- `RemoteCommand!FairSpec`: each call's own steps (`WF_vars(ControllerStep(c))`):
  every wait of `CallAgent` and of the HTTP client has a timeout.  Nothing is
  assumed of the agent or the network.
- `ServerPresence!FairSpec`: time passes (`WF_vars(Tick)`), the collector's ticker
  fires (`WF_vars(Round)`), goroutines that have begun go on
  (`WF_vars(Handle(c))`, `WF_vars(SweepDeletes)`), and an agent that runs and can
  report does (`WF_vars(Reports)`: which report is left open).  That the row is
  marked or shown is not assumed but follows.
- `StreamingCall!FairSpec`: the caller's goroutine (`WF_vars(Caller)`, which has a
  deadline) and, once the front end has left, its HTTP part (`WF_vars(Leaves)`: the
  request's context ends it).  An HTTP response has no time limit otherwise, and
  nothing is claimed of it; nor is anything assumed of the agent.
- `HttpPush!FairSpec`: each goroutine's steps (`WF_vars(WorkerStep(w))`): the HTTP
  client's timeout ends every wait.  Nothing is assumed of the controller.
- `TrafficLedger` and `SecureChannel` state safety only.

## What is proved

Every theorem holds for all values of the constants.

- `TrafficLedgerProofs`: `TypeCorrect`, `DailyCorrect` and `ArchiveCorrect` with
  any number of concurrent reports, restarts and crashes.  They rest on lemmas
  about a row: an upsert changes the row and the day by the same delta
  (`DailyCorrect`), and never archives more than it adds (`ArchiveCorrect`).
  With one report slot and no boot times,
  `SerialNeverOverbills` and `SerialRecoversMissedRounds`.  `NeverOverbills` is
  not inductive: what has been billed is bounded only together with what may
  still be billed.  `SerialInv` adds the debt of a row, the increase from its
  last value to the value the report in flight has read and from there to the
  counter; `InOrder` says that while a counter only grows, row, report and
  counter are in order.  `SerialUserNeverOverbilled` follows in the same way
  from the debt of a user's row (`UserCovered`), measured against the sum of the
  user's counters.  `SerialTablesAgree` needs no agent without boot times, only
  one report slot: `Agrees` relates bytes and last counters of the two tables,
  and holds as long as every email that has a row has an intact counter
  (`Steady`), which is weaker than the property's condition and is kept when an
  email gets its first row.
- `AccessControlProofs`: `AccessTypeCorrect` without assumptions; under `Serial`
  (no overlap) the invariant `AccessInv` and from it
  `RowsFindEveryClient`, `ExpiryRemovesEveryClient` (nothing but `unconfirmed` and
  what is stranded), `CutOffRecordCorrect`, `LiftCorrect`, for any number of
  inbounds and routed nodes, with agents lost and the controller ending between any
  two steps.  `AccessInv` is needed because a walk's outcome says something about
  the agents only through what it has left to visit (`Removed`, `Unbound`,
  `Restored`), because the rows must cover the clients that are not stranded
  (`RowsCover`) for a walk over rows to remove them all, and because each step of a
  visit relies on what the steps before it have done (`Underway`): a row is marked
  inactive only when its client is gone, and saved only when it is there.
- `ReplayWindowProofs`: what noting a number does to a window, for every width:
  it stays well formed, a number it lets pass is new (`FreshIsNew`), and it holds
  the noted number and nothing it did not hold before (`NotedHolds`).  The three
  modules built on the window share these lemmas.
- `SecureChannelProofs`: the window shows exactly the received numbers
  (`WindowExact`) for every width, refusals are justified, and the channel
  implements `AtMostOnce` (`ChannelImplementsAtMostOnce`: Init to Init, `Decrypt`
  to `HandOver`, the other steps to `Send` or a stutter).
- `RemoteCommandProofs`: types, together with the fact that every session named
  by a message or a side has been negotiated (`SessionsKnown`; without it the
  window an answer is checked against need not exist), and `CommandOnce`.
  `TwiceOnlyIfUnread` is not inductive: `Once` adds that what may still have the
  command carried out (the call on the WebSocket, the exchange under way, a
  request given up) is one thing at a time and excludes an execution that has
  been, as long as no answer was given up.  No assumption on the window's width
  or on the order of calls.  `BodiesOpen` is about all calls that share a session:
  `OpenInv` says that the answers under way to one session have different numbers
  (`Numbered`, `Apart`) and that a window holds only numbers that were given out
  and whose answers have been read, or that are spoiled (`Shown`); that the agent
  answers a body with the session it came with is `SameSession`, because a sealed
  body only opens under its own.  `BodiesSpoilNothing` adds that numbers are
  spoiled by bodyless commands alone.  `CallsShrink` bounds the controller's steps
  by `Effort`, at most `3 * Candidates + 2`, which none of the agent's, the
  network's or another call's steps raises; it needs that only a sealed request
  is refused (`RefusedSealed`), or a call could negotiate for ever.
- `HttpPushProofs`: types (proved, and so not in the run too), together with the fact that the sessions named by
  messages and workers exist (`SessionsKnown`); `OkHandled` and
  `PushImplementsAtMostOnce` from `PushInv`, which says where each report is, with
  the goroutine that pushes it or in one request that was given up, and that
  what has been handled follows from that place (`HandledBy`): only an answer
  to a report that has not been handled, 412, is followed by a second request.
  `SealedOpens` from `OpenInv`: no two envelopes under way have the same number
  of the same session, and a window holds only numbers that were given out or
  are spoiled (`Shown`), so that a new number is ahead of the window, spoiled, or
  behind its end.  `LoneHeals` from `LoneInv`, which follows an undisturbed push
  through its stages: nothing else is under way (`Alone`), and at each stage the
  two sides' sessions differ in no way but the one the stage is there to mend
  (`LoneStage`); `AnswersNumbered` keeps the answer's number ahead of the agent's
  window.  `PushesShrink` bounds a push by three steps of its worker.
- `ServerPresenceProofs`: types; `FlaggedCorrect` and `ChosenCorrect` from
  `PresenceInv`, which adds that an outage looks no older than the silence plus
  the throttle window and, while the throttle is closed, than its last write
  (`OutageIsRecent`: a throttled report resets the silence but not the outage),
  and that an outage a round may flag without having chosen it is younger than
  its SELECT (`ChosenIsKnown`); `EntriesAreServed`, which is inductive with the
  types alone.
- `StreamingCallProofs`: types, and `OneExecutionSeen` and `SuccessShowsAllSent`
  from `StreamInv`.  Neither property is inductive: what has been written says
  nothing of what is on its way.  `StreamInv` reads the output, the channel and
  the WebSocket as one sequence (`View`), which routing and taking a frame leave
  alone, sending extends, the connection's end cuts and a full channel thins
  out; it is in order (`InOrder`) in all four cases, and up to the end frame it
  is all the agent sent (`Whole`) until a frame is dropped.
  `CallNeverReturns`: the call goes from the WebSocket to the addresses in turn
  and never back (`Phase`), and writes at most the command's frames (`Spaced`:
  each frame written is numbered no lower than its place).

Every invariant and action property of the passing runs has its theorem.  Only
model-checked is liveness, because the prover handles neither fairness nor
ENABLED.  Of `EveryCallEnds`, `PushesEnd`, `SocketPartEnds` and
`LeavingEndsTheCall` the safety halves are proved (`CallsShrink`, `PushesShrink`,
`CallNeverReturns`): what remains for TLC is that a fair step is enabled until
the measure has run out.  The liveness properties of `AccessControl` and
`ServerPresence` rest on TLC alone.

## What is not modelled

Cryptography is ideal: an envelope opens under its own session and no other.
The ledger leaves out billing weights and the per-user-per-node attribution;
access control leaves out the users' private routed nodes, package updates, the
deletion of users and the cleaner of their clients, the limiter push and
notifications; remote commands leave out forwarding to federated servers, plain
HTTP and the snapshot refresh.
HTTP push leaves out how the reporter counts errors to change the connection
mode (`runHTTPReporterLoop`), the addresses it tries, and the reports' contents.
Server presence leaves out the online notices, the upgrade window and token
conflicts; a connection refused for lack of encryption has by then displaced its
predecessor, which is not modelled either.  A streamed command's callers
(`upgradeVerify`, the uninstall before a deletion) are not modelled.
A transaction is atomic; the expiry's two database writes are one step, which a
crash between them would only repeat.

## Plan

1. `HttpPush` with the reporter's error count and its change of mode, and with
   `ServerPresence` as its reader.
2. `ServerPresence`: online notices and the upgrade window.
3. `AccessControl`: package update, private routed nodes; a
   specification of access (who may have a client) that it implements when
   tasks do not overlap.
4. `StreamingCall`: the callers that go on from its outcome.
5. `TrafficLedger`: a bound on what a wrongly timed restart can bill.

## Running

    tlc -config ledger.cfg MCTrafficLedger.tla
    tlapm TrafficLedgerProofs.tla

Each run's module is in `PROJECT.json`; `map` gives the source lines of every
definition, `mutants` a plausible bug that each property catches.
