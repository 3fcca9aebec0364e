--------------------------- MODULE ServerPresence ---------------------------
(***************************************************************************)
(* Whether a server is online: its row in remote_servers, the registry of  *)
(* WebSocket connections, the handlers of its connections and the          *)
(* collector's rounds.                                                     *)
(*                                                                         *)
(* A connection is handled by a goroutine of its own, from handleAuth to   *)
(* the cleanup after the read loop; the old connection's cleanup may run   *)
(* while the new connection authenticates.  The collector marks silent     *)
(* servers offline, reports those that stay offline, and pulls from those  *)
(* that cannot push.                                                       *)
(*                                                                         *)
(* A time stamp is kept as its age in ticks, up to the largest age that    *)
(* any comparison tells apart.                                             *)
(***************************************************************************)
EXTENDS Integers

CONSTANTS
  Conns,             \* handlers of the server's connections
  NoConn,
  Modes,             \* how the agent may be configured: "push", "pull"
  Throttle,          \* heartbeatThrottleWindow
  Threshold,         \* offlineThreshold
  Tolerance,         \* notify_server_tolerance_seconds
  FallbackAfter,     \* silence after which a collector round counts a failure
  FailLimit,         \* failures after which the server falls back to pull
  StaleAfter,        \* silence after which the cleanup loop drops a connection
  Delay,             \* bound: ticks between TakeOffline...'s two statements
  MaxRestarts        \* bound: restarts of the controller

ASSUME PresenceAssumption ==
  /\ NoConn \notin Conns /\ Modes \subseteq {"push", "pull"}
  /\ Throttle \in Nat \ {0} /\ Tolerance \in Nat \ {0}
  /\ Threshold \in Nat \ {0} /\ FallbackAfter \in Nat
  /\ FailLimit \in Nat \ {0} /\ StaleAfter \in Nat /\ Delay \in Nat
  /\ MaxRestarts \in Nat

VARIABLES
  mode, up,                \* the agent: configured mode, running
  link,                    \* the connection the agent holds
  row,                     \* the server's row
  fails, fallback,         \* push_fail_count, fallback_to_pull
  cache,                   \* age of heartbeatCache's last write; Throttle: none
  registry,                \* conns[token]
  stage, found, ping,      \* handlers: where they are, existing, age of LastPing
  sweep,                   \* the connection CleanupStaleConnections is dropping
  col, elapsed,            \* the collector's round; ticks since its SELECT
  restarts                 \* bound

(***************************************************************************)
(* History variables; no action reads them.                                *)
(*   silent  ticks since the controller last handled a report              *)
(*   notice  what has become of this outage's offline notice: no round has *)
(*           chosen it, a SELECT has, the notifier has it, or the          *)
(*           controller ended with it in hand                              *)
(***************************************************************************)
VARIABLES silent, notice

agent   == <<mode, up>>
pulls   == <<fails, fallback>>
handler == <<stage, found, ping>>
rounds  == <<col, elapsed>>
history == <<silent, notice>>
vars    == <<agent, link, row, pulls, cache, registry, handler, sweep, rounds, restarts, history>>

-----------------------------------------------------------------------------
Horizon == Tolerance + Delay      \* offline_since is told apart up to this age
Oldest == IF Threshold <= FallbackAfter THEN FallbackAfter ELSE Threshold   \* last_heartbeat

\* Mutant: an age that passes its limit.
OlderPast(age, limit) == IF age <= limit THEN age + 1 ELSE limit

Older(age, limit) == IF age < limit THEN age + 1 ELSE limit

Row == [status : {"pending", "connected", "offline"},
        age : 0 .. Oldest,             \* of last_heartbeat; NULL counts as old
        since : 0 .. Horizon,          \* age of offline_since; 0 unless offline
        notified : BOOLEAN]            \* offline_notified

Stages == {"closed", "auth", "evict", "store", "update", "live",
           "check", "delete", "mark"}

Notices == {"none", "chosen", "given", "lost"}

Connected == [status |-> "connected", age |-> 0, since |-> 0, notified |-> FALSE]
MarkedOffline == [row EXCEPT !.status = "offline", !.since = 0, !.notified = FALSE]

ShouldUsePullMode == mode = "pull" \/ fallback

TypeOK ==
  /\ mode \in Modes /\ up \in BOOLEAN
  /\ link \in Conns \cup {NoConn}
  /\ row \in Row
  /\ fails \in 0 .. FailLimit /\ fallback \in BOOLEAN
  /\ cache \in 0 .. Throttle
  /\ registry \in Conns \cup {NoConn}
  /\ stage \in [Conns -> Stages]
  /\ found \in [Conns -> Conns \cup {NoConn}]
  /\ ping \in [Conns -> 0 .. StaleAfter]
  /\ sweep \in Conns \cup {NoConn}
  /\ col \in {"idle", "take", "chosen", "notify", "list", "pulling"}
  /\ elapsed \in 0 .. Delay
  /\ restarts \in 0 .. MaxRestarts
  /\ silent \in 0 .. Horizon /\ notice \in Notices

Init ==
  /\ mode \in Modes /\ up = FALSE /\ link = NoConn
  /\ row = [status |-> "pending", age |-> Oldest, since |-> 0, notified |-> FALSE]
  /\ fails = 0 /\ fallback = FALSE /\ cache = Throttle
  /\ registry = NoConn /\ sweep = NoConn
  /\ stage = [c \in Conns |-> "closed"]
  /\ found = [c \in Conns |-> NoConn]
  /\ ping = [c \in Conns |-> 0]
  /\ col = "idle" /\ elapsed = 0 /\ restarts = 0
  /\ silent = Horizon /\ notice = "none"

-----------------------------------------------------------------------------
(* What reports do to the row. *)

\* UpdateRemoteServerHeartbeat, ...HeartbeatWithRestart and ...Speed write
\* the same fields.
Heartbeat == row' = Connected /\ silent' = 0 /\ notice' = "none"

\* Mutant: the activity of an offline server is not written.
LastActivityOfOnline ==
  \/ /\ cache < Throttle \/ row.status = "offline"
     /\ silent' = 0 /\ UNCHANGED <<row, cache, notice>>
  \/ /\ cache = Throttle /\ row.status # "offline"
     /\ Heartbeat /\ cache' = 0

\* UpdateRemoteServerLastActivity: within the throttle window, nothing.
LastActivity ==
  \/ /\ cache < Throttle
     /\ silent' = 0 /\ UNCHANGED <<row, cache, notice>>
  \/ /\ cache = Throttle
     /\ Heartbeat /\ cache' = 0

\* ResetRemoteServerPushFailCount.
ResetPushFailCount == fails' = 0 /\ fallback' = FALSE

\* A report over the agent's WebSocket.
TrafficFrame(c) ==
  /\ up /\ link = c /\ stage[c] = "live"
  /\ LastActivity
  /\ UNCHANGED <<agent, link, pulls, registry, handler, sweep, rounds, restarts>>

SpeedFrame(c) ==
  /\ up /\ link = c /\ stage[c] = "live"
  /\ Heartbeat
  /\ UNCHANGED <<agent, link, pulls, cache, registry, handler, sweep, rounds, restarts>>

HeartbeatFrame(c) ==
  /\ up /\ link = c /\ stage[c] = "live"
  /\ Heartbeat /\ ping' = [ping EXCEPT ![c] = 0]
  /\ UNCHANGED <<agent, link, pulls, cache, registry, stage, found, sweep, rounds, restarts>>

\* A report by HTTP push, while the agent has no WebSocket.
MayPush == up /\ mode = "push" /\ link = NoConn

TrafficPush ==
  /\ MayPush /\ LastActivity
  /\ UNCHANGED <<agent, link, pulls, registry, handler, sweep, rounds, restarts>>

SpeedPush ==
  /\ MayPush /\ Heartbeat
  /\ UNCHANGED <<agent, link, pulls, cache, registry, handler, sweep, rounds, restarts>>

HeartbeatPush ==
  /\ MayPush /\ Heartbeat /\ ResetPushFailCount
  /\ UNCHANGED <<agent, link, cache, registry, handler, sweep, rounds, restarts>>

-----------------------------------------------------------------------------
(* handleAuth. *)

\* The agent opens a connection.  A handler is taken again only when nobody
\* holds a reference to the connection it served.
Dial(c) ==
  /\ MayPush
  /\ stage[c] = "closed" /\ sweep # c /\ \A d \in Conns : found[d] # c
  /\ link' = c /\ stage' = [stage EXCEPT ![c] = "auth"]
  /\ UNCHANGED <<agent, row, pulls, cache, registry, found, ping, sweep, rounds, restarts, history>>

AuthLoads(c) ==
  /\ stage[c] = "auth"
  /\ found' = [found EXCEPT ![c] = registry]
  /\ stage' = [stage EXCEPT ![c] = IF registry = NoConn THEN "store" ELSE "evict"]
  /\ UNCHANGED <<agent, link, row, pulls, cache, registry, ping, sweep, rounds, restarts, history>>

\* LoadAndDelete takes whatever is registered by now, Close the connection
\* that was found.
AuthEvicts(c) ==
  /\ stage[c] = "evict"
  /\ registry' = NoConn
  /\ link' = IF registry # NoConn /\ link = found[c] THEN NoConn ELSE link
  /\ found' = [found EXCEPT ![c] = NoConn]
  /\ stage' = [stage EXCEPT ![c] = "store"]
  /\ UNCHANGED <<agent, row, pulls, cache, ping, sweep, rounds, restarts, history>>

AuthStores(c) ==
  /\ stage[c] = "store"
  /\ registry' = c /\ ping' = [ping EXCEPT ![c] = 0]
  /\ stage' = [stage EXCEPT ![c] = "update"]
  /\ UNCHANGED <<agent, link, row, pulls, cache, found, sweep, rounds, restarts, history>>

AuthUpdates(c) ==
  /\ stage[c] = "update"
  /\ Heartbeat /\ ResetPushFailCount
  /\ stage' = [stage EXCEPT ![c] = "live"]
  /\ UNCHANGED <<agent, link, cache, registry, found, ping, sweep, rounds, restarts>>

-----------------------------------------------------------------------------
(* The end of handleConnection, and CleanupStaleConnections. *)

\* The handler's read fails: the agent or the controller has closed the
\* connection, or the read deadline has passed.
ReadFails(c) ==
  /\ stage[c] = "live" /\ link # c
  /\ stage' = [stage EXCEPT ![c] = "check"]
  /\ UNCHANGED <<agent, link, row, pulls, cache, registry, found, ping, sweep, rounds, restarts, history>>

\* Mutant: the entry is not deleted.
CleanupForgets(c) ==
  /\ stage[c] = "check"
  /\ stage' = [stage EXCEPT ![c] = IF registry = c THEN "mark" ELSE "closed"]
  /\ UNCHANGED <<agent, link, row, pulls, cache, registry, found, ping, sweep, rounds, restarts, history>>

CleanupChecks(c) ==
  /\ stage[c] = "check"
  /\ stage' = [stage EXCEPT ![c] = IF registry = c THEN "delete" ELSE "closed"]
  /\ UNCHANGED <<agent, link, row, pulls, cache, registry, found, ping, sweep, rounds, restarts, history>>

\* Whatever is registered by now.
CleanupDeletes(c) ==
  /\ stage[c] = "delete"
  /\ registry' = NoConn
  /\ stage' = [stage EXCEPT ![c] = "mark"]
  /\ UNCHANGED <<agent, link, row, pulls, cache, found, ping, sweep, rounds, restarts, history>>

\* MarkRemoteServerOfflineByID.
CleanupMarks(c) ==
  /\ stage[c] = "mark"
  /\ row' = IF row.status = "connected" THEN MarkedOffline ELSE row
  /\ stage' = [stage EXCEPT ![c] = "closed"]
  /\ UNCHANGED <<agent, link, pulls, cache, registry, found, ping, sweep, rounds, restarts, history>>

\* The cleanup loop reads an entry and its LastPing, then closes the
\* connection and deletes the entry of its token.
SweepFinds(c) ==
  /\ sweep = NoConn /\ registry = c /\ ping[c] = StaleAfter
  /\ sweep' = c /\ link' = IF link = c THEN NoConn ELSE link
  /\ UNCHANGED <<agent, row, pulls, cache, registry, handler, rounds, restarts, history>>

SweepDeletes ==
  /\ sweep # NoConn
  /\ registry' = NoConn /\ sweep' = NoConn
  /\ UNCHANGED <<agent, link, row, pulls, cache, handler, rounds, restarts, history>>

-----------------------------------------------------------------------------
(* The collector: collectAll, and the speed collector beside it. *)

\* MarkOfflineRemoteServers.
MarkOffline ==
  /\ col = "idle"
  /\ row' = IF row.status = "connected" /\ row.age >= Threshold THEN MarkedOffline ELSE row
  /\ col' = "take"
  /\ UNCHANGED <<agent, link, pulls, cache, registry, handler, sweep, elapsed, restarts, history>>

Unreported(cutoff) == row.status = "offline" /\ ~row.notified /\ row.since >= cutoff

\* Mutants: the cutoff is left out; only outages exactly as old as the cutoff.
TakeSelectsAny ==
  /\ col = "take"
  /\ col' = IF Unreported(0) THEN "chosen" ELSE "list"
  /\ notice' = (IF Unreported(0) THEN "chosen" ELSE notice) /\ elapsed' = 0
  /\ UNCHANGED <<agent, link, row, pulls, cache, registry, handler, sweep, restarts, silent>>

TakeSelectsOnTheDot ==
  /\ col = "take"
  /\ LET due == Unreported(Tolerance) /\ row.since = Tolerance
     IN  /\ col' = IF due THEN "chosen" ELSE "list"
         /\ notice' = IF due THEN "chosen" ELSE notice
  /\ elapsed' = 0
  /\ UNCHANGED <<agent, link, row, pulls, cache, registry, handler, sweep, restarts, silent>>

\* The SELECT of TakeOfflineServersToNotify.
TakeSelects ==
  /\ col = "take"
  /\ col' = IF Unreported(Tolerance) THEN "chosen" ELSE "list"
  /\ notice' = (IF Unreported(Tolerance) THEN "chosen" ELSE notice) /\ elapsed' = 0
  /\ UNCHANGED <<agent, link, row, pulls, cache, registry, handler, sweep, restarts, silent>>

\* Mutant: the UPDATE goes by the status alone.
TakeFlagsOffline ==
  /\ col = "chosen"
  /\ row' = [row EXCEPT !.notified = @ \/ row.status = "offline"]
  /\ col' = "notify" /\ elapsed' = 0
  /\ UNCHANGED <<agent, link, pulls, cache, registry, handler, sweep, restarts, history>>

\* Its UPDATE, with the cutoff of the SELECT, commits the flag.
TakeFlags ==
  /\ col = "chosen"
  /\ row' = [row EXCEPT !.notified = @ \/ Unreported(Tolerance + elapsed)]
  /\ col' = "notify" /\ elapsed' = 0
  /\ UNCHANGED <<agent, link, pulls, cache, registry, handler, sweep, restarts, history>>

\* Only then collectAll hands what the SELECT has listed to OnServerOffline,
\* whoever has come back since.
Notifies ==
  /\ col = "notify" /\ col' = "list"
  /\ notice' = IF notice = "chosen" THEN "given" ELSE notice
  /\ UNCHANGED <<agent, link, row, pulls, cache, registry, handler, sweep, elapsed, restarts, silent>>

\* checkAndTriggerFallback with IncrementRemoteServerPushFailCount.
CheckFallback ==
  IF row.age >= FallbackAfter
    THEN /\ fails' = Older(fails, FailLimit)
         /\ fallback' = (fails' = FailLimit)
    ELSE UNCHANGED pulls

\* The round reads the server again and decides whether to pull.
Lists ==
  /\ col = "list"
  /\ IF registry = NoConn /\ ShouldUsePullMode /\ row.status # "offline"
       THEN col' = "pulling" ELSE col' = "idle"
  /\ IF registry = NoConn /\ ~ShouldUsePullMode THEN CheckFallback ELSE UNCHANGED pulls
  /\ UNCHANGED <<agent, link, row, cache, registry, handler, sweep, elapsed, restarts, history>>

\* CollectFromRemoteServer: the agent answers, or the request fails.
Pulls ==
  /\ col = "pulling" /\ col' = "idle"
  /\ up /\ LastActivity
  /\ UNCHANGED <<agent, link, pulls, registry, handler, sweep, elapsed, restarts>>

PullFails ==
  /\ col = "pulling" /\ col' = "idle"
  /\ UNCHANGED <<agent, link, row, pulls, cache, registry, handler, sweep, elapsed, restarts, history>>

\* PullSpeedFromRemoteServer, of a round of its own.
SpeedPulls ==
  /\ registry = NoConn /\ ShouldUsePullMode /\ row.status # "offline"
  /\ up /\ Heartbeat
  /\ UNCHANGED <<agent, link, pulls, cache, registry, handler, sweep, rounds, restarts>>

-----------------------------------------------------------------------------
(* Time, the agent, its connection and the controller's process. *)

Tick ==
  /\ col = "chosen" => elapsed < Delay
  /\ elapsed' = IF col = "chosen" THEN elapsed + 1 ELSE elapsed
  /\ row' = [row EXCEPT !.age = Older(@, Oldest),
                        !.since = IF row.status = "offline" THEN Older(@, Horizon) ELSE @]
  /\ cache' = Older(cache, Throttle)
  /\ ping' = [c \in Conns |-> IF registry = c THEN Older(ping[c], StaleAfter) ELSE ping[c]]
  /\ silent' = Older(silent, Horizon)
  /\ UNCHANGED <<agent, link, pulls, registry, stage, found, sweep, col, restarts, notice>>

\* An agent in pull mode sends one heartbeat when it starts, which may be lost.
AgentStarts ==
  /\ ~up /\ up' = TRUE
  /\ \/ mode = "pull" /\ Heartbeat /\ ResetPushFailCount
     \/ UNCHANGED <<row, pulls, history>>
  /\ UNCHANGED <<mode, link, cache, registry, handler, sweep, rounds, restarts>>

AgentStops ==
  /\ up /\ up' = FALSE /\ link' = NoConn
  /\ UNCHANGED <<mode, row, pulls, cache, registry, handler, sweep, rounds, restarts, history>>

LinkBreaks ==
  /\ link # NoConn /\ link' = NoConn
  /\ UNCHANGED <<agent, row, pulls, cache, registry, handler, sweep, rounds, restarts, history>>

\* The controller restarts: the row survives, a notice in hand does not.
Restart ==
  /\ restarts < MaxRestarts /\ restarts' = restarts + 1
  /\ link' = NoConn /\ registry' = NoConn /\ sweep' = NoConn /\ cache' = Throttle
  /\ stage' = [c \in Conns |-> "closed"] /\ found' = [c \in Conns |-> NoConn]
  /\ col' = "idle" /\ elapsed' = 0
  /\ notice' = IF col = "notify" /\ notice = "chosen" THEN "lost" ELSE notice
  /\ UNCHANGED <<agent, row, pulls, ping, silent>>

-----------------------------------------------------------------------------
Frame(c) == TrafficFrame(c) \/ SpeedFrame(c) \/ HeartbeatFrame(c)
Push == TrafficPush \/ SpeedPush \/ HeartbeatPush

Handle(c) ==
  \/ AuthLoads(c) \/ AuthEvicts(c) \/ AuthStores(c) \/ AuthUpdates(c)
  \/ ReadFails(c) \/ CleanupChecks(c) \/ CleanupDeletes(c) \/ CleanupMarks(c)

Round ==
  \/ MarkOffline \/ TakeSelects \/ TakeFlags \/ Notifies
  \/ Lists \/ Pulls \/ PullFails

Next ==
  \/ \E c \in Conns : Dial(c) \/ Frame(c) \/ Handle(c) \/ SweepFinds(c)
  \/ Push \/ SweepDeletes \/ Round \/ SpeedPulls
  \/ Tick \/ AgentStarts \/ AgentStops \/ LinkBreaks \/ Restart

Spec == Init /\ [][Next]_vars

\* Time passes, the collector's ticker fires and goroutines that have begun go
\* on; in FairSpec an agent that can report also does.
Progress ==
  /\ WF_vars(Tick) /\ WF_vars(Round) /\ WF_vars(SweepDeletes)
  /\ \A c \in Conns : WF_vars(Handle(c))

Reports == Push \/ \E c \in Conns : Dial(c) \/ Frame(c)

FairSpec == Spec /\ Progress /\ WF_vars(Reports)

-----------------------------------------------------------------------------
(* Properties. *)

\* A server is chosen for an offline notice only after it has been silent for
\* all of the tolerance but the throttle window: reports that the throttle
\* swallows while the row says offline cannot hide more than that.
ChosenOnlyAfterSilence ==
  [][notice' = "chosen" /\ notice # "chosen" => silent + Throttle > Tolerance]_vars

\* The UPDATE of TakeOfflineServersToNotify flags only outages its SELECT has
\* chosen, although the row may have changed in between: no outage is flagged
\* that was not listed for the notifier.
FlaggedWasChosen == row.notified => notice # "none"

\* The registry holds no connection whose handler has gone: whatever the
\* order of authentications, cleanups and sweeps, an entry is somebody's who
\* will remove it.
Serving == {"update", "live", "check", "delete"}
EntryHasHandler == registry # NoConn => stage[registry] \in Serving

\* A server whose agent has stopped for good ends offline and flagged, whatever
\* its connections and requests were doing, and its notice was handed to the
\* notifier unless the controller ended between the flag and the notice.
DeadServerIsTold ==
  <>[]~up =>
    <>[](\/ row.status = "pending"
         \/ row.status = "offline" /\ row.notified /\ notice \in {"given", "lost"})

\* A pushing agent that runs and reaches the controller shows as connected
\* again and again: neither the throttle nor an old connection's cleanup can
\* keep it offline.
ReportingServerShows ==
  mode = "push" /\ <>[]up => []<>(row.status = "connected")
=============================================================================
