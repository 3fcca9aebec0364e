------------------------ MODULE ServerPresenceProofs ------------------------
(* Theorems of ServerPresence, for every value of the constants. *)
EXTENDS ServerPresence, TLAPS

USE DEF Stages, Notices

\* Ages grow by at most one and stay within their limit.
LEMMA OlderBounds ==
  ASSUME NEW limit \in Nat, NEW age \in 0 .. limit
  PROVE  /\ Older(age, limit) \in 0 .. limit
         /\ Older(age, limit) <= age + 1 /\ age <= Older(age, limit)
         /\ age < limit => Older(age, limit) = age + 1
  BY DEF Older

LEMMA HorizonType == Horizon \in Nat /\ Tolerance <= Horizon
  BY PresenceAssumption DEF Horizon

LEMMA OldestType == Oldest \in Nat /\ Threshold <= Oldest /\ FallbackAfter <= Oldest
  BY PresenceAssumption DEF Oldest

LEMMA RowTypes ==
  ASSUME TypeOK
  PROVE  Connected \in Row /\ MarkedOffline \in Row
<1>1. 0 \in 0 .. Oldest /\ 0 \in 0 .. Horizon
  BY OldestType, HorizonType
<1>2. Connected \in Row
  BY <1>1 DEF Row, Connected
<1>3. MarkedOffline \in Row
  BY <1>1 DEF TypeOK, Row, MarkedOffline
<1> QED BY <1>2, <1>3

\* Reports leave the row, the cache and the history well typed.
LEMMA ReportTypes ==
  ASSUME TypeOK
  PROVE  /\ Heartbeat => row' \in Row /\ silent' \in 0 .. Horizon /\ notice' \in Notices
         /\ LastActivity => /\ row' \in Row /\ silent' \in 0 .. Horizon /\ notice' \in Notices
                            /\ cache' \in 0 .. Throttle
         /\ ResetPushFailCount => fails' \in 0 .. FailLimit /\ fallback' \in BOOLEAN
<1>1. /\ 0 \in 0 .. Horizon /\ 0 \in 0 .. Throttle /\ 0 \in 0 .. FailLimit
      /\ row \in Row /\ notice \in Notices
  BY HorizonType, PresenceAssumption DEF TypeOK
<1>2. Heartbeat => row' \in Row /\ silent' \in 0 .. Horizon /\ notice' \in Notices
  BY <1>1, RowTypes DEF Heartbeat
<1>3. LastActivity => /\ row' \in Row /\ silent' \in 0 .. Horizon /\ notice' \in Notices
                      /\ cache' \in 0 .. Throttle
  BY <1>1, <1>2 DEF LastActivity, TypeOK
<1>4. ResetPushFailCount => fails' \in 0 .. FailLimit /\ fallback' \in BOOLEAN
  BY <1>1 DEF ResetPushFailCount
<1> QED BY <1>2, <1>3, <1>4

LEMMA TypeInitially == Init => TypeOK
<1> SUFFICES ASSUME Init PROVE TypeOK
  OBVIOUS
<1>1. /\ 0 \in 0 .. Oldest /\ Oldest \in 0 .. Oldest
      /\ 0 \in 0 .. Horizon /\ Horizon \in 0 .. Horizon
      /\ Throttle \in 0 .. Throttle /\ 0 \in 0 .. FailLimit /\ 0 \in 0 .. StaleAfter
      /\ 0 \in 0 .. Delay /\ 0 \in 0 .. MaxRestarts
  BY PresenceAssumption, OldestType, HorizonType
<1>2. row \in Row
  BY <1>1 DEF Init, Row
<1> QED BY <1>1, <1>2 DEF Init, TypeOK

LEMMA TypeOfReports ==
  ASSUME TypeOK, Push \/ SpeedPulls \/ \E c \in Conns : Frame(c)
  PROVE  TypeOK'
<1>1. CASE Push
  BY <1>1, ReportTypes DEF Push, TrafficPush, SpeedPush, HeartbeatPush,
     TypeOK, agent, pulls, handler, rounds
<1>2. CASE SpeedPulls
  BY <1>2, ReportTypes DEF SpeedPulls, TypeOK, agent, pulls, handler, rounds
<1>3. ASSUME NEW c \in Conns, Frame(c)
      PROVE  TypeOK'
  <2>1. CASE TrafficFrame(c)
    BY <2>1, ReportTypes DEF TrafficFrame, TypeOK, agent, pulls, handler, rounds
  <2>2. CASE SpeedFrame(c)
    BY <2>2, ReportTypes DEF SpeedFrame, TypeOK, agent, pulls, handler, rounds
  <2>3. CASE HeartbeatFrame(c)
    BY <2>3, ReportTypes, PresenceAssumption
    DEF HeartbeatFrame, TypeOK, agent, pulls, handler, rounds
  <2> QED BY <1>3, <2>1, <2>2, <2>3 DEF Frame
<1> QED BY <1>1, <1>2, <1>3

LEMMA TypeOfHandlers ==
  ASSUME TypeOK, NEW c \in Conns, Dial(c) \/ Handle(c) \/ SweepFinds(c)
  PROVE  TypeOK'
<1>1. CASE Dial(c)
  BY <1>1 DEF Dial, TypeOK, agent, pulls, rounds, history
<1>2. CASE AuthLoads(c)
  BY <1>2 DEF AuthLoads, TypeOK, agent, pulls, rounds, history
<1>3. CASE AuthEvicts(c)
  BY <1>3 DEF AuthEvicts, TypeOK, agent, pulls, rounds, history
<1>4. CASE AuthStores(c)
  BY <1>4, PresenceAssumption DEF AuthStores, TypeOK, agent, pulls, rounds, history
<1>5. CASE AuthUpdates(c)
  BY <1>5, ReportTypes DEF AuthUpdates, TypeOK, agent, rounds
<1>6. CASE ReadFails(c)
  BY <1>6 DEF ReadFails, TypeOK, agent, pulls, rounds, history
<1>7. CASE CleanupChecks(c)
  BY <1>7 DEF CleanupChecks, TypeOK, agent, pulls, rounds, history
<1>8. CASE CleanupDeletes(c)
  BY <1>8 DEF CleanupDeletes, TypeOK, agent, pulls, rounds, history
<1>9. CASE CleanupMarks(c)
  BY <1>9, RowTypes DEF CleanupMarks, TypeOK, agent, pulls, rounds, history
<1>10. CASE SweepFinds(c)
  BY <1>10 DEF SweepFinds, TypeOK, agent, pulls, handler, rounds, history
<1> QED
  BY <1>1, <1>2, <1>3, <1>4, <1>5, <1>6, <1>7, <1>8, <1>9, <1>10 DEF Handle

LEMMA TypeOfRounds ==
  ASSUME TypeOK, Round
  PROVE  TypeOK'
<1>1. CASE MarkOffline
  BY <1>1, RowTypes DEF MarkOffline, TypeOK, agent, pulls, handler, history
<1>2. CASE TakeSelects
  BY <1>2, PresenceAssumption DEF TakeSelects, TypeOK, Unreported, agent, pulls, handler
<1>3. CASE TakeFlags
  <2>1. row' \in Row
    BY <1>3 DEF TakeFlags, TypeOK, Row, Unreported
  <2> QED BY <1>3, <2>1, PresenceAssumption DEF TakeFlags, TypeOK, agent, pulls, handler, history
<1>7. CASE Notifies
  BY <1>7 DEF Notifies, TypeOK, agent, pulls, handler
<1>4. CASE Lists
  <2>1. fails' \in 0 .. FailLimit /\ fallback' \in BOOLEAN
    <3>1. Older(fails, FailLimit) \in 0 .. FailLimit
      BY PresenceAssumption, OlderBounds DEF TypeOK
    <3>2. fails' \in {fails, Older(fails, FailLimit)} /\ fallback' \in BOOLEAN
      BY <1>4 DEF Lists, CheckFallback, TypeOK, pulls
    <3> QED BY <3>1, <3>2 DEF TypeOK
  <2> QED BY <1>4, <2>1 DEF Lists, TypeOK, agent, handler, history
<1>5. CASE Pulls
  BY <1>5, ReportTypes DEF Pulls, TypeOK, agent, pulls, handler
<1>6. CASE PullFails
  BY <1>6 DEF PullFails, TypeOK, agent, pulls, handler, history
<1> QED BY <1>1, <1>2, <1>3, <1>4, <1>5, <1>6, <1>7 DEF Round

LEMMA TypeOfTick == ASSUME TypeOK, Tick PROVE TypeOK'
<1>1. row' \in Row
  <2>1. /\ Older(row.age, Oldest) \in 0 .. Oldest
        /\ Older(row.since, Horizon) \in 0 .. Horizon
    BY OlderBounds, HorizonType, OldestType DEF TypeOK, Row
  <2> QED BY <2>1 DEF Tick, TypeOK, Row
<1>2. cache' \in 0 .. Throttle /\ silent' \in 0 .. Horizon
  BY OlderBounds, HorizonType, PresenceAssumption DEF Tick, TypeOK
<1>3. ping' \in [Conns -> 0 .. StaleAfter]
  <2>1. ASSUME NEW c \in Conns
        PROVE  Older(ping[c], StaleAfter) \in 0 .. StaleAfter
    BY OlderBounds, PresenceAssumption DEF TypeOK
  <2> QED BY <2>1 DEF Tick, TypeOK
<1>4. elapsed' \in 0 .. Delay
  BY PresenceAssumption DEF Tick, TypeOK
<1> QED BY <1>1, <1>2, <1>3, <1>4 DEF Tick, TypeOK, agent, pulls

LEMMA TypeOfEnvironment ==
  ASSUME TypeOK, SweepDeletes \/ AgentStarts \/ AgentStops \/ LinkBreaks \/ Restart
  PROVE  TypeOK'
<1>1. CASE SweepDeletes
  BY <1>1 DEF SweepDeletes, TypeOK, agent, pulls, handler, rounds, history
<1>2. CASE AgentStarts
  BY <1>2, ReportTypes DEF AgentStarts, TypeOK, pulls, handler, rounds, history
<1>3. CASE AgentStops
  BY <1>3 DEF AgentStops, TypeOK, pulls, handler, rounds, history
<1>4. CASE LinkBreaks
  BY <1>4 DEF LinkBreaks, TypeOK, agent, pulls, handler, rounds, history
<1>5. CASE Restart
  BY <1>5, PresenceAssumption DEF Restart, TypeOK, agent, pulls, handler, rounds, history
<1> QED BY <1>1, <1>2, <1>3, <1>4, <1>5

LEMMA TypePreserved == TypeOK /\ [Next]_vars => TypeOK'
<1> SUFFICES ASSUME TypeOK, [Next]_vars PROVE TypeOK'
  OBVIOUS
<1>1. CASE UNCHANGED vars
  BY <1>1 DEF vars, TypeOK, agent, pulls, handler, rounds, history
<1>2. CASE Next
  BY <1>2, TypeOfReports, TypeOfHandlers, TypeOfRounds, TypeOfTick, TypeOfEnvironment DEF Next
<1> QED BY <1>1, <1>2

\* Every variable keeps its type, whatever connections, rounds and restarts do.
THEOREM PresenceTypeCorrect == Spec => []TypeOK
<1>1. Init => TypeOK
  BY TypeInitially
<1>2. TypeOK /\ [Next]_vars => TypeOK'
  BY TypePreserved
<1> QED BY <1>1, <1>2, PTL DEF Spec

-----------------------------------------------------------------------------
(***************************************************************************)
(* How old an outage may look.  A throttled report leaves offline_since    *)
(* alone, but only while the last write is in the window; so the outage is *)
(* never older than that write, nor than the silence plus the window.      *)
(***************************************************************************)
OutageIsRecent ==
  row.status = "offline" =>
    /\ row.since < silent + Throttle
    /\ cache < Throttle => row.since <= cache

\* What a round that has chosen an outage finds when it writes: a flag on an
\* outage it has chosen, or an outage younger than its SELECT.
ChosenIsKnown ==
  /\ row.notified => row.status = "offline" /\ notice # "none"
  /\ col = "chosen" /\ row.status = "offline" /\ notice = "none" => row.since <= elapsed

PresenceInv == TypeOK /\ OutageIsRecent /\ ChosenIsKnown

LEMMA RowIsRecord ==
  ASSUME TypeOK
  PROVE  /\ row.since \in 0 .. Horizon /\ row.notified \in BOOLEAN
         /\ silent \in 0 .. Horizon /\ cache \in 0 .. Throttle /\ elapsed \in 0 .. Delay
         /\ Horizon \in Nat /\ Throttle \in Nat \ {0} /\ notice \in Notices
  BY HorizonType, PresenceAssumption DEF TypeOK, Row

\* A row that was just written as connected says nothing of an outage.
LEMMA ConnectedIsFine ==
  ASSUME row' = Connected
  PROVE  OutageIsRecent' /\ ChosenIsKnown'
  BY DEF Connected, OutageIsRecent, ChosenIsKnown

\* An outage that begins now has age 0.
LEMMA NewOutageIsFine ==
  ASSUME PresenceInv, row' = MarkedOffline, UNCHANGED <<cache, silent, elapsed>>
  PROVE  OutageIsRecent' /\ ChosenIsKnown'
<1>1. row'.status = "offline" /\ row'.since = 0 /\ row'.notified = FALSE
  BY DEF MarkedOffline, PresenceInv, TypeOK, Row
<1> QED BY <1>1, RowIsRecord DEF OutageIsRecent, ChosenIsKnown, PresenceInv

LEMMA LastActivityIsFine ==
  ASSUME PresenceInv, LastActivity, UNCHANGED elapsed, col' = col \/ col' # "chosen"
  PROVE  OutageIsRecent' /\ ChosenIsKnown'
<1>1. CASE cache = Throttle /\ Heartbeat /\ cache' = 0
  BY <1>1, ConnectedIsFine DEF Heartbeat
<1>2. CASE cache < Throttle /\ silent' = 0 /\ UNCHANGED <<row, cache, notice>>
  BY <1>2, RowIsRecord DEF PresenceInv, OutageIsRecent, ChosenIsKnown
<1> QED BY <1>1, <1>2 DEF LastActivity

LEMMA ReportsAreFine ==
  ASSUME PresenceInv, Push \/ SpeedPulls \/ \E c \in Conns : Frame(c)
  PROVE  OutageIsRecent' /\ ChosenIsKnown'
<1>1. Heartbeat \/ (LastActivity /\ UNCHANGED rounds)
  BY DEF Push, TrafficPush, SpeedPush, HeartbeatPush, SpeedPulls, Frame,
     TrafficFrame, SpeedFrame, HeartbeatFrame
<1> QED BY <1>1, ConnectedIsFine, LastActivityIsFine DEF Heartbeat, rounds

LEMMA RoundsAreFine ==
  ASSUME PresenceInv, Round
  PROVE  OutageIsRecent' /\ ChosenIsKnown'
<1>1. CASE MarkOffline
  <2>1. CASE row' = MarkedOffline
    BY <1>1, <2>1, NewOutageIsFine DEF MarkOffline, history
  <2>2. CASE UNCHANGED row
    BY <1>1, <2>2 DEF MarkOffline, history, PresenceInv, OutageIsRecent, ChosenIsKnown
  <2> QED BY <1>1, <2>1, <2>2 DEF MarkOffline
<1>2. CASE TakeSelects
  BY <1>2, RowIsRecord
  DEF TakeSelects, PresenceInv, OutageIsRecent, ChosenIsKnown
<1>3. CASE TakeFlags
  <2>1. row'.status = row.status /\ row'.since = row.since
        /\ row'.notified = (row.notified \/ Unreported(Tolerance + elapsed))
    BY <1>3 DEF TakeFlags, PresenceInv, TypeOK, Row
  <2>2. Unreported(Tolerance + elapsed) => row.status = "offline" /\ notice # "none"
    BY <1>3, RowIsRecord, PresenceAssumption
    DEF TakeFlags, Unreported, PresenceInv, ChosenIsKnown
  <2> QED BY <1>3, <2>1, <2>2
    DEF TakeFlags, history, PresenceInv, OutageIsRecent, ChosenIsKnown
<1>4. CASE Lists
  BY <1>4 DEF Lists, history, PresenceInv, OutageIsRecent, ChosenIsKnown
<1>5. CASE Pulls
  BY <1>5, LastActivityIsFine DEF Pulls
<1>6. CASE PullFails
  BY <1>6 DEF PullFails, history, PresenceInv, OutageIsRecent, ChosenIsKnown
<1>7. CASE Notifies
  BY <1>7 DEF Notifies, PresenceInv, OutageIsRecent, ChosenIsKnown
<1> QED BY <1>1, <1>2, <1>3, <1>4, <1>5, <1>6, <1>7 DEF Round

LEMMA TickIsFine ==
  ASSUME PresenceInv, Tick
  PROVE  OutageIsRecent' /\ ChosenIsKnown'
<1>1. /\ row'.status = row.status /\ row'.notified = row.notified
      /\ row.status = "offline" => row'.since = Older(row.since, Horizon)
  BY DEF Tick, PresenceInv, TypeOK, Row
<1>2. /\ Older(row.since, Horizon) \in 0 .. Horizon
      /\ Older(row.since, Horizon) <= row.since + 1
  BY OlderBounds, RowIsRecord DEF PresenceInv
<1>3. silent' \in 0 .. Horizon /\ (silent < Horizon => silent' = silent + 1)
      /\ (silent = Horizon => silent' = Horizon)
  BY RowIsRecord DEF Tick, PresenceInv, Older
<1>4. cache' \in 0 .. Throttle /\ (cache < Throttle => cache' = cache + 1)
      /\ (cache = Throttle => cache' = Throttle)
  BY RowIsRecord DEF Tick, PresenceInv, Older
<1>5. OutageIsRecent'
  BY <1>1, <1>2, <1>3, <1>4, RowIsRecord DEF PresenceInv, OutageIsRecent
<1>6. ChosenIsKnown'
  BY <1>1, <1>2, RowIsRecord DEF Tick, PresenceInv, ChosenIsKnown
<1> QED BY <1>5, <1>6

LEMMA PresenceInductive == PresenceInv /\ [Next]_vars => PresenceInv'
<1> SUFFICES ASSUME PresenceInv, [Next]_vars
             PROVE  OutageIsRecent' /\ ChosenIsKnown'
  BY TypePreserved DEF PresenceInv
<1> USE DEF PresenceInv
<1>1. CASE Push \/ SpeedPulls \/ \E c \in Conns : Frame(c)
  BY <1>1, ReportsAreFine
<1>2. CASE Round
  BY <1>2, RoundsAreFine
<1>3. CASE Tick
  BY <1>3, TickIsFine
<1>4. ASSUME NEW c \in Conns, Dial(c) \/ Handle(c) \/ SweepFinds(c)
      PROVE  OutageIsRecent' /\ ChosenIsKnown'
  <2>1. CASE AuthUpdates(c)
    BY <2>1, ConnectedIsFine DEF AuthUpdates, Heartbeat
  <2>2. CASE CleanupMarks(c)
    <3>1. CASE row' = MarkedOffline
      BY <2>2, <3>1, NewOutageIsFine DEF CleanupMarks, rounds, history
    <3>2. CASE UNCHANGED row
      BY <2>2, <3>2 DEF CleanupMarks, rounds, history, OutageIsRecent, ChosenIsKnown
    <3> QED BY <2>2, <3>1, <3>2 DEF CleanupMarks
  <2>3. CASE ~AuthUpdates(c) /\ ~CleanupMarks(c)
    <3>1. UNCHANGED <<row, cache, rounds, history>>
      BY <1>4, <2>3 DEF Handle, Dial, AuthLoads, AuthEvicts, AuthStores, ReadFails,
         CleanupChecks, CleanupDeletes, SweepFinds
    <3> QED BY <3>1 DEF rounds, history, OutageIsRecent, ChosenIsKnown
  <2> QED BY <2>1, <2>2, <2>3
<1>5. CASE SweepDeletes \/ AgentStops \/ LinkBreaks \/ UNCHANGED vars
  BY <1>5 DEF SweepDeletes, AgentStops, LinkBreaks, vars, rounds, history,
     OutageIsRecent, ChosenIsKnown
<1>6. CASE AgentStarts
  <2>1. CASE Heartbeat
    BY <2>1, ConnectedIsFine DEF Heartbeat
  <2>2. CASE UNCHANGED <<row, pulls, history>>
    BY <1>6, <2>2 DEF AgentStarts, rounds, history, OutageIsRecent, ChosenIsKnown
  <2> QED BY <1>6, <2>1, <2>2 DEF AgentStarts
<1>7. CASE Restart
  BY <1>7, RowIsRecord DEF Restart, history, OutageIsRecent, ChosenIsKnown
<1> QED BY <1>1, <1>2, <1>3, <1>4, <1>5, <1>6, <1>7 DEF Next

\* The inductive invariant of server presence.
THEOREM PresenceSafe == Spec => []PresenceInv
<1>1. Init => PresenceInv
  BY TypeInitially DEF Init, PresenceInv, OutageIsRecent, ChosenIsKnown
<1>2. PresenceInv /\ [Next]_vars => PresenceInv'
  BY PresenceInductive
<1> QED BY <1>1, <1>2, PTL DEF Spec

\* TakeOfflineServersToNotify: its UPDATE flags no outage its SELECT has not
\* chosen, however the row changes between the two.
THEOREM FlaggedCorrect == Spec => []FlaggedWasChosen
<1>1. PresenceInv => FlaggedWasChosen
  BY DEF PresenceInv, ChosenIsKnown, FlaggedWasChosen
<1> QED BY <1>1, PresenceSafe, PTL

\* The throttle of UpdateRemoteServerLastActivity hides at most its window
\* from the tolerance.
THEOREM ChosenCorrect == Spec => ChosenOnlyAfterSilence
<1>1. PresenceInv /\ [Next]_vars =>
        [notice' = "chosen" /\ notice # "chosen" => silent + Throttle > Tolerance]_vars
  <2> SUFFICES ASSUME PresenceInv, [Next]_vars, notice' = "chosen", notice # "chosen"
               PROVE  silent + Throttle > Tolerance
    OBVIOUS
  <2>1. TakeSelects
    BY DEF Next, vars, history, rounds, Push, TrafficPush, SpeedPush, HeartbeatPush, SpeedPulls,
       Frame, TrafficFrame, SpeedFrame, HeartbeatFrame, Heartbeat, LastActivity, Handle, Dial,
       AuthLoads, AuthEvicts, AuthStores, AuthUpdates, ReadFails, CleanupChecks, CleanupDeletes,
       CleanupMarks, SweepFinds, SweepDeletes, Round, MarkOffline, TakeFlags, Notifies, Lists, Pulls,
       PullFails, Tick, AgentStarts, AgentStops, LinkBreaks, Restart
  <2> QED BY <2>1, RowIsRecord, PresenceAssumption
    DEF TakeSelects, Unreported, PresenceInv, OutageIsRecent
<1> QED BY <1>1, PresenceSafe, PTL DEF Spec, ChosenOnlyAfterSilence

-----------------------------------------------------------------------------
(* The registry. *)

\* Every entry of the registry belongs to a handler that will remove it,
\* through authentications, cleanups, sweeps and restarts in any order.
THEOREM EntriesAreServed == Spec => []EntryHasHandler
<1>1. Init => EntryHasHandler
  BY DEF Init, EntryHasHandler
<1>2. TypeOK /\ EntryHasHandler /\ [Next]_vars => EntryHasHandler'
  <2> SUFFICES ASSUME TypeOK, EntryHasHandler, [Next]_vars, registry' # NoConn
               PROVE  stage'[registry'] \in Serving
    BY DEF EntryHasHandler
  <2>1. CASE UNCHANGED <<registry, stage>>
    BY <2>1 DEF EntryHasHandler
  <2>2. ASSUME NEW c \in Conns, Dial(c) \/ Handle(c)
        PROVE  stage'[registry'] \in Serving
    BY <2>2, PresenceAssumption
    DEF EntryHasHandler, Serving, TypeOK, Handle, Dial, AuthLoads, AuthEvicts, AuthStores,
        AuthUpdates, ReadFails, CleanupChecks, CleanupDeletes, CleanupMarks
  <2>3. CASE SweepDeletes \/ Restart
    BY <2>3 DEF SweepDeletes, Restart
  <2> QED
    BY <2>1, <2>2, <2>3
    DEF Next, vars, handler, Push, TrafficPush, SpeedPush, HeartbeatPush, SpeedPulls, Frame,
        TrafficFrame, SpeedFrame, HeartbeatFrame, SweepFinds, Round, MarkOffline, TakeSelects,
        TakeFlags, Notifies, Lists, Pulls, PullFails, Tick, AgentStarts, AgentStops, LinkBreaks
<1> QED BY <1>1, <1>2, PresenceTypeCorrect, PTL DEF Spec
=============================================================================
