------------------------ MODULE AccessControlProofs ------------------------
(***************************************************************************)
(* Access control for any sets of inbounds, routed nodes and tasks.        *)
(* Types hold in every configuration; the safety promises when tasks do    *)
(* not overlap, wherever the controller crashes and whatever became of a   *)
(* call that failed.                                                       *)
(***************************************************************************)
EXTENDS AccessControl, TLAPS

USE DEF Removals, Additions, Leaving, Entering

\* The job records the actions write are jobs.
LEMMA JobTypes ==
  /\ Idle \in Job
  /\ \A a, x \in BOOLEAN : Deciding(a, x) \in Job
  /\ \A goal \in Removals \cup Additions, todo \in SUBSET Points : Walk(goal, todo) \in Job
  BY DEF Idle, Deciding, Walk, Job

LEMMA WalkFields ==
  ASSUME NEW goal, NEW todo
  PROVE  /\ Walk(goal, todo).pc = "plain" /\ Walk(goal, todo).goal = goal
         /\ Walk(goal, todo).todo = todo /\ Walk(goal, todo).at = {}
         /\ Walk(goal, todo).ok = TRUE
  BY DEF Walk, Idle

LEMMA DecidingFields ==
  ASSUME NEW a, NEW x
  PROVE  /\ Deciding(a, x).pc = "decide" /\ Deciding(a, x).goal = "none"
         /\ Deciding(a, x).active = a /\ Deciding(a, x).expired = x
         /\ Deciding(a, x).at = {}
  BY DEF Deciding, Idle

LEMMA IdleFields ==
  Idle.pc = "idle" /\ Idle.goal = "none" /\ Idle.todo = {} /\ Idle.at = {}
  BY DEF Idle

\* The part of the type invariant that speaks of one job.
JobOK(j) ==
  /\ j \in Job
  /\ j.pc = "plain" => j.todo \subseteq Inbounds
  /\ j.pc \in {"routed"} \cup Leaving \cup Entering => j.todo \subseteq Routed
  /\ j.goal # "none" <=> j.pc \in {"plain", "routed"} \cup Leaving \cup Entering
  /\ j.at # {} => j.pc \in Leaving \cup Entering
  /\ j.pc \in Leaving => j.goal \in Removals
  /\ j.pc \in Entering => j.goal \in Additions

LEMMA JobsOK ==
  /\ JobOK(Idle)
  /\ \A a, x \in BOOLEAN : JobOK(Deciding(a, x))
  /\ JobOK([Idle EXCEPT !.pc = "provision"])
  /\ \A goal \in Removals \cup Additions, todo \in SUBSET Inbounds : JobOK(Walk(goal, todo))
<1>4. JobOK([Idle EXCEPT !.pc = "provision"]) BY DEF Idle, JobOK, Job
<1>1. JobOK(Idle) BY JobTypes, IdleFields DEF JobOK
<1>2. \A a, x \in BOOLEAN : JobOK(Deciding(a, x))
  BY JobTypes, DecidingFields DEF JobOK
<1>3. \A goal \in Removals \cup Additions, todo \in SUBSET Inbounds : JobOK(Walk(goal, todo))
  <2> SUFFICES ASSUME NEW goal \in Removals \cup Additions, NEW todo \in SUBSET Inbounds
               PROVE  JobOK(Walk(goal, todo))
    OBVIOUS
  <2>1. Walk(goal, todo) \in Job BY JobTypes DEF Points
  <2>2. Walk(goal, todo).pc = "plain" /\ Walk(goal, todo).goal = goal
        /\ Walk(goal, todo).todo = todo /\ Walk(goal, todo).at = {}
    BY WalkFields
  <2>3. goal # "none" OBVIOUS
  <2> QED BY <2>1, <2>2, <2>3 DEF JobOK
<1> QED BY <1>1, <1>2, <1>3, <1>4

\* The type invariant without the jobs.
DataOK ==
  /\ isActive \in BOOLEAN /\ disabledEnforced \in BOOLEAN
  /\ isOverLimit \in BOOLEAN /\ overEnforced \in BOOLEAN
  /\ package \in BOOLEAN /\ expired \in BOOLEAN
  /\ configs \subseteq Inbounds
  /\ sub \in [Routed -> {"none", "active", "inactive"}]
  /\ clients \subseteq Points
  /\ over \in BOOLEAN /\ online \subseteq Points /\ crashes \in Nat
  /\ unconfirmed \subseteq Points
  /\ unfinished \in [Routed -> {"none", "addition", "removal"}]

LEMMA TypeParts ==
  TypeOK <=> DataOK /\ job \in [Tasks -> Job] /\ \A t \in Tasks : JobOK(job[t])
  BY DEF TypeOK, DataOK, JobOK

\* A step that gives one task a well-formed job keeps the jobs well formed.
LEMMA OneJob ==
  ASSUME TypeOK, NEW t \in Tasks, NEW j, JobOK(j), job' = [job EXCEPT ![t] = j]
  PROVE  job' \in [Tasks -> Job] /\ \A u \in Tasks : JobOK(job'[u])
  BY TypeParts DEF JobOK

\* A task that has visited an access point still has a well-formed job.
LEMMA VisitOK ==
  ASSUME TypeOK, NEW t, NEW goals, NEW p, Visits(t, goals, p)
  PROVE  /\ t \in Tasks
         /\ job' = [job EXCEPT ![t] = [job[t] EXCEPT !.todo = job[t].todo \ {p},
                                                     !.ok = job[t].ok /\ p \in online]]
         /\ JobOK([job[t] EXCEPT !.todo = job[t].todo \ {p},
                                 !.ok = job[t].ok /\ p \in online])
<1>1. t \in Tasks BY DEF Visits
<1>2. job[t] \in Job /\ JobOK(job[t]) BY <1>1, TypeParts
<1>3. job' = [job EXCEPT ![t] = [job[t] EXCEPT !.todo = job[t].todo \ {p},
                                               !.ok = job[t].ok /\ p \in online]]
  BY <1>1, <1>2 DEF Visits, Job, TypeOK
<1> QED BY <1>1, <1>2, <1>3 DEF JobOK, Job

\* So has one that goes over to the routed nodes.
LEMMA PlainDoneOK ==
  ASSUME TypeOK, NEW t, PlainDone(t)
  PROVE  /\ t \in Tasks
         /\ \E todo \in SUBSET Routed :
              /\ job' = [job EXCEPT ![t] = [job[t] EXCEPT !.pc = "routed", !.todo = todo]]
              /\ JobOK([job[t] EXCEPT !.pc = "routed", !.todo = todo])
              /\ todo = IF job[t].goal \in Removals THEN Subaccounts("active")
                        ELSE IF job[t].goal = "assign" THEN Routed \ Subaccounts("none")
                        ELSE IF job[t].goal = "resync" THEN {}
                        ELSE Subaccounts("inactive")
<1>1. t \in Tasks /\ job[t].pc = "plain" BY DEF PlainDone
<1>2. job[t] \in Job /\ JobOK(job[t]) BY <1>1, TypeParts
<1> DEFINE next == IF job[t].goal \in Removals THEN Subaccounts("active")
                   ELSE IF job[t].goal = "assign" THEN Routed \ Subaccounts("none")
                   ELSE IF job[t].goal = "resync" THEN {}
                   ELSE Subaccounts("inactive")
<1>3. next \in SUBSET Routed BY DEF Subaccounts
<1>4. job' = [job EXCEPT ![t] = [job[t] EXCEPT !.pc = "routed", !.todo = next]]
  BY <1>1, <1>2 DEF PlainDone, Job, TypeOK
<1>5. JobOK([job[t] EXCEPT !.pc = "routed", !.todo = next])
  <2> HIDE DEF next
  <2> QED BY <1>1, <1>2, <1>3 DEF JobOK, Job, Points
<1> HIDE DEF next
<1>6. PICK todo : todo = next OBVIOUS
<1> QED BY <1>1, <1>3, <1>4, <1>5, <1>6 DEF next

-----------------------------------------------------------------------------
(* Types. *)

\* Nothing but a job changes, or nothing of the kinds in DataOK changes kind.
LEMMA Enough ==
  ASSUME TypeOK, DataOK', NEW t \in Tasks, NEW j, JobOK(j), job' = [job EXCEPT ![t] = j]
  PROVE  TypeOK'
<1>1. job' \in [Tasks -> Job] /\ \A u \in Tasks : JobOK(job'[u]) BY OneJob
<1> QED BY <1>1 DEF TypeOK, DataOK, JobOK

LEMMA InitTyped == Init => TypeOK
<1> SUFFICES ASSUME Init PROVE TypeOK OBVIOUS
<1>1. DataOK BY AccessAssumption DEF Init, DataOK, Points
<1>2. job \in [Tasks -> Job] /\ \A t \in Tasks : JobOK(job[t])
  BY JobTypes, JobsOK DEF Init
<1> QED BY <1>1, <1>2, TypeParts

LEMMA StartTyped == ASSUME TypeOK, Start PROVE TypeOK'
<1>1. CASE ListUsersWithPackage
  <2>1. DataOK' BY <1>1, TypeParts DEF ListUsersWithPackage, DataOK, flags, binding, access, rows, world
  <2>2. "enforcer" \in Tasks /\ JobOK(Deciding(isActive, expired))
    BY <1>1, JobsOK, TypeParts DEF ListUsersWithPackage, MayStart, DataOK
  <2> QED BY <1>1, <2>1, <2>2, Enough DEF ListUsersWithPackage, Becomes
<1>2. ASSUME NEW active \in BOOLEAN, SetUserStatus(active) PROVE TypeOK'
  <2>1. DataOK' BY <1>2, TypeParts DEF SetUserStatus, DataOK, binding, access, rows, world
  <2>2. (~package \/ expired) \in BOOLEAN OBVIOUS
  <2>3. "status" \in Tasks /\ JobOK(Deciding(active, ~package \/ expired))
    BY <1>2, <2>2, JobsOK DEF SetUserStatus, MayStart
  <2> QED BY <1>2, <2>1, <2>3, Enough DEF SetUserStatus, Becomes
<1>3. CASE AssignPackage
  <2>1. DataOK' BY <1>3, TypeParts DEF AssignPackage, DataOK, flags, access, rows
  <2>2. "assign" \in Tasks /\ JobOK([Idle EXCEPT !.pc = "provision"])
    BY <1>3, JobsOK DEF AssignPackage, MayStart
  <2> QED BY <1>3, <2>1, <2>2, Enough DEF AssignPackage, Becomes
<1>4. CASE RenewPackage
  BY <1>4 DEF RenewPackage, TypeOK, flags, access, rows, world
<1>6. CASE UnassignPackage
  <2>1. DataOK' BY <1>6, TypeParts DEF UnassignPackage, DataOK, flags, binding, access, rows, world
  <2>2. "unassign" \in Tasks /\ JobOK(Walk("unassign", configs))
    BY <1>6, JobsOK, TypeParts DEF UnassignPackage, MayStart, DataOK
  <2> QED BY <1>6, <2>1, <2>2, Enough DEF UnassignPackage, Becomes
<1>5. CASE ResyncInbounds
  <2>1. DataOK' BY <1>5, TypeParts DEF ResyncInbounds, DataOK, flags, binding, access, rows, world
  <2>2. "reconciler" \in Tasks /\ JobOK(Walk("resync", configs \ clients))
    BY <1>5, JobsOK, TypeParts DEF ResyncInbounds, MayStart, DataOK
  <2> QED BY <1>5, <2>1, <2>2, Enough DEF ResyncInbounds, Becomes
<1> QED BY <1>1, <1>2, <1>3, <1>4, <1>5, <1>6 DEF Start

LEMMA DecideTyped == ASSUME TypeOK, Decide PROVE TypeOK'
<1>1. configs \in SUBSET Inbounds BY DEF TypeOK
<1>2. JobOK(Idle) /\ \A goal \in Removals \cup Additions : JobOK(Walk(goal, configs))
  BY <1>1, JobsOK
<1>3. JobOK(Walk("disable", configs)) /\ JobOK(Walk("expire", configs))
      /\ JobOK(Walk("limit", configs)) /\ JobOK(Walk("restore", configs))
      /\ JobOK(Walk("enable", configs))
  BY <1>2
<1>4. CASE CheckDisabled
  <2>1. DataOK' BY <1>4, TypeParts DEF CheckDisabled, DataOK, flags, binding, access, rows, world
  <2>2. PICK j : JobOK(j) /\ job' = [job EXCEPT !["enforcer"] = j]
    BY <1>4, <1>2, <1>3 DEF CheckDisabled, Becomes
  <2> QED BY <1>4, <2>1, <2>2, Enough DEF CheckDisabled, Decides
<1>5. CASE CheckExpired
  <2>1. DataOK' BY <1>5, TypeParts DEF CheckExpired, DataOK, flags, binding, access, rows, world
  <2> QED BY <1>5, <2>1, <1>3, Enough DEF CheckExpired, Decides, Becomes
<1>6. CASE CheckQuota
  <2>1. DataOK' BY <1>6, TypeParts DEF CheckQuota, DataOK, binding, access, rows
  <2>2. PICK j : JobOK(j) /\ job' = [job EXCEPT !["enforcer"] = j]
    BY <1>6, <1>2, <1>3 DEF CheckQuota, Becomes
  <2> QED BY <1>6, <2>1, <2>2, Enough DEF CheckQuota, Decides
<1>7. CASE DisableAccess
  <2>1. DataOK' BY <1>7, TypeParts DEF DisableAccess, DataOK, flags, binding, access, rows, world
  <2> QED BY <1>7, <2>1, <1>3, Enough DEF DisableAccess, Decides, Becomes
<1>8. CASE EnableAccess
  <2>1. DataOK' BY <1>8, TypeParts DEF EnableAccess, DataOK, flags, binding, access, rows, world
  <2>2. PICK j : JobOK(j) /\ job' = [job EXCEPT !["status"] = j]
    BY <1>8, <1>2, <1>3 DEF EnableAccess, Becomes
  <2> QED BY <1>8, <2>1, <2>2, Enough DEF EnableAccess, Decides
<1>9. CASE Provision
  <2>1. DataOK'
    BY <1>9, TypeParts DEF Provision, DataOK, Subaccounts, flags, binding, world
  <2>2. "assign" \in Tasks /\ JobOK(Walk("assign", Inbounds))
    BY <1>9, JobsOK DEF Provision
  <2> QED BY <1>9, <2>1, <2>2, Enough DEF Provision, Becomes
<1> QED BY <1>4, <1>5, <1>6, <1>7, <1>8, <1>9 DEF Decide

LEMMA PlainCallTyped ==
  ASSUME TypeOK, NEW t \in Tasks, NEW p \in Inbounds,
         RemoveFromInbound(t, p) \/ AddToInbound(t, p)
  PROVE  TypeOK'
<1>1. CASE RemoveFromInbound(t, p)
  <2>1. DataOK'
    BY <1>1, TypeParts DEF RemoveFromInbound, RemovesClient, Notes, DataOK, flags, world, Points
  <2>2. Visits(t, Removals, p) BY <1>1 DEF RemoveFromInbound
  <2> QED BY <2>1, <2>2, VisitOK, Enough
<1>2. CASE AddToInbound(t, p)
  <2>1. DataOK'
    BY <1>2, TypeParts DEF AddToInbound, AddsClient, DataOK, flags, binding, world, Points
  <2>2. Visits(t, Additions, p) BY <1>2 DEF AddToInbound
  <2> QED BY <2>1, <2>2, VisitOK, Enough
<1> QED BY <1>1, <1>2

\* A task that goes on with a routed node, or leaves it.
LEMMA ProceedsFields ==
  ASSUME TypeOK, NEW t \in Tasks, NEW p \in Routed, NEW pc \in Leaving \cup Entering,
         NEW sure \in BOOLEAN, Proceeds(t, p, pc, sure)
  PROVE  /\ job' = [job EXCEPT ![t] = job'[t]] /\ job'[t] \in Job
         /\ job'[t].pc = pc /\ job'[t].at = {p} /\ job'[t].todo = job[t].todo \ {p}
         /\ job'[t].sure = sure /\ job'[t].ok = job[t].ok /\ job'[t].goal = job[t].goal
<1>1. job[t] \in Job /\ job \in [Tasks -> Job] BY TypeParts
<1>2. job'[t] = [job[t] EXCEPT !.pc = pc, !.at = {p}, !.todo = job[t].todo \ {p}, !.sure = sure]
      /\ job' = [job EXCEPT ![t] = job'[t]]
  BY <1>1 DEF Proceeds, Becomes
<1>3. job'[t] = [pc |-> pc, goal |-> job[t].goal, todo |-> job[t].todo \ {p}, at |-> {p},
                 sure |-> sure, ok |-> job[t].ok, active |-> job[t].active,
                 expired |-> job[t].expired]
  BY <1>1, <1>2 DEF Job
<1> QED BY <1>1, <1>2, <1>3 DEF Job

LEMMA LeavesFields ==
  ASSUME TypeOK, NEW t \in Tasks, NEW p, NEW fine \in BOOLEAN, Leaves(t, p, fine)
  PROVE  /\ job' = [job EXCEPT ![t] = job'[t]] /\ job'[t] \in Job
         /\ job'[t].pc = "routed" /\ job'[t].at = {} /\ job'[t].todo = job[t].todo \ {p}
         /\ job'[t].ok = (job[t].ok /\ fine) /\ job'[t].goal = job[t].goal
<1>1. job[t] \in Job /\ job \in [Tasks -> Job] BY TypeParts
<1>2. job'[t] = [job[t] EXCEPT !.pc = "routed", !.at = {}, !.todo = job[t].todo \ {p},
                               !.sure = FALSE, !.ok = job[t].ok /\ fine]
      /\ job' = [job EXCEPT ![t] = job'[t]]
  BY <1>1 DEF Leaves, Becomes
<1>3. job'[t] = [pc |-> "routed", goal |-> job[t].goal, todo |-> job[t].todo \ {p}, at |-> {},
                 sure |-> FALSE, ok |-> job[t].ok /\ fine, active |-> job[t].active,
                 expired |-> job[t].expired]
  BY <1>1, <1>2 DEF Job
<1> QED BY <1>1, <1>2, <1>3 DEF Job

LEMMA ProceedsTyped ==
  ASSUME TypeOK, NEW t \in Tasks, NEW p \in Routed, NEW pc, NEW sure \in BOOLEAN,
         DataOK', Proceeds(t, p, pc, sure),
         job[t].pc \in {"routed"} \cup Leaving \cup Entering,
         \/ pc \in Leaving /\ job[t].goal \in Removals
         \/ pc \in Entering /\ job[t].goal \in Additions
  PROVE  TypeOK'
<1>1. JobOK(job[t]) BY TypeParts
<1>2. pc \in Leaving \cup Entering OBVIOUS
<1>3. JobOK(job'[t]) BY <1>1, <1>2, ProceedsFields DEF JobOK
<1>4. job' = [job EXCEPT ![t] = job'[t]] BY <1>2, ProceedsFields
<1> QED BY <1>3, <1>4, Enough

LEMMA LeavesTyped ==
  ASSUME TypeOK, NEW t \in Tasks, NEW p \in Routed, NEW fine \in BOOLEAN,
         DataOK', Leaves(t, p, fine), job[t].pc \in {"routed"} \cup Leaving \cup Entering
  PROVE  TypeOK'
<1>1. JobOK(job[t]) BY TypeParts
<1>2. JobOK(job'[t]) BY <1>1, LeavesFields DEF JobOK
<1>3. job' = [job EXCEPT ![t] = job'[t]] BY LeavesFields
<1> QED BY <1>2, <1>3, Enough

LEMMA VisitTyped ==
  ASSUME TypeOK, NEW t \in Tasks, NEW p \in Routed, Visit(t, p) PROVE TypeOK'
<1>0. DataOK /\ JobOK(job[t]) /\ p \in Points /\ (p \in online) \in BOOLEAN
  BY TypeParts DEF Points
<1>1. CASE RemoveRoute(t, p)
  <2>1. DataOK' BY <1>0, <1>1 DEF RemoveRoute, DataOK, flags, binding, rows, world
  <2> QED BY <1>0, <1>1, <2>1, ProceedsTyped DEF RemoveRoute, Enters
<1>2. CASE RemoveClient(t, p)
  <2>1. DataOK'
    BY <1>0, <1>2 DEF RemoveClient, RemovesClient, Notes, DataOK, flags, rows, world
  <2>2. job[t].goal \in Removals /\ job[t].pc = "remove" BY <1>0, <1>2 DEF RemoveClient, IsAt, JobOK
  <2> QED BY <1>2, <2>1, <2>2, ProceedsTyped, LeavesTyped DEF RemoveClient
<1>3. CASE MarkInactive(t, p)
  <2>1. DataOK' BY <1>0, <1>3 DEF MarkInactive, Notes, DataOK, flags, world
  <2> QED BY <1>3, <2>1, LeavesTyped DEF MarkInactive, IsAt
<1>4. CASE AddClient(t, p)
  <2>1. DataOK' BY <1>0, <1>4 DEF AddClient, AddsClient, DataOK, flags, binding, rows, world
  <2>2. PICK pc \in {"row", "retract"} : Proceeds(t, p, pc, FALSE) BY <1>4 DEF AddClient
  <2>3. pc \in Entering /\ job[t].goal \in Additions /\ job[t].pc = "routed"
    BY <1>4, <2>2 DEF AddClient, Enters
  <2> QED BY <2>1, <2>2, <2>3, ProceedsTyped
<1>5. CASE SaveSubaccount(t, p)
  <2>1. DataOK' BY <1>0, <1>5 DEF SaveSubaccount, DataOK, flags, binding, world
  <2>2. job[t].goal \in Additions /\ job[t].pc = "row" BY <1>0, <1>5 DEF SaveSubaccount, IsAt, JobOK
  <2> QED BY <1>5, <2>1, <2>2, ProceedsTyped DEF SaveSubaccount
<1>6. CASE AddRoute(t, p)
  <2>1. DataOK' BY <1>0, <1>6 DEF AddRoute, DataOK, flags, binding, rows, world
  <2>2. job[t].goal \in Additions /\ job[t].pc = "route" BY <1>0, <1>6 DEF AddRoute, IsAt, JobOK
  <2> QED BY <1>6, <2>1, <2>2, ProceedsTyped, LeavesTyped DEF AddRoute
<1>7. CASE UndoClient(t, p)
  <2>1. DataOK' BY <1>0, <1>7 DEF UndoClient, RemovesClient, DataOK, flags, binding, rows, world
  <2>2. job[t].goal \in Additions /\ job[t].pc = "undo" BY <1>0, <1>7 DEF UndoClient, IsAt, JobOK
  <2> QED BY <1>0, <1>7, <2>1, <2>2, ProceedsTyped DEF UndoClient
<1>8. CASE Retract(t, p)
  <2>1. DataOK' BY <1>0, <1>8 DEF Retract, DataOK, flags, binding, world
  <2> QED BY <1>8, <2>1, LeavesTyped DEF Retract, IsAt
<1>9. CASE BatchAdd(t, p)
  <2>1. DataOK' BY <1>0, <1>9 DEF BatchAdd, AddsClient, DataOK, flags, binding, rows, world
  <2>2. job[t].goal \in Additions /\ job[t].pc = "routed" BY <1>9 DEF BatchAdd, Enters
  <2> QED BY <1>9, <2>1, <2>2, ProceedsTyped, LeavesTyped DEF BatchAdd
<1>10. CASE SaveBatch(t, p)
  <2>1. DataOK' BY <1>0, <1>10 DEF SaveBatch, DataOK, flags, binding, world
  <2> QED BY <1>10, <2>1, LeavesTyped DEF SaveBatch, IsAt
<1> QED BY <1>1, <1>2, <1>3, <1>4, <1>5, <1>6, <1>7, <1>8, <1>9, <1>10 DEF Visit

LEMMA CallTyped == ASSUME TypeOK, NEW t \in Tasks, Call(t) PROVE TypeOK'
BY PlainCallTyped, VisitTyped DEF Call

LEMMA PlainDoneTyped == ASSUME TypeOK, NEW t \in Tasks, PlainDone(t) PROVE TypeOK'
<1>1. DataOK' BY TypeParts DEF PlainDone, DataOK, flags, binding, access, rows, world
<1> QED BY <1>1, PlainDoneOK, Enough

LEMMA FinishTyped == ASSUME TypeOK, NEW t \in Tasks, Finish(t) PROVE TypeOK'
<1>1. job' = [job EXCEPT ![t] = Idle]
  BY DEF Finish, DisableDone, LimitDone, ExpireDone, UnassignDone, RestoreDone, BestEffortDone,
         Finishes, Becomes
<1>2. DataOK'
  <2>1. job[t].ok \in BOOLEAN BY TypeParts DEF Job
  <2>2. CASE DisableDone(t) BY <2>1, <2>2, TypeParts DEF DisableDone, DataOK, binding, access, rows, world
  <2>3. CASE LimitDone(t) BY <2>1, <2>3, TypeParts DEF LimitDone, DataOK, binding, access, rows, world
  <2>4. CASE ExpireDone(t) BY <2>4, TypeParts DEF ExpireDone, DataOK, flags, world
  <2>7. CASE UnassignDone(t) BY <2>7, TypeParts DEF UnassignDone, DataOK, flags, access, rows, world
  <2>5. CASE RestoreDone(t) BY <2>5, TypeParts DEF RestoreDone, DataOK, binding, access, rows, world
  <2>6. CASE BestEffortDone(t)
    BY <2>6, TypeParts DEF BestEffortDone, DataOK, flags, binding, access, rows, world
  <2> QED BY <2>2, <2>3, <2>4, <2>5, <2>6, <2>7 DEF Finish
<1> QED BY <1>1, <1>2, JobsOK, Enough

LEMMA WorldTyped == ASSUME TypeOK, World PROVE TypeOK'
<1>1. CASE ControllerCrash
  <2>1. DataOK' BY <1>1, TypeParts DEF ControllerCrash, DataOK, flags, binding, access, rows
  <2>2. job' \in [Tasks -> Job] /\ \A t \in Tasks : JobOK(job'[t])
    BY <1>1, JobTypes, JobsOK DEF ControllerCrash
  <2> QED BY <2>1, <2>2 DEF TypeOK, DataOK, JobOK
<1>2. CASE ~ControllerCrash
  <2>1. DataOK' /\ job' = job
    BY <1>2, TypeParts DEF World, ServerDown, ServerUp, UsageChanges, PackageEnds,
       DataOK, flags, binding, access, rows, world
  <2> QED BY <2>1 DEF TypeOK, DataOK
<1> QED BY <1>1, <1>2

LEMMA StepTyped == TypeOK /\ [Next]_vars => TypeOK'
<1> SUFFICES ASSUME TypeOK, [Next]_vars PROVE TypeOK' OBVIOUS
<1>1. CASE Start BY <1>1, StartTyped
<1>2. CASE Work BY <1>2, DecideTyped, CallTyped, PlainDoneTyped, FinishTyped DEF Work
<1>3. CASE World BY <1>3, WorldTyped
<1>4. CASE UNCHANGED vars
  BY <1>4 DEF vars, flags, binding, access, rows, world, TypeOK
<1> QED BY <1>1, <1>2, <1>3, <1>4 DEF Next

\* Every reachable state has its type: a walk over inbounds never holds a
\* routed node, nor the other way round (removeUserFromAllInbounds,
\* suspendUserRoutedAccess), and rows exist only for access points of the
\* package.  Overlapping tasks, unanswered calls and crashes included.
THEOREM AccessTypeCorrect == Spec => []TypeOK
<1> QED BY InitTyped, StepTyped, PTL DEF Spec

-----------------------------------------------------------------------------
(* Safety, when tasks do not overlap. *)

Serial == HandlersOverlap = FALSE

JobInv(t) == Removed(t) /\ Unbound(t) /\ Restored(t) /\ Underway(t) /\ PackageHeld(t)
Books == RowsCover /\ Served /\ NoPackageNoAccess

\* A task that is idle promises nothing.
LEMMA IdleInv == ASSUME NEW t, job[t] = Idle PROVE JobInv(t)
<1>1. job[t].goal = "none" /\ job[t].pc = "idle" BY IdleFields
<1> QED BY <1>1 DEF JobInv, Removed, Unbound, Restored, Underway, PackageHeld

\* The step of a task that works alone keeps the invariant if it keeps the
\* database and the agents in order and the task's own promises.
LEMMA AloneStep ==
  ASSUME TypeOK, NEW t \in Tasks, Alone(t), job' = [job EXCEPT ![t] = job'[t]],
         Books', JobInv(t)'
  PROVE  AccessInv'
<1>1. \A u \in Tasks \ {t} : job'[u] = Idle BY DEF Alone, TypeOK
<1>2. OneAtATime' BY <1>1 DEF OneAtATime, Alone
<1>3. ASSUME NEW u \in Tasks PROVE JobInv(u)'
  <2>1. CASE u = t BY <2>1
  <2>2. CASE u # t
    <3>1. job'[u].goal = "none" /\ job'[u].pc = "idle" BY <1>1, <2>2, IdleFields
    <3> QED BY <3>1 DEF JobInv, Removed, Unbound, Restored, Underway, PackageHeld
  <2> QED BY <2>1, <2>2
<1> QED BY <1>2, <1>3 DEF AccessInv, JobInv, Books

\* A task at work is alone, and so is one that starts.
LEMMA AtWorkAlone ==
  ASSUME AccessInv, NEW t \in Tasks, job[t].pc # "idle" PROVE Alone(t) /\ JobInv(t) /\ Books
  BY IdleFields DEF AccessInv, OneAtATime, JobInv, Books

LEMMA StartsAlone ==
  ASSUME Serial, NEW t, MayStart(t) PROVE t \in Tasks /\ Alone(t) /\ job[t] = Idle
  BY DEF Serial, MayStart, Alone

\* The books do not depend on anything else.
LEMMA BooksStay ==
  ASSUME Books, UNCHANGED access, UNCHANGED unconfirmed, package => package'
  PROVE  Books'
BY DEF Books, RowsCover, Served, NoPackageNoAccess, Subaccounts, Stranded, access, rows

\* Nor do the promises of the tasks.
LEMMA NothingDone ==
  ASSUME AccessInv, UNCHANGED <<access, package, unconfirmed, job>> PROVE AccessInv'
<1>1. Books' BY BooksStay DEF AccessInv, Books
<1>2. configs' = configs /\ clients' = clients /\ Stranded' = Stranded
      /\ \A state : Subaccounts(state)' = Subaccounts(state)
  BY DEF access, rows, Stranded, Subaccounts
<1>3. unfinished' = unfinished BY DEF access
<1>4. ASSUME NEW t \in Tasks PROVE JobInv(t)'
  <2>1. JobInv(t) /\ job'[t] = job[t] /\ Left(t)' = Left(t)
    BY <1>2 DEF AccessInv, JobInv, Left
  <2>2. Removed(t)' /\ Unbound(t)' BY <1>2, <2>1 DEF JobInv, Removed, Unbound
  <2>3. Restored(t)' BY <1>2, <2>1 DEF JobInv, Restored
  <2>4. Underway(t)' BY <1>2, <1>3, <2>1 DEF JobInv, Underway
  <2>5. PackageHeld(t)' BY <2>1 DEF JobInv, PackageHeld
  <2> QED BY <2>2, <2>3, <2>4, <2>5 DEF JobInv
<1>5. OneAtATime' BY DEF AccessInv, OneAtATime, Alone
<1> QED BY <1>1, <1>4, <1>5 DEF AccessInv, JobInv, Books

LEMMA InitSafe == Init => AccessInv
<1> SUFFICES ASSUME Init PROVE AccessInv OBVIOUS
<1>1. \A t \in Tasks : job[t] = Idle BY DEF Init
<1>2. RowsCover /\ Served
  BY AccessAssumption DEF Init, RowsCover, Served, Subaccounts, Points
<1>3. OneAtATime /\ NoPackageNoAccess BY <1>1 DEF OneAtATime, NoPackageNoAccess, Init
<1> QED BY <1>1, <1>2, <1>3, IdleInv DEF AccessInv, JobInv

\* A walk over the plain inbounds begins with every row to visit.
LEMMA WalkInv ==
  ASSUME RowsCover', NEW t \in Tasks, NEW goal \in Removals \cup Additions,
         job'[t] = Walk(goal, configs'), goal \in Additions => package'
  PROVE  JobInv(t)'
<1>1. job'[t].pc = "plain" /\ job'[t].goal = goal /\ job'[t].todo = configs'
  BY DEF Walk, Idle
<1> QED BY <1>1 DEF JobInv, Removed, Unbound, Restored, Underway, PackageHeld, RowsCover

LEMMA StartSafe == ASSUME TypeOK, AccessInv, Serial, Start PROVE AccessInv'
<1>0. Books BY DEF AccessInv, Books
<1>1. CASE ListUsersWithPackage
  <2>1. "enforcer" \in Tasks /\ Alone("enforcer")
    BY <1>1, StartsAlone DEF ListUsersWithPackage
  <2>2. Books' BY <1>0, <1>1, BooksStay DEF ListUsersWithPackage, binding
  <2>3. job' = [job EXCEPT !["enforcer"] = Deciding(isActive, expired)] /\ package'
    BY <1>1 DEF ListUsersWithPackage, Becomes, binding
  <2>4. job'["enforcer"].pc = "decide" /\ job'["enforcer"].goal = "none"
    BY <2>1, <2>3, DecidingFields DEF TypeOK
  <2>5. JobInv("enforcer")' BY <2>3, <2>4 DEF JobInv, Removed, Unbound, Restored, Underway, PackageHeld
  <2>6. job' = [job EXCEPT !["enforcer"] = job'["enforcer"]] BY <2>1, <2>3 DEF TypeOK
  <2> QED BY <2>1, <2>2, <2>5, <2>6, AloneStep
<1>2. ASSUME NEW active \in BOOLEAN, SetUserStatus(active) PROVE AccessInv'
  <2>1. "status" \in Tasks /\ Alone("status")
    BY <1>2, StartsAlone DEF SetUserStatus
  <2>2. Books' BY <1>0, <1>2, BooksStay DEF SetUserStatus, binding
  <2>3. job' = [job EXCEPT !["status"] = Deciding(active, ~package \/ expired)]
        /\ package' = package
    BY <1>2 DEF SetUserStatus, Becomes, binding
  <2>4. job'["status"].pc = "decide" /\ job'["status"].goal = "none"
        /\ job'["status"].expired = (~package \/ expired)
    BY <2>1, <2>3, DecidingFields DEF TypeOK
  <2>5. JobInv("status")'
    BY <2>3, <2>4 DEF JobInv, Removed, Unbound, Restored, Underway, PackageHeld, TypeOK
  <2>6. job' = [job EXCEPT !["status"] = job'["status"]] BY <2>1, <2>3 DEF TypeOK
  <2> QED BY <2>1, <2>2, <2>5, <2>6, AloneStep
<1>3. CASE AssignPackage
  <2>1. "assign" \in Tasks /\ Alone("assign")
    BY <1>3, StartsAlone DEF AssignPackage
  <2>2. package' /\ UNCHANGED access BY <1>3 DEF AssignPackage
  <2>3. Books'
    BY <1>0, <2>2 DEF Books, RowsCover, Served, NoPackageNoAccess, Subaccounts, Stranded, access, rows
  <2>4. job' = [job EXCEPT !["assign"] = [Idle EXCEPT !.pc = "provision"]]
    BY <1>3 DEF AssignPackage, Becomes
  <2>5. job'["assign"].pc = "provision" /\ job'["assign"].goal = "none"
    BY <2>1, <2>4 DEF TypeOK, Idle
  <2>6. JobInv("assign")'
    BY <2>2, <2>5 DEF JobInv, Removed, Unbound, Restored, Underway, PackageHeld
  <2>7. job' = [job EXCEPT !["assign"] = job'["assign"]] BY <2>1, <2>4 DEF TypeOK
  <2> QED BY <2>1, <2>3, <2>6, <2>7, AloneStep
<1>4. CASE RenewPackage
  BY <1>4, NothingDone DEF RenewPackage
<1>5. CASE UnassignPackage
  <2>1. "unassign" \in Tasks /\ Alone("unassign")
    BY <1>5, StartsAlone DEF UnassignPackage
  <2>2. Books' BY <1>0, <1>5, BooksStay DEF UnassignPackage, binding
  <2>3. job' = [job EXCEPT !["unassign"] = Walk("unassign", configs)] /\ configs' = configs
    BY <1>5 DEF UnassignPackage, Becomes, access, rows
  <2>4. job'["unassign"] = Walk("unassign", configs')
        /\ job' = [job EXCEPT !["unassign"] = job'["unassign"]]
    BY <2>1, <2>3 DEF TypeOK
  <2>5. JobInv("unassign")' BY <2>1, <2>2, <2>4, WalkInv DEF Books
  <2> QED BY <2>1, <2>2, <2>4, <2>5, AloneStep
<1>6. CASE ResyncInbounds
  <2>1. "reconciler" \in Tasks /\ Alone("reconciler")
    BY <1>6, StartsAlone DEF ResyncInbounds
  <2>2. Books' BY <1>0, <1>6, BooksStay DEF ResyncInbounds, binding
  <2>3. job' = [job EXCEPT !["reconciler"] = Walk("resync", configs \ clients)] /\ package'
    BY <1>6 DEF ResyncInbounds, Becomes, binding
  <2>7. job'["reconciler"] = Walk("resync", configs \ clients) BY <2>1, <2>3 DEF TypeOK
  <2>4. job'["reconciler"].pc = "plain" /\ job'["reconciler"].goal = "resync"
    BY <2>7 DEF Walk, Idle
  <2>5. JobInv("reconciler")'
    BY <2>3, <2>4 DEF JobInv, Removed, Unbound, Restored, Underway, PackageHeld
  <2>6. job' = [job EXCEPT !["reconciler"] = job'["reconciler"]] BY <2>1, <2>3 DEF TypeOK
  <2> QED BY <2>1, <2>2, <2>5, <2>6, AloneStep
<1> QED BY <1>1, <1>2, <1>3, <1>4, <1>5, <1>6 DEF Start

LEMMA ProvisionSafe == ASSUME TypeOK, AccessInv, Provision PROVE AccessInv'
<1>1. "assign" \in Tasks /\ job["assign"].pc = "provision"
      /\ job' = [job EXCEPT !["assign"] = Walk("assign", Inbounds)]
  BY DEF Provision, Becomes
<1>2. Alone("assign") /\ Books /\ package BY <1>1, AtWorkAlone DEF JobInv, PackageHeld
<1>8. job'["assign"] = Walk("assign", Inbounds) BY <1>1 DEF TypeOK
<1>3. job'["assign"].pc = "plain" /\ job'["assign"].goal = "assign"
      /\ job' = [job EXCEPT !["assign"] = job'["assign"]]
  BY <1>1, <1>8 DEF Walk, Idle
<1>4. configs' = configs /\ clients' = clients /\ package'
  BY <1>2 DEF Provision, binding
<1>5. PICK claimed \in SUBSET Subaccounts("none") :
        /\ sub' = [n \in Routed |-> IF n \in claimed THEN "active" ELSE sub[n]]
        /\ unfinished' = [n \in Routed |-> IF n \in claimed THEN "addition" ELSE unfinished[n]]
  BY DEF Provision
<1>6. Books'
  <2>1. Subaccounts("active") \subseteq Subaccounts("active")'
    BY <1>5 DEF Subaccounts
  <2>2. Stranded \subseteq Stranded' \cup Subaccounts("active")'
    BY <1>5 DEF Stranded, Subaccounts
  <2>3. RowsCover' BY <1>2, <1>4, <2>1, <2>2 DEF Books, RowsCover
  <2>4. Served' BY <1>2, <1>4, <1>5 DEF Books, Served, Subaccounts
  <2> QED BY <1>4, <2>3, <2>4 DEF Books, NoPackageNoAccess
<1>7. JobInv("assign")'
  BY <1>3, <1>4 DEF JobInv, Removed, Unbound, Restored, Underway, PackageHeld
<1> QED BY <1>1, <1>2, <1>3, <1>6, <1>7, AloneStep

LEMMA DecideSafe == ASSUME TypeOK, AccessInv, Decide, ~Provision PROVE AccessInv'
<1>1. PICK t \in Tasks : /\ job[t].pc = "decide"
                         /\ \/ job' = [job EXCEPT ![t] = Idle]
                            \/ \E goal \in Removals \cup Additions :
                                 /\ job' = [job EXCEPT ![t] = Walk(goal, configs)]
                                 /\ goal \in Additions => ~job[t].expired
  <2>1. CASE CheckDisabled
    <3>1. \/ job' = [job EXCEPT !["enforcer"] = Idle]
          \/ job' = [job EXCEPT !["enforcer"] = Walk("disable", configs)]
      BY <2>1 DEF CheckDisabled, Becomes
    <3>2. "enforcer" \in Tasks /\ job["enforcer"].pc = "decide"
      BY <2>1 DEF CheckDisabled, Decides
    <3> QED BY <3>1, <3>2
  <2>2. CASE CheckExpired
    <3>1. job' = [job EXCEPT !["enforcer"] = Walk("expire", configs)]
          /\ "enforcer" \in Tasks /\ job["enforcer"].pc = "decide"
      BY <2>2 DEF CheckExpired, Decides, Becomes
    <3>2. "expire" \in Removals \cup Additions /\ "expire" \notin Additions OBVIOUS
    <3> HIDE DEF Removals, Additions
    <3> QED BY <3>1, <3>2, Zenon
  <2>3. CASE CheckQuota
    <3>1. \/ job' = [job EXCEPT !["enforcer"] = Idle]
          \/ job' = [job EXCEPT !["enforcer"] = Walk("limit", configs)]
          \/ job' = [job EXCEPT !["enforcer"] = Walk("restore", configs)]
      BY <2>3 DEF CheckQuota, Becomes
    <3>2. "enforcer" \in Tasks /\ job["enforcer"].pc = "decide" /\ ~job["enforcer"].expired
      BY <2>3 DEF CheckQuota, Decides
    <3> QED BY <3>1, <3>2
  <2>4. CASE DisableAccess
    <3>1. job' = [job EXCEPT !["status"] = Walk("disable", configs)]
          /\ "status" \in Tasks /\ job["status"].pc = "decide"
      BY <2>4 DEF DisableAccess, Decides, Becomes
    <3>2. "disable" \in Removals \cup Additions /\ "disable" \notin Additions OBVIOUS
    <3> HIDE DEF Removals, Additions
    <3> QED BY <3>1, <3>2, Zenon
  <2>5. CASE EnableAccess
    <3>1. \/ job' = [job EXCEPT !["status"] = Idle]
          \/ /\ job' = [job EXCEPT !["status"] = Walk("enable", configs)]
             /\ ~job["status"].expired
      BY <2>5 DEF EnableAccess, Becomes
    <3>2. "status" \in Tasks /\ job["status"].pc = "decide"
      BY <2>5 DEF EnableAccess, Decides
    <3> QED BY <3>1, <3>2
  <2> QED BY <2>1, <2>2, <2>3, <2>4, <2>5 DEF Decide
<1>2. Alone(t) /\ JobInv(t) /\ Books BY <1>1, AtWorkAlone
<1>3. UNCHANGED access /\ package' = package /\ unconfirmed' = unconfirmed
  BY DEF Decide, CheckDisabled, CheckExpired, CheckQuota, DisableAccess, EnableAccess, binding
<1>4. Books' /\ configs' = configs BY <1>2, <1>3, BooksStay DEF access, rows
<1>5. CASE job' = [job EXCEPT ![t] = Idle]
  <2>1. job'[t].goal = "none" /\ job'[t].pc = "idle"
    BY <1>5, IdleFields DEF TypeOK
  <2>2. JobInv(t)' BY <2>1 DEF JobInv, Removed, Unbound, Restored, Underway, PackageHeld
  <2>3. job' = [job EXCEPT ![t] = job'[t]] BY <1>5 DEF TypeOK
  <2> QED BY <1>2, <1>4, <2>2, <2>3, AloneStep
<1>6. ASSUME NEW goal \in Removals \cup Additions,
             job' = [job EXCEPT ![t] = Walk(goal, configs)],
             goal \in Additions => ~job[t].expired
      PROVE  AccessInv'
  <2>1. job'[t] = Walk(goal, configs') /\ job' = [job EXCEPT ![t] = job'[t]]
    BY <1>4, <1>6 DEF TypeOK
  <2>2. goal \in Additions => package' BY <1>1, <1>2, <1>3, <1>6 DEF JobInv, PackageHeld
  <2>3. JobInv(t)' BY <1>4, <2>1, <2>2, WalkInv DEF Books
  <2> QED BY <1>2, <1>4, <2>1, <2>3, AloneStep
<1> QED BY <1>1, <1>5, <1>6


\* A call about a plain inbound changes the job of the task that makes it.
LEMMA VisitFields ==
  ASSUME TypeOK, NEW t, NEW goals, NEW p, Visits(t, goals, p)
  PROVE  /\ t \in Tasks /\ p \in job[t].todo /\ p \in Inbounds
         /\ job[t].pc = "plain" /\ job[t].goal \in goals
         /\ job' = [job EXCEPT ![t] = job'[t]]
         /\ job'[t].pc = "plain" /\ job'[t].goal = job[t].goal
         /\ job'[t].todo = job[t].todo \ {p}
         /\ job'[t].ok = (job[t].ok /\ p \in online)
<1>1. t \in Tasks /\ job[t] \in Job /\ JobOK(job[t]) BY TypeParts DEF Visits
<1> DEFINE j == [job[t] EXCEPT !.todo = job[t].todo \ {p}, !.ok = job[t].ok /\ p \in online]
<1>2. job' = [job EXCEPT ![t] = j] BY VisitOK
<1>3. /\ j.pc = job[t].pc /\ j.goal = job[t].goal /\ j.todo = job[t].todo \ {p}
      /\ j.ok = (job[t].ok /\ p \in online)
  BY <1>1 DEF Job
<1> HIDE DEF j
<1>4. job'[t] = j /\ job' = [job EXCEPT ![t] = job'[t]] BY <1>1, <1>2 DEF TypeOK
<1>5. /\ p \in job[t].todo /\ job[t].pc = "plain" /\ job[t].goal \in goals
      /\ job[t].todo \subseteq Inbounds
  BY <1>1 DEF Visits, JobOK
<1> QED BY <1>1, <1>3, <1>4, <1>5

LEMMA PlainRemovalSafe ==
  ASSUME TypeOK, AccessInv, NEW t, NEW p, RemoveFromInbound(t, p) PROVE AccessInv'
<1>1. Visits(t, Removals, p) BY DEF RemoveFromInbound
<1>2. /\ t \in Tasks /\ p \in Inbounds /\ job' = [job EXCEPT ![t] = job'[t]]
      /\ job[t].pc = "plain" /\ job[t].goal \in Removals
      /\ job'[t].pc = "plain" /\ job'[t].goal = job[t].goal
      /\ job'[t].todo = job[t].todo \ {p} /\ job'[t].ok = (job[t].ok /\ p \in online)
  BY <1>1, VisitFields
<1>3. Alone(t) /\ JobInv(t) /\ Books BY <1>2, AtWorkAlone
<1>4. /\ p \in online => clients' = clients \ {p}
      /\ clients \ {p} \subseteq clients' /\ clients' \subseteq clients
  BY DEF RemoveFromInbound, RemovesClient
<1>5. /\ sub' = sub /\ unfinished' = unfinished /\ package' = package
      /\ configs' = IF job[t].goal = "unassign" /\ p \in online THEN configs \ {p} ELSE configs
      /\ Notes(t, p, p \in online)
  BY DEF RemoveFromInbound
<1>6. Stranded' = Stranded /\ Subaccounts("active")' = Subaccounts("active")
  BY <1>5 DEF Stranded, Subaccounts
<1>7. RowsCover' BY <1>3, <1>4, <1>5, <1>6 DEF Books, RowsCover
<1>8. Served'
  BY <1>2, <1>3, <1>4, <1>5, <1>6, AccessAssumption DEF Books, Served, Subaccounts
<1>9. NoPackageNoAccess'
  BY <1>3, <1>4, <1>5, <1>6 DEF Books, NoPackageNoAccess, Notes
<1>10. Removed(t)' BY <1>2, <1>3, <1>4 DEF JobInv, Removed
<1>11. Unbound(t)' BY <1>2, <1>3, <1>4, <1>5 DEF JobInv, Unbound, Notes
<1>12. JobInv(t)'
  BY <1>2, <1>10, <1>11 DEF JobInv, Restored, Underway, PackageHeld
<1> QED BY <1>2, <1>3, <1>7, <1>8, <1>9, <1>12, AloneStep DEF Books

LEMMA PlainAdditionSafe ==
  ASSUME TypeOK, AccessInv, NEW t, NEW p, AddToInbound(t, p) PROVE AccessInv'
<1>1. Visits(t, Additions, p) BY DEF AddToInbound
<1>2. /\ t \in Tasks /\ p \in Inbounds /\ job' = [job EXCEPT ![t] = job'[t]]
      /\ job[t].pc = "plain" /\ job[t].goal \in Additions
      /\ job'[t].pc = "plain" /\ job'[t].goal = job[t].goal
      /\ job'[t].todo = job[t].todo \ {p} /\ job'[t].ok = (job[t].ok /\ p \in online)
  BY <1>1, VisitFields
<1>3. Alone(t) /\ JobInv(t) /\ Books /\ package
  BY <1>2, AtWorkAlone DEF JobInv, PackageHeld
<1>4. /\ sub' = sub /\ unfinished' = unfinished /\ package' = package
      /\ \/ configs' = configs \cup {p} /\ clients \subseteq clients'
            /\ clients' \subseteq clients \cup {p} /\ (p \in online => p \in clients')
         \/ p \notin online /\ configs' = configs /\ clients' = clients
  BY DEF AddToInbound, AddsClient, binding
<1>5. Stranded' = Stranded /\ Subaccounts("active")' = Subaccounts("active")
  BY <1>4 DEF Stranded, Subaccounts
<1>6. RowsCover'
  BY <1>2, <1>3, <1>4, <1>5, AccessAssumption DEF Books, RowsCover
<1>7. Served' BY <1>3, <1>4, <1>5 DEF Books, Served
<1>8. NoPackageNoAccess' BY <1>3, <1>4 DEF NoPackageNoAccess
<1>9. Restored(t)' BY <1>2, <1>3, <1>4 DEF JobInv, Restored
<1>10. JobInv(t)'
  BY <1>2, <1>3, <1>4, <1>9 DEF JobInv, Removed, Unbound, Underway, PackageHeld
<1> QED BY <1>2, <1>3, <1>6, <1>7, <1>8, <1>10, AloneStep DEF Books

-----------------------------------------------------------------------------
(* The steps of the visit of a routed node. *)

\* What saving the row of p, active or inactive, does to the lists of rows.
LEMMA RowActive ==
  ASSUME TypeOK, NEW p \in Routed, sub' = [sub EXCEPT ![p] = "active"]
  PROVE  /\ Subaccounts("active")' = Subaccounts("active") \cup {p}
         /\ Subaccounts("inactive")' = Subaccounts("inactive") \ {p}
BY DEF TypeOK, Subaccounts

LEMMA RowInactive ==
  ASSUME TypeOK, NEW p \in Routed, sub' = [sub EXCEPT ![p] = "inactive"]
  PROVE  Subaccounts("active")' = Subaccounts("active") \ {p}
BY DEF TypeOK, Subaccounts

\* What noting the visit of p does to what is stranded.
LEMMA VisitNoted ==
  ASSUME TypeOK, NEW p \in Routed, NEW note, unfinished' = [unfinished EXCEPT ![p] = note]
  PROVE  /\ unfinished'[p] = note
         /\ \A n \in Routed \ {p} : unfinished'[n] = unfinished[n]
BY DEF TypeOK

\* What is left to show of a step of a removal, and of a step of an addition.
LEMMA RemovalStep ==
  ASSUME TypeOK, NEW t \in Tasks, Alone(t), job' = [job EXCEPT ![t] = job'[t]],
         job'[t].goal \in Removals, job'[t].pc \in {"routed"} \cup Leaving,
         Books', Removed(t)', Unbound(t)', Underway(t)'
  PROVE  AccessInv'
<1>1. Restored(t)' /\ PackageHeld(t)' BY DEF Restored, PackageHeld
<1> QED BY <1>1, AloneStep DEF JobInv

LEMMA AdditionStep ==
  ASSUME TypeOK, NEW t \in Tasks, Alone(t), job' = [job EXCEPT ![t] = job'[t]],
         job'[t].goal \in Additions, package',
         RowsCover', Served', Restored(t)', Underway(t)'
  PROVE  AccessInv'
<1>1. Removed(t)' /\ Unbound(t)' /\ PackageHeld(t)' BY DEF Removed, Unbound, PackageHeld
<1>2. NoPackageNoAccess' BY DEF NoPackageNoAccess
<1> QED BY <1>1, <1>2, AloneStep DEF JobInv, Books

\* Where the removal of a client starts from.
LEMMA RemoveRouteSafe ==
  ASSUME TypeOK, AccessInv, NEW t \in Tasks, NEW p \in Routed, RemoveRoute(t, p)
  PROVE  AccessInv'
<1>1. /\ job[t].pc = "routed" /\ job[t].goal \in Removals /\ p \in job[t].todo
      /\ unfinished' = [unfinished EXCEPT ![p] = "removal"]
      /\ sub' = sub /\ configs' = configs /\ clients' = clients
      /\ package' = package /\ unconfirmed' = unconfirmed
      /\ Proceeds(t, p, "remove", p \in online)
  BY DEF RemoveRoute, Enters, rows, binding
<1>2. /\ job' = [job EXCEPT ![t] = job'[t]] /\ job'[t].pc = "remove" /\ job'[t].at = {p}
      /\ job'[t].todo = job[t].todo \ {p} /\ job'[t].ok = job[t].ok /\ job'[t].goal = job[t].goal
  <2>1. PICK sure \in BOOLEAN : Proceeds(t, p, "remove", sure)
    <3>1. CASE p \in online
      <4>1. (p \in online) = TRUE BY <3>1
      <4> QED BY <4>1 DEF RemoveRoute, Proceeds
    <3>2. CASE p \notin online
      <4>1. (p \in online) = FALSE BY <3>2
      <4> QED BY <4>1 DEF RemoveRoute, Proceeds
    <3> QED BY <3>1, <3>2
  <2> QED BY <2>1, ProceedsFields
<1>3. Alone(t) /\ JobInv(t) /\ Books BY <1>1, AtWorkAlone
<1>4. job[t].todo \subseteq Subaccounts("active") BY <1>1, <1>3 DEF JobInv, Underway
<1>5. unfinished'[p] = "removal" /\ \A n \in Routed \ {p} : unfinished'[n] = unfinished[n]
  BY <1>1, VisitNoted
<1>6. Subaccounts("active")' = Subaccounts("active") BY <1>1 DEF Subaccounts
<1>7. Stranded' = Stranded BY <1>1, <1>4, <1>5 DEF Stranded, Subaccounts
<1>8. Left(t)' = Left(t) BY <1>1, <1>2, <1>7 DEF Left
<1>9. Books'
  BY <1>1, <1>3, <1>5, <1>6, <1>7
     DEF Books, RowsCover, Served, NoPackageNoAccess, Subaccounts
<1>10. Removed(t)' /\ Unbound(t)'
  BY <1>1, <1>2, <1>3, <1>8 DEF JobInv, Removed, Unbound
<1>11. Underway(t)' BY <1>1, <1>2, <1>4, <1>5, <1>6 DEF Underway
<1> QED BY <1>1, <1>2, <1>3, <1>9, <1>10, <1>11, RemovalStep

LEMMA RemoveClientSafe ==
  ASSUME TypeOK, AccessInv, NEW t \in Tasks, NEW p \in Routed, RemoveClient(t, p)
  PROVE  AccessInv'
<1>1. /\ job[t].pc = "remove" /\ job[t].at = {p}
      /\ sub' = sub /\ configs' = configs /\ unfinished' = unfinished /\ package' = package
      /\ clients' \subseteq clients /\ clients \ {p} \subseteq clients'
      /\ p \in online => clients' = clients \ {p}
  BY DEF RemoveClient, IsAt, RemovesClient, rows
<1>2. job[t].goal \in Removals BY <1>1, TypeParts DEF JobOK
<1>3. Alone(t) /\ JobInv(t) /\ Books BY <1>1, AtWorkAlone
<1>4. job[t].todo \cup {p} \subseteq Subaccounts("active") /\ unfinished[p] = "removal"
  BY <1>1, <1>2, <1>3 DEF JobInv, Underway
<1>5. Subaccounts("active")' = Subaccounts("active") /\ Stranded' = Stranded
  BY <1>1 DEF Subaccounts, Stranded
<1>6. unconfirmed \subseteq unconfirmed' BY DEF RemoveClient, Notes
<1>7. Books'
  BY <1>1, <1>3, <1>4, <1>5, <1>6 DEF Books, RowsCover, Served, NoPackageNoAccess
<1>8. Left(t) = job[t].todo \cup Stranded \cup {p} BY <1>1 DEF Left
<1>9. CASE p \in online /\ job[t].sure
  <2>1. Proceeds(t, p, "inactive", TRUE) /\ unconfirmed' = unconfirmed
    BY <1>9 DEF RemoveClient
  <2>2. /\ job' = [job EXCEPT ![t] = job'[t]] /\ job'[t].pc = "inactive" /\ job'[t].at = {p}
        /\ job'[t].todo = job[t].todo \ {p} /\ job'[t].ok = job[t].ok
        /\ job'[t].goal = job[t].goal
    BY <2>1, ProceedsFields
  <2>3. Left(t)' = (job[t].todo \ {p}) \cup Stranded BY <1>5, <2>2 DEF Left
  <2>4. Removed(t)' /\ Unbound(t)'
    BY <1>1, <1>3, <1>8, <1>9, <2>1, <2>2, <2>3 DEF JobInv, Removed, Unbound
  <2>5. Underway(t)' BY <1>1, <1>4, <1>5, <1>9, <2>2 DEF Underway
  <2> QED BY <1>2, <1>3, <1>7, <2>2, <2>4, <2>5, RemovalStep
<1>10. CASE ~(p \in online /\ job[t].sure)
  <2>1. Leaves(t, p, FALSE) /\ Notes(t, p, FALSE) BY <1>10 DEF RemoveClient
  <2>2. /\ job' = [job EXCEPT ![t] = job'[t]] /\ job'[t].pc = "routed" /\ job'[t].at = {}
        /\ job'[t].todo = job[t].todo \ {p} /\ ~job'[t].ok /\ job'[t].goal = job[t].goal
    BY <2>1, LeavesFields
  <2>3. Left(t)' = (job[t].todo \ {p}) \cup Stranded BY <1>5, <2>2 DEF Left
  <2>4. Unbound(t)'
    <3> SUFFICES ASSUME job[t].goal = "unassign"
                 PROVE  clients' \subseteq Left(t)' \cup unconfirmed'
      BY <2>2 DEF Unbound
    <3>1. unconfirmed' = unconfirmed \cup {p} BY <2>1 DEF Notes
    <3>2. clients \subseteq Left(t) \cup unconfirmed BY <1>1, <1>3 DEF JobInv, Unbound
    <3> QED BY <1>1, <1>8, <2>3, <3>1, <3>2
  <2>5. Removed(t)' BY <2>2 DEF Removed
  <2>6. Underway(t)' BY <1>4, <1>5, <2>2 DEF Underway
  <2> QED BY <1>2, <1>3, <1>7, <2>2, <2>4, <2>5, <2>6, RemovalStep
<1> QED BY <1>9, <1>10

LEMMA MarkInactiveSafe ==
  ASSUME TypeOK, AccessInv, NEW t \in Tasks, NEW p \in Routed, MarkInactive(t, p)
  PROVE  AccessInv'
<1>1. /\ job[t].pc = "inactive" /\ job[t].at = {p}
      /\ sub' = [sub EXCEPT ![p] = "inactive"] /\ unfinished' = [unfinished EXCEPT ![p] = "none"]
      /\ configs' = configs /\ clients' = clients /\ package' = package
      /\ Notes(t, p, TRUE) /\ Leaves(t, p, TRUE)
  BY DEF MarkInactive, IsAt
<1>2. job[t].goal \in Removals BY <1>1, TypeParts DEF JobOK
<1>3. Alone(t) /\ JobInv(t) /\ Books BY <1>1, AtWorkAlone
<1>4. /\ job[t].todo \cup {p} \subseteq Subaccounts("active")
      /\ unfinished[p] = "removal" /\ p \notin clients
  BY <1>1, <1>2, <1>3 DEF JobInv, Underway
<1>5. /\ job' = [job EXCEPT ![t] = job'[t]] /\ job'[t].pc = "routed" /\ job'[t].at = {}
      /\ job'[t].todo = job[t].todo \ {p} /\ job'[t].ok = job[t].ok
      /\ job'[t].goal = job[t].goal
  <2>1. job[t].ok \in BOOLEAN BY TypeParts DEF Job
  <2> QED BY <1>1, <2>1, LeavesFields
<1>6. Subaccounts("active")' = Subaccounts("active") \ {p} BY <1>1, RowInactive
<1>7. unfinished'[p] = "none" /\ \A n \in Routed \ {p} : unfinished'[n] = unfinished[n]
  BY <1>1, VisitNoted
<1>8. Stranded' = Stranded BY <1>1, <1>4, <1>7 DEF Stranded, TypeOK
<1>9. unconfirmed \ {p} \subseteq unconfirmed' BY <1>1 DEF Notes
<1>10. Books'
  <2>1. RowsCover' BY <1>1, <1>3, <1>4, <1>6, <1>8 DEF Books, RowsCover
  <2>2. Served' BY <1>1, <1>3, <1>6, <1>7 DEF Books, Served, Subaccounts
  <2>3. NoPackageNoAccess' BY <1>1, <1>3, <1>4, <1>8, <1>9 DEF Books, NoPackageNoAccess
  <2> QED BY <2>1, <2>2, <2>3 DEF Books
<1>11. Left(t) = job[t].todo \cup Stranded BY <1>1 DEF Left
<1>12. Left(t)' = (job[t].todo \ {p}) \cup Stranded BY <1>5, <1>8 DEF Left
<1>13. Removed(t)' BY <1>1, <1>3, <1>4, <1>5, <1>11, <1>12 DEF JobInv, Removed
<1>14. Unbound(t)'
  BY <1>1, <1>3, <1>4, <1>5, <1>9, <1>11, <1>12 DEF JobInv, Unbound
<1>15. Underway(t)' BY <1>4, <1>5, <1>6 DEF Underway
<1> QED BY <1>2, <1>3, <1>5, <1>10, <1>13, <1>14, <1>15, RemovalStep

LEMMA AddClientSafe ==
  ASSUME TypeOK, AccessInv, NEW t \in Tasks, NEW p \in Routed, AddClient(t, p)
  PROVE  AccessInv'
<1>1. /\ job[t].pc = "routed" /\ job[t].goal \in Additions /\ p \in job[t].todo
      /\ sub' = sub /\ configs' = configs /\ package' = package
      /\ unfinished' = [unfinished EXCEPT ![p] = "addition"]
      /\ clients \subseteq clients' /\ clients' \subseteq clients \cup {p}
      /\ p \in online => p \in clients'
  BY DEF AddClient, Enters, AddsClient, rows, binding
<1>2. PICK pc \in {"row", "retract"} :
        Proceeds(t, p, pc, FALSE) /\ (pc = "row" => p \in online)
  BY DEF AddClient
<1>3. /\ job' = [job EXCEPT ![t] = job'[t]] /\ job'[t].pc = pc /\ job'[t].at = {p}
      /\ job'[t].todo = job[t].todo \ {p} /\ job'[t].ok = job[t].ok
      /\ job'[t].sure = FALSE /\ job'[t].goal = job[t].goal
  BY <1>2, ProceedsFields
<1>4. Alone(t) /\ JobInv(t) /\ Books /\ package
  BY <1>1, AtWorkAlone DEF JobInv, PackageHeld
<1>5. unfinished'[p] = "addition" /\ \A n \in Routed \ {p} : unfinished'[n] = unfinished[n]
  BY <1>1, VisitNoted
<1>6. /\ Subaccounts("active")' = Subaccounts("active")
      /\ Subaccounts("inactive")' = Subaccounts("inactive")
  BY <1>1 DEF Subaccounts
<1>7. Stranded \subseteq Stranded' /\ p \in Stranded' \cup Subaccounts("active")
  BY <1>1, <1>5 DEF Stranded, Subaccounts
<1>8. RowsCover' BY <1>1, <1>4, <1>6, <1>7, AccessAssumption DEF Books, RowsCover
<1>9. Served'
  <2> SUFFICES ASSUME NEW n \in Subaccounts("active"), unfinished'[n] = "none"
               PROVE  n \in clients'
    BY <1>6 DEF Served
  <2>1. n \in Routed \ {p} /\ unfinished[n] = "none" BY <1>5 DEF Subaccounts
  <2> QED BY <1>1, <1>4, <2>1 DEF Books, Served
<1>10. Restored(t)'
  <2> SUFFICES ASSUME job[t].goal = "restore", job[t].ok PROVE Restored(t)'
    BY <1>3 DEF Restored
  <2>1. configs \subseteq clients /\ Subaccounts("inactive") \subseteq job[t].todo \cup job[t].at
    BY <1>1, <1>4 DEF JobInv, Restored
  <2>2. job[t].at = {} BY <1>1, TypeParts DEF JobOK
  <2> QED BY <1>1, <1>3, <1>6, <2>1, <2>2 DEF Restored
<1>11. Underway(t)' BY <1>1, <1>2, <1>3, <1>5 DEF Underway
<1> QED BY <1>1, <1>3, <1>4, <1>8, <1>9, <1>10, <1>11, AdditionStep

LEMMA SaveSubaccountSafe ==
  ASSUME TypeOK, AccessInv, NEW t \in Tasks, NEW p \in Routed, SaveSubaccount(t, p)
  PROVE  AccessInv'
<1>1. /\ job[t].pc = "row" /\ job[t].at = {p}
      /\ sub' = [sub EXCEPT ![p] = "active"] /\ unfinished' = unfinished
      /\ configs' = configs /\ clients' = clients /\ package' = package
      /\ Proceeds(t, p, "route", FALSE)
  BY DEF SaveSubaccount, IsAt, binding
<1>2. job[t].goal \in Additions BY <1>1, TypeParts DEF JobOK
<1>3. /\ job' = [job EXCEPT ![t] = job'[t]] /\ job'[t].pc = "route" /\ job'[t].at = {p}
      /\ job'[t].todo = job[t].todo \ {p} /\ job'[t].ok = job[t].ok
      /\ job'[t].goal = job[t].goal
  BY <1>1, ProceedsFields
<1>4. Alone(t) /\ JobInv(t) /\ Books /\ package
  BY <1>1, <1>2, AtWorkAlone DEF JobInv, PackageHeld
<1>5. p \in clients /\ unfinished[p] = "addition" BY <1>1, <1>4 DEF JobInv, Underway
<1>6. /\ Subaccounts("active")' = Subaccounts("active") \cup {p}
      /\ Subaccounts("inactive")' = Subaccounts("inactive") \ {p}
  BY <1>1, RowActive
<1>7. Stranded \subseteq Stranded' \cup Subaccounts("active")'
  BY <1>1, <1>6 DEF Stranded, Subaccounts, TypeOK
<1>8. RowsCover' BY <1>1, <1>4, <1>6, <1>7 DEF Books, RowsCover
<1>9. Served' BY <1>1, <1>4, <1>5, <1>6 DEF Books, Served
<1>10. Restored(t)' BY <1>1, <1>3, <1>4, <1>6 DEF JobInv, Restored
<1>11. Underway(t)' BY <1>1, <1>2, <1>3, <1>5, <1>6 DEF Underway
<1> QED BY <1>1, <1>2, <1>3, <1>4, <1>8, <1>9, <1>10, <1>11, AdditionStep

LEMMA AddRouteSafe ==
  ASSUME TypeOK, AccessInv, NEW t \in Tasks, NEW p \in Routed, AddRoute(t, p)
  PROVE  AccessInv'
<1>1. /\ job[t].pc = "route" /\ job[t].at = {p}
      /\ sub' = sub /\ configs' = configs /\ clients' = clients /\ package' = package
  BY DEF AddRoute, IsAt, rows, binding
<1>2. job[t].goal \in Additions BY <1>1, TypeParts DEF JobOK
<1>3. Alone(t) /\ JobInv(t) /\ Books /\ package
  BY <1>1, <1>2, AtWorkAlone DEF JobInv, PackageHeld
<1>4. p \in clients /\ p \in Subaccounts("active") /\ unfinished[p] = "addition"
  BY <1>1, <1>3 DEF JobInv, Underway
<1>5. \A state : Subaccounts(state)' = Subaccounts(state) BY <1>1 DEF Subaccounts
<1>6. p \notin Subaccounts("inactive") BY <1>4 DEF Subaccounts
<1>7. CASE p \in online
  <2>1. Leaves(t, p, TRUE) /\ unfinished' = [unfinished EXCEPT ![p] = "none"]
    BY <1>7 DEF AddRoute
  <2>2. /\ job' = [job EXCEPT ![t] = job'[t]] /\ job'[t].pc = "routed" /\ job'[t].at = {}
        /\ job'[t].todo = job[t].todo \ {p} /\ job'[t].ok = job[t].ok
        /\ job'[t].goal = job[t].goal
    <3>1. job[t].ok \in BOOLEAN BY TypeParts DEF Job
    <3> QED BY <2>1, <3>1, LeavesFields
  <2>3. \A n \in Routed \ {p} : unfinished'[n] = unfinished[n] BY <2>1, VisitNoted
  <2>4. Stranded' = Stranded BY <1>1, <1>4, <2>3 DEF Stranded, Subaccounts
  <2>5. RowsCover' BY <1>1, <1>3, <1>5, <2>4 DEF Books, RowsCover
  <2>6. Served' BY <1>1, <1>3, <1>4, <1>5, <2>3 DEF Books, Served, Subaccounts
  <2>7. Restored(t)' BY <1>1, <1>3, <1>5, <1>6, <2>2 DEF JobInv, Restored
  <2>8. Underway(t)' BY <1>2, <2>2 DEF Underway
  <2> QED BY <1>1, <1>2, <1>3, <2>2, <2>5, <2>6, <2>7, <2>8, AdditionStep
<1>8. CASE p \notin online
  <2>1. Proceeds(t, p, "undo", FALSE) /\ unfinished' = unfinished BY <1>8 DEF AddRoute
  <2>2. /\ job' = [job EXCEPT ![t] = job'[t]] /\ job'[t].pc = "undo" /\ job'[t].at = {p}
        /\ job'[t].todo = job[t].todo \ {p} /\ job'[t].ok = job[t].ok
        /\ job'[t].goal = job[t].goal
    BY <2>1, ProceedsFields
  <2>3. Stranded' = Stranded BY <1>1, <2>1 DEF Stranded
  <2>4. RowsCover' /\ Served'
    BY <1>1, <1>3, <1>5, <2>1, <2>3 DEF Books, RowsCover, Served
  <2>5. Restored(t)' BY <1>1, <1>3, <1>5, <2>2 DEF JobInv, Restored
  <2>6. Underway(t)' BY <1>2, <1>4, <1>5, <2>1, <2>2 DEF Underway
  <2> QED BY <1>1, <1>2, <1>3, <2>2, <2>4, <2>5, <2>6, AdditionStep
<1> QED BY <1>7, <1>8

LEMMA UndoClientSafe ==
  ASSUME TypeOK, AccessInv, NEW t \in Tasks, NEW p \in Routed, UndoClient(t, p)
  PROVE  AccessInv'
<1>1. /\ job[t].pc = "undo" /\ job[t].at = {p}
      /\ sub' = sub /\ configs' = configs /\ unfinished' = unfinished /\ package' = package
      /\ clients \ {p} \subseteq clients' /\ clients' \subseteq clients
      /\ p \in online => p \notin clients'
  BY DEF UndoClient, IsAt, RemovesClient, rows, binding
<1>2. PICK sure \in BOOLEAN : Proceeds(t, p, "retract", sure) /\ (sure => p \in online)
  <2>1. CASE p \in online
    <3>1. (p \in online) = TRUE BY <2>1
    <3> QED BY <3>1 DEF UndoClient, Proceeds
  <2>2. CASE p \notin online
    <3>1. (p \in online) = FALSE BY <2>2
    <3> QED BY <3>1 DEF UndoClient, Proceeds
  <2> QED BY <2>1, <2>2
<1>3. job[t].goal \in Additions BY <1>1, TypeParts DEF JobOK
<1>4. /\ job' = [job EXCEPT ![t] = job'[t]] /\ job'[t].pc = "retract" /\ job'[t].at = {p}
      /\ job'[t].todo = job[t].todo \ {p} /\ job'[t].ok = job[t].ok
      /\ job'[t].sure = sure /\ job'[t].goal = job[t].goal
  BY <1>2, ProceedsFields
<1>5. Alone(t) /\ JobInv(t) /\ Books /\ package
  BY <1>1, <1>3, AtWorkAlone DEF JobInv, PackageHeld
<1>6. unfinished[p] = "addition" BY <1>1, <1>5 DEF JobInv, Underway
<1>7. Stranded' = Stranded /\ \A state : Subaccounts(state)' = Subaccounts(state)
  BY <1>1 DEF Stranded, Subaccounts
<1>8. RowsCover' BY <1>1, <1>5, <1>7 DEF Books, RowsCover
<1>9. Served' BY <1>1, <1>5, <1>6, <1>7 DEF Books, Served
<1>10. p \notin configs BY AccessAssumption DEF TypeOK
<1>11. Restored(t)' BY <1>1, <1>4, <1>5, <1>7, <1>10 DEF JobInv, Restored
<1>12. Underway(t)' BY <1>1, <1>2, <1>3, <1>4, <1>6 DEF Underway
<1> QED BY <1>1, <1>3, <1>4, <1>5, <1>8, <1>9, <1>11, <1>12, AdditionStep

LEMMA RetractSafe ==
  ASSUME TypeOK, AccessInv, NEW t \in Tasks, NEW p \in Routed, Retract(t, p)
  PROVE  AccessInv'
<1>1. /\ job[t].pc = "retract" /\ job[t].at = {p}
      /\ sub' = [sub EXCEPT ![p] = "inactive"]
      /\ unfinished' = IF job[t].sure THEN [unfinished EXCEPT ![p] = "none"] ELSE unfinished
      /\ configs' = configs /\ clients' = clients /\ package' = package
      /\ Leaves(t, p, FALSE)
  BY DEF Retract, IsAt, binding
<1>2. job[t].goal \in Additions BY <1>1, TypeParts DEF JobOK
<1>3. /\ job' = [job EXCEPT ![t] = job'[t]] /\ job'[t].pc = "routed" /\ job'[t].at = {}
      /\ ~job'[t].ok /\ job'[t].goal = job[t].goal
  BY <1>1, LeavesFields
<1>4. Alone(t) /\ JobInv(t) /\ Books /\ package
  BY <1>1, <1>2, AtWorkAlone DEF JobInv, PackageHeld
<1>5. unfinished[p] = "addition" /\ (job[t].sure => p \notin clients)
  BY <1>1, <1>4 DEF JobInv, Underway
<1>6. Subaccounts("active")' = Subaccounts("active") \ {p} BY <1>1, RowInactive
<1>7. \A n \in Routed \ {p} : unfinished'[n] = unfinished[n] BY <1>1, VisitNoted
<1>8. Stranded \ {p} \subseteq Stranded' BY <1>1, <1>7 DEF Stranded, TypeOK
<1>9. p \in clients => p \in Stranded' BY <1>1, <1>5 DEF Stranded, TypeOK
<1>10. RowsCover' BY <1>1, <1>4, <1>6, <1>8, <1>9 DEF Books, RowsCover
<1>11. Served' BY <1>1, <1>4, <1>6, <1>7 DEF Books, Served, Subaccounts
<1>12. Restored(t)' /\ Underway(t)' BY <1>2, <1>3 DEF Restored, Underway
<1> QED BY <1>1, <1>2, <1>3, <1>4, <1>10, <1>11, <1>12, AdditionStep

LEMMA BatchAddSafe ==
  ASSUME TypeOK, AccessInv, NEW t \in Tasks, NEW p \in Routed, BatchAdd(t, p)
  PROVE  AccessInv'
<1>1. /\ job[t].pc = "routed" /\ job[t].goal = "assign"
      /\ sub' = sub /\ configs' = configs /\ package' = package
      /\ unfinished' = [unfinished EXCEPT ![p] = "addition"]
      /\ clients \subseteq clients' /\ clients' \subseteq clients \cup {p}
      /\ p \in online => p \in clients'
  BY DEF BatchAdd, Enters, AddsClient, rows, binding
<1>2. Alone(t) /\ JobInv(t) /\ Books /\ package
  BY <1>1, AtWorkAlone DEF JobInv, PackageHeld
<1>3. unfinished'[p] = "addition" /\ \A n \in Routed \ {p} : unfinished'[n] = unfinished[n]
  BY <1>1, VisitNoted
<1>4. Subaccounts("active")' = Subaccounts("active") BY <1>1 DEF Subaccounts
<1>5. Stranded \subseteq Stranded' /\ p \in Stranded' \cup Subaccounts("active")
  BY <1>1, <1>3 DEF Stranded, Subaccounts
<1>6. RowsCover' BY <1>1, <1>2, <1>4, <1>5, AccessAssumption DEF Books, RowsCover
<1>7. Served' BY <1>1, <1>2, <1>3, <1>4 DEF Books, Served, Subaccounts
<1>8. CASE p \in online /\ Proceeds(t, p, "batch", FALSE)
  <2>1. /\ job' = [job EXCEPT ![t] = job'[t]] /\ job'[t].pc = "batch" /\ job'[t].at = {p}
        /\ job'[t].goal = "assign"
    BY <1>1, <1>8, ProceedsFields
  <2>2. Restored(t)' /\ Underway(t)' BY <1>1, <1>3, <1>8, <2>1 DEF Restored, Underway
  <2> QED BY <1>1, <1>2, <1>6, <1>7, <2>1, <2>2, AdditionStep
<1>9. CASE Leaves(t, p, FALSE)
  <2>1. /\ job' = [job EXCEPT ![t] = job'[t]] /\ job'[t].pc = "routed"
        /\ job'[t].goal = "assign"
    BY <1>1, <1>9, LeavesFields
  <2>2. Restored(t)' /\ Underway(t)' BY <2>1 DEF Restored, Underway
  <2> QED BY <1>1, <1>2, <1>6, <1>7, <2>1, <2>2, AdditionStep
<1> QED BY <1>8, <1>9 DEF BatchAdd

LEMMA SaveBatchSafe ==
  ASSUME TypeOK, AccessInv, NEW t \in Tasks, NEW p \in Routed, SaveBatch(t, p)
  PROVE  AccessInv'
<1>1. /\ job[t].pc = "batch" /\ job[t].at = {p}
      /\ sub' = [sub EXCEPT ![p] = "active"] /\ unfinished' = [unfinished EXCEPT ![p] = "none"]
      /\ configs' = configs /\ clients' = clients /\ package' = package
      /\ Leaves(t, p, TRUE)
  BY DEF SaveBatch, IsAt, binding
<1>2. job[t].goal \in Additions BY <1>1, TypeParts DEF JobOK
<1>3. /\ job' = [job EXCEPT ![t] = job'[t]] /\ job'[t].pc = "routed" /\ job'[t].at = {}
      /\ job'[t].todo = job[t].todo \ {p} /\ job'[t].ok = job[t].ok
      /\ job'[t].goal = job[t].goal
  <2>1. job[t].ok \in BOOLEAN BY TypeParts DEF Job
  <2> QED BY <1>1, <2>1, LeavesFields
<1>4. Alone(t) /\ JobInv(t) /\ Books /\ package
  BY <1>1, <1>2, AtWorkAlone DEF JobInv, PackageHeld
<1>5. p \in clients BY <1>1, <1>4 DEF JobInv, Underway
<1>6. /\ Subaccounts("active")' = Subaccounts("active") \cup {p}
      /\ Subaccounts("inactive")' = Subaccounts("inactive") \ {p}
  BY <1>1, RowActive
<1>7. \A n \in Routed \ {p} : unfinished'[n] = unfinished[n] BY <1>1, VisitNoted
<1>8. Stranded \ {p} \subseteq Stranded' BY <1>1, <1>7 DEF Stranded, TypeOK
<1>9. RowsCover' BY <1>1, <1>4, <1>6, <1>8 DEF Books, RowsCover
<1>10. Served' BY <1>1, <1>4, <1>5, <1>6, <1>7 DEF Books, Served, Subaccounts
<1>11. Restored(t)' BY <1>1, <1>3, <1>4, <1>6 DEF JobInv, Restored
<1>12. Underway(t)' BY <1>2, <1>3 DEF Underway
<1> QED BY <1>1, <1>2, <1>3, <1>4, <1>9, <1>10, <1>11, <1>12, AdditionStep

LEMMA CallSafe ==
  ASSUME TypeOK, AccessInv, NEW t \in Tasks, Call(t) PROVE AccessInv'
<1>1. ASSUME NEW p \in Routed, Visit(t, p) PROVE AccessInv'
  BY <1>1, RemoveRouteSafe, RemoveClientSafe, MarkInactiveSafe, AddClientSafe,
     SaveSubaccountSafe, AddRouteSafe, UndoClientSafe, RetractSafe, BatchAddSafe,
     SaveBatchSafe DEF Visit
<1> QED BY <1>1, PlainRemovalSafe, PlainAdditionSafe DEF Call

-----------------------------------------------------------------------------
(* From the inbounds to the routed nodes, and the end of a task. *)

LEMMA PlainDoneSafe ==
  ASSUME TypeOK, AccessInv, NEW t \in Tasks, PlainDone(t) PROVE AccessInv'
<1>1. /\ job[t].pc = "plain" /\ job[t].todo = {} /\ job[t].at = {}
      /\ job' = [job EXCEPT ![t] = job'[t]]
      /\ job'[t].pc = "routed" /\ job'[t].goal = job[t].goal /\ job'[t].ok = job[t].ok
      /\ job'[t].at = {}
      /\ job'[t].todo = IF job[t].goal \in Removals THEN Subaccounts("active")
                        ELSE IF job[t].goal = "assign" THEN Routed \ Subaccounts("none")
                        ELSE IF job[t].goal = "resync" THEN {}
                        ELSE Subaccounts("inactive")
  <2>1. job[t] \in Job /\ JobOK(job[t]) BY TypeParts
  <2> QED BY <2>1 DEF PlainDone, TypeOK, Job, JobOK
<1>2. Alone(t) /\ JobInv(t) /\ Books BY <1>1, AtWorkAlone
<1>3. configs' = configs /\ clients' = clients /\ UNCHANGED access
      /\ package' = package /\ unconfirmed' = unconfirmed
  BY DEF PlainDone, access, rows, binding
<1>4. Books' BY <1>2, <1>3, BooksStay
<1>5. Stranded' = Stranded /\ \A state : Subaccounts(state)' = Subaccounts(state)
  BY <1>3 DEF Subaccounts, Stranded, access, rows
<1>6. job[t].goal \in Removals => Left(t)' = Subaccounts("active") \cup Stranded
  BY <1>1, <1>5 DEF Left
<1>7. Removed(t)'
  <2> SUFFICES ASSUME job[t].goal \in Removals, job[t].ok PROVE clients \subseteq Left(t)'
    BY <1>1, <1>3 DEF Removed
  <2>1. clients \cap Inbounds = {} BY <1>1, <1>2 DEF JobInv, Removed
  <2>2. clients \subseteq Subaccounts("active") \cup Stranded
    BY <1>2, <2>1 DEF Books, RowsCover, TypeOK, Points
  <2> QED BY <1>6, <2>2
<1>8. Unbound(t)'
  <2> SUFFICES ASSUME job[t].goal = "unassign" PROVE clients \subseteq Left(t)' \cup unconfirmed
    BY <1>1, <1>3 DEF Unbound
  <2>1. clients \cap Inbounds \subseteq unconfirmed BY <1>1, <1>2 DEF JobInv, Unbound
  <2>2. clients \subseteq Subaccounts("active") \cup Stranded \cup unconfirmed
    BY <1>2, <2>1 DEF Books, RowsCover, TypeOK, Points
  <2> QED BY <1>6, <2>2
<1>9. Restored(t)'
  <2> SUFFICES ASSUME job[t].goal = "restore", job[t].ok PROVE Restored(t)'
    BY <1>1 DEF Restored
  <2>1. configs \subseteq clients BY <1>1, <1>2 DEF JobInv, Restored
  <2>2. job'[t].todo = Subaccounts("inactive") BY <1>1
  <2> QED BY <1>1, <1>3, <1>5, <2>1, <2>2 DEF Restored
<1>10. Underway(t)' BY <1>1, <1>5 DEF Underway
<1>11. PackageHeld(t)' BY <1>1, <1>2, <1>3 DEF JobInv, PackageHeld
<1> QED BY <1>1, <1>2, <1>4, <1>7, <1>8, <1>9, <1>10, <1>11, AloneStep DEF JobInv

\* A removal that ends without a failure has left no client but the stranded
\* ones ...
LEMMA RemovalComplete ==
  ASSUME AccessInv, NEW t, NEW goal \in Removals, Finishes(t, goal), job[t].ok
  PROVE  Out
<1>1. t \in Tasks /\ job[t].pc = "routed" /\ job[t].todo = {} /\ job[t].goal \in Removals
  BY DEF Finishes
<1>2. Removed(t) BY <1>1 DEF AccessInv
<1>3. Left(t) = Stranded BY <1>1 DEF Left
<1> QED BY <1>1, <1>2, <1>3 DEF Removed, Out

\* ... and a restoration has missed no access point.
LEMMA RestorationComplete ==
  ASSUME TypeOK, AccessInv, NEW t, Finishes(t, "restore"), job[t].ok
  PROVE  /\ configs \subseteq clients
         /\ \A n \in Routed \ Subaccounts("none") :
              n \in Subaccounts("active") /\ (n \in clients \/ unfinished[n] # "none")
<1>1. t \in Tasks /\ job[t].pc = "routed" /\ job[t].todo = {} /\ job[t].goal = "restore"
  BY DEF Finishes
<1>2. job[t].at = {} BY <1>1, TypeParts DEF JobOK
<1>3. Restored(t) BY <1>1 DEF AccessInv
<1>4. configs \subseteq clients /\ Subaccounts("inactive") = {}
  BY <1>1, <1>2, <1>3 DEF Restored
<1>5. \A n \in Routed \ Subaccounts("none") : n \in Subaccounts("active")
  BY <1>4 DEF Subaccounts, TypeOK
<1>6. \A n \in Subaccounts("active") : n \in clients \/ unfinished[n] # "none"
  BY DEF AccessInv, Served
<1> QED BY <1>4, <1>5, <1>6

LEMMA FinishSafe ==
  ASSUME TypeOK, AccessInv, NEW t \in Tasks, Finish(t) PROVE AccessInv'
<1>1. job[t].pc = "routed" /\ job' = [job EXCEPT ![t] = Idle]
  BY DEF Finish, DisableDone, LimitDone, ExpireDone, UnassignDone, RestoreDone, BestEffortDone,
         Finishes, Becomes
<1>2. Alone(t) /\ Books BY <1>1, AtWorkAlone
<1>3. job'[t] = Idle BY <1>1 DEF TypeOK
<1>4. job' = [job EXCEPT ![t] = job'[t]] BY <1>1, <1>3
<1>5. JobInv(t)'
  BY <1>3, IdleFields DEF JobInv, Removed, Unbound, Restored, Underway, PackageHeld
<1>6. sub' = sub /\ clients' = clients /\ unconfirmed' = unconfirmed /\ unfinished' = unfinished
  BY DEF Finish, DisableDone, LimitDone, ExpireDone, UnassignDone, RestoreDone, BestEffortDone,
         access, rows, binding
<1>7. Stranded' = Stranded /\ Subaccounts("active")' = Subaccounts("active")
  BY <1>6 DEF Stranded, Subaccounts
<1>8. Served' BY <1>2, <1>6, <1>7 DEF Books, Served
<1>9. RowsCover' /\ NoPackageNoAccess'
  <2>1. CASE configs' = configs /\ package' = package
    BY <1>2, <1>6, <1>7, <2>1 DEF Books, RowsCover, NoPackageNoAccess
  <2>2. CASE ExpireDone(t) /\ job[t].ok
    <3>1. clients \subseteq Stranded BY <2>2, RemovalComplete DEF ExpireDone, Out
    <3>2. clients \cap Inbounds = {} BY <3>1, AccessAssumption DEF Stranded
    <3> QED BY <1>6, <1>7, <3>1, <3>2 DEF RowsCover, NoPackageNoAccess
  <2>3. CASE UnassignDone(t)
    <3>1. /\ job[t].goal = "unassign" /\ job[t].todo = {} /\ Unbound(t)
          /\ configs' = configs
      BY <2>3 DEF UnassignDone, Finishes, AccessInv, access, rows
    <3>2. Left(t) = Stranded BY <1>1, <3>1 DEF Left
    <3>3. clients \subseteq Stranded \cup unconfirmed BY <1>1, <3>1, <3>2 DEF Unbound
    <3> QED BY <1>2, <1>6, <1>7, <3>1, <3>3 DEF Books, RowsCover, NoPackageNoAccess
  <2> QED BY <2>1, <2>2, <2>3
       DEF Finish, DisableDone, LimitDone, ExpireDone, UnassignDone, RestoreDone, BestEffortDone,
           access, rows, binding
<1> QED BY <1>2, <1>4, <1>5, <1>8, <1>9, AloneStep DEF Books

LEMMA WorldSafe == ASSUME TypeOK, AccessInv, World PROVE AccessInv'
<1>1. UNCHANGED <<access, package, unconfirmed>>
  BY DEF World, ServerDown, ServerUp, UsageChanges, PackageEnds, ControllerCrash, binding
<1>2. CASE job' = job BY <1>1, <1>2, NothingDone
<1>3. CASE ControllerCrash
  <2>1. \A u \in Tasks : job'[u] = Idle BY <1>3 DEF ControllerCrash
  <2>2. \A u \in Tasks : JobInv(u)'
    BY <2>1, IdleFields DEF JobInv, Removed, Unbound, Restored, Underway, PackageHeld
  <2>3. Books' BY <1>1, BooksStay DEF AccessInv, Books
  <2> QED BY <2>1, <2>2, <2>3 DEF AccessInv, OneAtATime, Alone, JobInv, Books
<1> QED BY <1>2, <1>3 DEF World, ServerDown, ServerUp, UsageChanges, PackageEnds

LEMMA StepSafe == TypeOK /\ AccessInv /\ Serial /\ [Next]_vars => AccessInv'
<1> SUFFICES ASSUME TypeOK, AccessInv, Serial, [Next]_vars PROVE AccessInv' OBVIOUS
<1>1. CASE Start BY <1>1, StartSafe
<1>2. CASE Work
  BY <1>2, ProvisionSafe, DecideSafe, CallSafe, PlainDoneSafe, FinishSafe DEF Work
<1>3. CASE World BY <1>3, WorldSafe
<1>4. CASE UNCHANGED vars BY <1>4, NothingDone DEF vars, binding
<1> QED BY <1>1, <1>2, <1>3, <1>4 DEF Next

\* The inductive invariant, when tasks follow one another (CheckAll and the
\* handlers): the rows cover the clients but for what an addition cut short has
\* stranded, and every task under way keeps its promise, wherever in the visit of
\* a routed node agents are lost, calls go unanswered or the controller ends.
THEOREM AccessSafe == ASSUME Serial PROVE Spec => []AccessInv
<1>1. Init => TypeOK /\ AccessInv BY InitTyped, InitSafe
<1>2. TypeOK /\ AccessInv /\ [Next]_vars => (TypeOK /\ AccessInv)'
  BY StepTyped, StepSafe
<1> QED BY <1>1, <1>2, PTL DEF Spec

\* Then every client on an agent has the row by which it can be found and
\* removed, or is one that an addition cut short has stranded: addUserToInbound
\* saves the row before the call, removeUserFromRoutedNode marks it after both
\* removals are confirmed, and only resumeUserRoutedAccess and a controller that
\* ends between addClientToInbound and UpsertUserSubaccount leave a client without.
THEOREM RowsFindEveryClient == ASSUME Serial PROVE Spec => []EveryClientHasItsRow
<1>1. TypeOK /\ AccessInv => EveryClientHasItsRow
  BY DEF TypeOK, AccessInv, RowsCover, EveryClientHasItsRow, Points
<1> QED BY <1>1, AccessTypeCorrect, AccessSafe, PTL

\* Then a user without a package has no client but the stranded ones and what an
\* unbinding could not remove, however often agents were offline and the
\* controller crashed during the expiry (CheckAll) or the unbinding
\* (unbindUserPackage).
THEOREM ExpiryRemovesEveryClient == ASSUME Serial PROVE Spec => []NoPackageNoAccess
<1>1. AccessInv => NoPackageNoAccess BY DEF AccessInv
<1> QED BY <1>1, AccessSafe, PTL

\* No step but the end of a task that has met no failure records a cut-off or
\* lifts the quota.
LEMMA FlagStep ==
  ASSUME [Next]_vars,
         \/ ~disabledEnforced /\ disabledEnforced'
         \/ ~overEnforced /\ overEnforced'
         \/ isOverLimit /\ ~isOverLimit'
  PROVE  \E t \in Tasks :
           /\ job[t].ok
           /\ \/ ~(isOverLimit /\ ~isOverLimit') /\ \E goal \in Removals : Finishes(t, goal)
              \/ /\ Finishes(t, "restore")
                 /\ ~(~disabledEnforced /\ disabledEnforced')
                 /\ ~(~overEnforced /\ overEnforced')
<1>1. CASE Start
  BY <1>1 DEF Start, ListUsersWithPackage, SetUserStatus, AssignPackage,
     RenewPackage, UnassignPackage, ResyncInbounds, flags
<1>2. CASE Decide
  BY <1>2 DEF Decide, CheckDisabled, CheckExpired, CheckQuota, DisableAccess,
     EnableAccess, Provision, flags
<1>3. ASSUME NEW t \in Tasks, Call(t) \/ PlainDone(t) PROVE FALSE
  BY <1>3 DEF Call, Visit, RemoveFromInbound, AddToInbound, RemoveRoute, RemoveClient,
     MarkInactive, AddClient, SaveSubaccount, AddRoute, UndoClient, Retract, BatchAdd,
     SaveBatch, PlainDone, flags
<1>4. ASSUME NEW t \in Tasks, Finish(t)
      PROVE  /\ job[t].ok
             /\ \/ ~(isOverLimit /\ ~isOverLimit') /\ \E goal \in Removals : Finishes(t, goal)
                \/ /\ Finishes(t, "restore")
                   /\ ~(~disabledEnforced /\ disabledEnforced')
                   /\ ~(~overEnforced /\ overEnforced')
  <2>1. CASE DisableDone(t) BY <2>1 DEF DisableDone
  <2>2. CASE LimitDone(t) BY <2>2 DEF LimitDone
  <2>3. CASE ExpireDone(t) \/ UnassignDone(t) \/ BestEffortDone(t)
    BY <2>3 DEF ExpireDone, UnassignDone, BestEffortDone, flags
  <2>4. CASE RestoreDone(t) BY <2>4 DEF RestoreDone
  <2> QED BY <1>4, <2>1, <2>2, <2>3, <2>4 DEF Finish
<1>5. CASE World
  BY <1>5 DEF World, ServerDown, ServerUp, UsageChanges, PackageEnds, ControllerCrash, flags
<1>6. CASE UNCHANGED vars BY <1>6 DEF vars, flags
<1> QED BY <1>1, <1>2, <1>3, <1>4, <1>5, <1>6 DEF Next, Work

\* Then the cut-off is recorded only when no client is left but the stranded
\* ones (SetDisabledAccessEnforced and the over-limit flags in CheckAll).
THEOREM CutOffRecordCorrect == ASSUME Serial PROVE Spec => CutOffRecordedOnlyWhenOut
<1>1. ASSUME AccessInv, [Next]_vars,
             (~disabledEnforced /\ disabledEnforced') \/ (~overEnforced /\ overEnforced')
      PROVE  Out
  <2>1. \E t \in Tasks, goal \in Removals : Finishes(t, goal) /\ job[t].ok
    BY <1>1, FlagStep
  <2> QED BY <1>1, <2>1, RemovalComplete
<1>2. AccessInv /\ [Next]_vars =>
        [(~disabledEnforced /\ disabledEnforced') \/ (~overEnforced /\ overEnforced')
           => Out]_vars
  BY <1>1
<1> QED BY <1>2, AccessSafe, PTL DEF Spec, CutOffRecordedOnlyWhenOut

\* Then the quota is lifted only when every access point is back but the routed
\* nodes whose last visit was cut short (restoreUserToInbounds and
\* resumeUserRoutedAccess in CheckAll).
THEOREM LiftCorrect == ASSUME Serial PROVE Spec => LiftedOnlyWhenWhole
<1> DEFINE Whole ==
      /\ configs \subseteq clients
      /\ \A n \in Routed \ Subaccounts("none") :
           n \in Subaccounts("active") /\ (n \in clients \/ unfinished[n] # "none")
<1>1. ASSUME TypeOK, AccessInv, [Next]_vars, isOverLimit, ~isOverLimit' PROVE Whole
  <2>1. \E t \in Tasks : Finishes(t, "restore") /\ job[t].ok BY <1>1, FlagStep
  <2> QED BY <1>1, <2>1, RestorationComplete
<1>2. TypeOK /\ AccessInv /\ [Next]_vars => [isOverLimit /\ ~isOverLimit' => Whole]_vars
  BY <1>1
<1> QED BY <1>2, AccessTypeCorrect, AccessSafe, PTL DEF Spec, LiftedOnlyWhenWhole
=============================================================================
