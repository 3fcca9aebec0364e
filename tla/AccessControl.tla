---------------------------- MODULE AccessControl ----------------------------
(***************************************************************************)
(* Who may use the servers: one user's clients on the agents, the rows of  *)
(* the controller's database that say which clients there should be, and   *)
(* the five tasks that add and remove them:                                *)
(*                                                                         *)
(*   enforcer    TrafficLimitEnforcer.CheckAll, at every tick              *)
(*   status      the administrator enables or disables the account         *)
(*   assign      the administrator (or the bot) binds a package            *)
(*   unassign    the administrator unbinds it, or deletes the package      *)
(*   reconciler  InboundClientReconciler.runOnce, every night              *)
(*                                                                         *)
(* A task reads the database, decides, then calls the agents one access    *)
(* point at a time.  An access point is a plain inbound (its row is a      *)
(* user_inbound_configs row) or a routed node (its row is a                *)
(* user_subaccounts row with is_active).  A routed node takes two calls, a *)
(* client in the inbound and a user in the routing rule, with the row's    *)
(* update between or after them: each is a step, and the controller may    *)
(* end between any two.  A call whose agent does not answer fails, carried *)
(* out or not.                                                             *)
(***************************************************************************)
EXTENDS Naturals

CONSTANTS
  Inbounds, Routed,  \* the access points of the user's package
  Tasks,             \* the tasks that run
  HandlersOverlap,   \* may a task start before another has finished?
  MaxCrashes         \* bound: crashes of the controller

Points == Inbounds \cup Routed

ASSUME AccessAssumption ==
  /\ Inbounds \cap Routed = {}
  /\ Tasks \subseteq {"enforcer", "status", "assign", "unassign", "reconciler"}
  /\ HandlersOverlap \in BOOLEAN /\ MaxCrashes \in Nat

VARIABLES
  isActive,          \* users.is_active
  disabledEnforced,  \* users.disabled_access_enforced
  isOverLimit,       \* users.is_over_limit
  overEnforced,      \* users.over_limit_enforced
  package,           \* users.package_id is set
  expired,           \* users.package_end_date is past
  configs,           \* inbounds with a user_inbound_configs row
  sub,               \* user_subaccounts, by routed node
  clients,           \* the access points where an agent has the user's client
  over,              \* billable traffic has reached the limit
  online,            \* the access points whose agent answers
  job,               \* what each task is doing
  crashes,
  unconfirmed,       \* history: the access points where the last removal by an
                     \* unbinding of this package was not confirmed
  unfinished         \* history: what the last visit of each routed node was, if
                     \* it was not confirmed to its end

flags  == <<isActive, disabledEnforced, isOverLimit, overEnforced>>
binding == <<package, expired, unconfirmed>>
rows   == <<configs, sub>>
access == <<rows, clients, unfinished>>
world  == <<over, online, crashes>>
vars   == <<flags, binding, access, world, job>>

Removals  == {"disable", "limit", "expire", "unassign"}
Additions == {"restore", "enable", "assign", "resync"}

\* Steps of the visit of one routed node: a removal still has to remove the
\* client or to mark the row; an addition to save the row, to extend the rule, to
\* take the client back or to give the row back; a batch to save the row.
Leaving  == {"remove", "inactive"}
Entering == {"row", "route", "undo", "retract", "batch"}

\* at is the routed node being visited, sure what its calls have confirmed so
\* far; active and expired are the fields of the user's row the task read first.
Job == [pc : {"idle", "decide", "provision", "plain", "routed"} \cup Leaving \cup Entering,
        goal : Removals \cup Additions \cup {"none"},
        todo : SUBSET Points, at : SUBSET Routed, sure : BOOLEAN,
        ok : BOOLEAN, active : BOOLEAN, expired : BOOLEAN]

Idle == [pc |-> "idle", goal |-> "none", todo |-> {}, at |-> {}, sure |-> FALSE,
         ok |-> TRUE, active |-> FALSE, expired |-> FALSE]
Deciding(a, x) == [Idle EXCEPT !.pc = "decide", !.active = a, !.expired = x]
Walk(goal, todo) == [Idle EXCEPT !.pc = "plain", !.goal = goal, !.todo = todo]

TypeOK ==
  /\ isActive \in BOOLEAN /\ disabledEnforced \in BOOLEAN
  /\ isOverLimit \in BOOLEAN /\ overEnforced \in BOOLEAN
  /\ package \in BOOLEAN /\ expired \in BOOLEAN
  /\ configs \subseteq Inbounds
  /\ sub \in [Routed -> {"none", "active", "inactive"}]
  /\ clients \subseteq Points
  /\ over \in BOOLEAN /\ online \subseteq Points /\ crashes \in Nat
  /\ unconfirmed \subseteq Points
  /\ unfinished \in [Routed -> {"none", "addition", "removal"}]
  /\ job \in [Tasks -> Job]
  /\ \A t \in Tasks :
       /\ job[t].pc = "plain" => job[t].todo \subseteq Inbounds
       /\ job[t].pc \in {"routed"} \cup Leaving \cup Entering => job[t].todo \subseteq Routed
       /\ job[t].goal # "none" <=> job[t].pc \in {"plain", "routed"} \cup Leaving \cup Entering
       /\ job[t].at # {} => job[t].pc \in Leaving \cup Entering
       /\ job[t].pc \in Leaving => job[t].goal \in Removals
       /\ job[t].pc \in Entering => job[t].goal \in Additions

\* A new user, or one whose package has been provisioned everywhere.
Init ==
  /\ isActive = TRUE /\ disabledEnforced = FALSE
  /\ isOverLimit = FALSE /\ overEnforced = FALSE
  /\ package \in BOOLEAN /\ expired = FALSE
  /\ configs = IF package THEN Inbounds ELSE {}
  /\ sub = [n \in Routed |-> IF package THEN "active" ELSE "none"]
  /\ clients = IF package THEN Points ELSE {}
  /\ unfinished = [n \in Routed |-> "none"]
  /\ over = FALSE /\ online = Points /\ crashes = 0 /\ unconfirmed = {}
  /\ job = [t \in Tasks |-> Idle]

-----------------------------------------------------------------------------
(* The world. *)

ServerDown(p) ==
  /\ p \in online /\ online' = online \ {p}
  /\ UNCHANGED <<flags, binding, access, over, crashes, job>>

ServerUp(p) ==
  /\ p \notin online /\ online' = online \cup {p}
  /\ UNCHANGED <<flags, binding, access, over, crashes, job>>

\* Traffic is billed, or the administrator moves the limit.
UsageChanges ==
  /\ over' = ~over
  /\ UNCHANGED <<flags, binding, access, online, crashes, job>>

PackageEnds ==
  /\ package /\ ~expired /\ expired' = TRUE
  /\ UNCHANGED <<flags, package, unconfirmed, access, world, job>>

\* The controller ends and every task with it.
ControllerCrash ==
  /\ crashes < MaxCrashes /\ crashes' = crashes + 1
  /\ job' = [t \in Tasks |-> Idle]
  /\ UNCHANGED <<flags, binding, access, over, online>>

-----------------------------------------------------------------------------
(* What starts a task and what it decides. *)

MayStart(t) ==
  /\ t \in Tasks /\ job[t] = Idle
  /\ HandlersOverlap \/ \A other \in Tasks : job[other] = Idle

Decides(t) == t \in Tasks /\ job[t].pc = "decide"
Becomes(t, j) == job' = [job EXCEPT ![t] = j]

ListUsersWithPackage ==
  /\ MayStart("enforcer") /\ package
  /\ Becomes("enforcer", Deciding(isActive, expired))
  /\ UNCHANGED <<flags, binding, access, world>>

\* Mutant: disabled users are left to the status handler.
CheckDisabledSkips ==
  /\ Decides("enforcer") /\ ~job["enforcer"].active
  /\ Becomes("enforcer", Idle)
  /\ UNCHANGED <<flags, binding, access, world>>

CheckDisabled ==
  /\ Decides("enforcer") /\ ~job["enforcer"].active
  /\ Becomes("enforcer", IF disabledEnforced THEN Idle ELSE Walk("disable", configs))
  /\ UNCHANGED <<flags, binding, access, world>>

CheckExpired ==
  /\ Decides("enforcer") /\ job["enforcer"].active /\ job["enforcer"].expired
  /\ Becomes("enforcer", Walk("expire", configs))
  /\ UNCHANGED <<flags, binding, access, world>>

\* Mutants: a user found over the limit is taken for one already cut off; a
\* user under the limit is done with.
CheckQuotaMarksEnforced ==
  /\ Decides("enforcer") /\ job["enforcer"].active /\ ~job["enforcer"].expired
  /\ IF over THEN /\ isOverLimit' = TRUE /\ overEnforced' = TRUE
                  /\ Becomes("enforcer", Idle)
             ELSE /\ UNCHANGED <<isOverLimit, overEnforced>>
                  /\ Becomes("enforcer",
                       IF isOverLimit THEN Walk("restore", configs) ELSE Idle)
  /\ UNCHANGED <<isActive, disabledEnforced, binding, access, world>>

CheckQuotaNeverRestores ==
  /\ Decides("enforcer") /\ job["enforcer"].active /\ ~job["enforcer"].expired
  /\ isOverLimit' = (isOverLimit \/ over)
  /\ Becomes("enforcer", IF over /\ ~overEnforced THEN Walk("limit", configs) ELSE Idle)
  /\ UNCHANGED <<isActive, disabledEnforced, overEnforced, binding, access, world>>

\* The monthly reset, when it is due, empties the billable traffic first.
CheckQuota ==
  /\ Decides("enforcer") /\ job["enforcer"].active /\ ~job["enforcer"].expired
  /\ \E reset \in BOOLEAN : over' = (over /\ ~reset)
  /\ \/ /\ over' /\ ~isOverLimit                    \* first seen over the limit
        /\ isOverLimit' = TRUE /\ overEnforced' = FALSE
        /\ Becomes("enforcer", Walk("limit", configs))
     \/ /\ over' /\ isOverLimit                     \* seen before: retried until enforced
        /\ Becomes("enforcer", IF overEnforced THEN Idle ELSE Walk("limit", configs))
        /\ UNCHANGED <<isOverLimit, overEnforced>>
     \/ /\ ~over'                                   \* under it: restored if it was over
        /\ Becomes("enforcer", IF isOverLimit THEN Walk("restore", configs) ELSE Idle)
        /\ UNCHANGED <<isOverLimit, overEnforced>>
  /\ UNCHANGED <<isActive, disabledEnforced, binding, access, online, crashes>>

\* UpdateUserStatus also clears disabled_access_enforced.
SetUserStatus(active) ==
  /\ MayStart("status")
  /\ isActive' = active /\ disabledEnforced' = FALSE
  /\ Becomes("status", Deciding(active, ~package \/ expired))
  /\ UNCHANGED <<isOverLimit, overEnforced, binding, access, world>>

DisableAccess ==
  /\ Decides("status") /\ ~job["status"].active
  /\ Becomes("status", Walk("disable", configs))
  /\ UNCHANGED <<flags, binding, access, world>>

\* Enabling an account does not lift its quota or its expiry.
EnableAccess ==
  /\ Decides("status") /\ job["status"].active
  /\ Becomes("status", IF isOverLimit \/ job["status"].expired
                       THEN Idle ELSE Walk("enable", configs))
  /\ UNCHANGED <<flags, binding, access, world>>

Subaccounts(state) == {n \in Routed : sub[n] = state}

\* AssignAndProvision: a new binding starts a new billing cycle.
AssignPackage ==
  /\ MayStart("assign") /\ ~package
  /\ package' = TRUE /\ expired' = FALSE /\ over' = FALSE /\ unconfirmed' = {}
  /\ Becomes("assign", [Idle EXCEPT !.pc = "provision"])
  /\ UNCHANGED <<flags, access, online, crashes>>

\* computeRoutedNodeUserCred claims an active row for each routed node that has
\* none yet, before any agent is called; a claim may fail.
Provision ==
  /\ "assign" \in Tasks /\ job["assign"].pc = "provision"
  /\ \E claimed \in SUBSET Subaccounts("none") :
       /\ sub' = [n \in Routed |-> IF n \in claimed THEN "active" ELSE sub[n]]
       /\ unfinished' = [n \in Routed |-> IF n \in claimed THEN "addition" ELSE unfinished[n]]
  /\ Becomes("assign", Walk("assign", Inbounds))
  /\ UNCHANGED <<flags, binding, configs, clients, world>>

\* The package it already has: only the dates change.
RenewPackage ==
  /\ MayStart("assign") /\ package
  /\ expired' = FALSE
  /\ UNCHANGED <<flags, package, unconfirmed, access, world, job>>

\* PackageUnassignHandler and unbindUserPackage; the handler does not ask
\* whether there is a package to unbind.
UnassignPackage ==
  /\ MayStart("unassign")
  /\ Becomes("unassign", Walk("unassign", configs))
  /\ UNCHANGED <<flags, binding, access, world>>

\* buildEligibleUsers looks at the expiry and the quota, findMissingInboundClients
\* at the rows whose client the agent does not have.
ResyncInbounds ==
  /\ MayStart("reconciler") /\ package /\ ~expired /\ ~isOverLimit
  /\ Becomes("reconciler", Walk("resync", configs \ clients))
  /\ UNCHANGED <<flags, binding, access, world>>

-----------------------------------------------------------------------------
(* Calls to the agents, one access point at a time. *)

\* What a call about p does to the clients when it is one to add or to remove p:
\* an agent that answers has carried it out.
AddsClient(p) == clients' \in (IF p \in online THEN {} ELSE {clients}) \cup {clients \cup {p}}
RemovesClient(p) == clients' \in (IF p \in online THEN {} ELSE {clients}) \cup {clients \ {p}}

Visits(t, goals, p) ==
  /\ t \in Tasks /\ job[t].pc = "plain" /\ job[t].goal \in goals /\ p \in job[t].todo
  /\ job' = [job EXCEPT ![t].todo = @ \ {p}, ![t].ok = @ /\ p \in online]

\* What an unbinding could or could not confirm.
Notes(t, p, confirmed) ==
  unconfirmed' = IF job[t].goal # "unassign" THEN unconfirmed
                 ELSE IF confirmed THEN unconfirmed \ {p} ELSE unconfirmed \cup {p}

\* An unbinding deletes the row of every removal the agent has confirmed; the
\* others keep theirs.
RemoveFromInbound(t, p) ==
  /\ Visits(t, Removals, p)
  /\ RemovesClient(p)
  /\ configs' = IF job[t].goal = "unassign" /\ p \in online THEN configs \ {p} ELSE configs
  /\ Notes(t, p, p \in online)
  /\ UNCHANGED <<flags, package, expired, sub, unfinished, world>>

\* The credential's row is saved before the client is sent; when the agent's
\* inbounds cannot even be listed it is not.
AddToInbound(t, p) ==
  /\ Visits(t, Additions, p)
  /\ \/ configs' = configs \cup {p} /\ AddsClient(p)
     \/ p \notin online /\ UNCHANGED <<configs, clients>>
  /\ UNCHANGED <<flags, binding, sub, unfinished, world>>

\* Mutant: the second walk visits the inbounds again.
PlainDoneAgain(t) ==
  /\ t \in Tasks /\ job[t].pc = "plain" /\ job[t].todo = {}
  /\ job' = [job EXCEPT ![t].pc = "routed", ![t].todo = configs]
  /\ UNCHANGED <<flags, binding, access, world>>

\* The routed nodes are listed when the inbounds are done.
PlainDone(t) ==
  /\ t \in Tasks /\ job[t].pc = "plain" /\ job[t].todo = {}
  /\ job' = [job EXCEPT ![t].pc = "routed", ![t].todo =
       IF job[t].goal \in Removals THEN Subaccounts("active")
       ELSE IF job[t].goal = "assign" THEN Routed \ Subaccounts("none")
       ELSE IF job[t].goal = "resync" THEN {} ELSE Subaccounts("inactive")]
  /\ UNCHANGED <<flags, binding, access, world>>

-----------------------------------------------------------------------------
(* The visit of one routed node. *)

Enters(t, goals, p) ==
  t \in Tasks /\ job[t].pc = "routed" /\ job[t].goal \in goals /\ p \in job[t].todo
IsAt(t, pc, p) == t \in Tasks /\ job[t].pc = pc /\ job[t].at = {p}

\* t goes on to the step pc of the visit of p, or leaves p for the next node.
Proceeds(t, p, pc, sure) ==
  Becomes(t, [job[t] EXCEPT !.pc = pc, !.at = {p}, !.todo = @ \ {p}, !.sure = sure])
Leaves(t, p, fine) ==
  Becomes(t, [job[t] EXCEPT !.pc = "routed", !.at = {}, !.todo = @ \ {p},
                            !.sure = FALSE, !.ok = @ /\ fine])

\* removeUserFromRoutedNode: the routing rule first.
RemoveRoute(t, p) ==
  /\ Enters(t, Removals, p)
  /\ unfinished' = [unfinished EXCEPT ![p] = "removal"]
  /\ Proceeds(t, p, "remove", p \in online)
  /\ UNCHANGED <<flags, binding, rows, clients, world>>

\* Mutant: the row is marked inactive whatever the agent answered.
RemoveClientUnasked(t, p) ==
  /\ IsAt(t, "remove", p)
  /\ RemovesClient(p)
  /\ Proceeds(t, p, "inactive", TRUE)
  /\ UNCHANGED <<flags, binding, rows, unfinished, world>>

\* The client next, whatever became of the rule; both must be confirmed.
RemoveClient(t, p) ==
  /\ IsAt(t, "remove", p)
  /\ RemovesClient(p)
  /\ IF p \in online /\ job[t].sure
     THEN Proceeds(t, p, "inactive", TRUE) /\ UNCHANGED unconfirmed
     ELSE Leaves(t, p, FALSE) /\ Notes(t, p, FALSE)
  /\ UNCHANGED <<flags, package, expired, rows, unfinished, world>>

MarkInactive(t, p) ==
  /\ IsAt(t, "inactive", p)
  /\ sub' = [sub EXCEPT ![p] = "inactive"]
  /\ unfinished' = [unfinished EXCEPT ![p] = "none"]
  /\ Notes(t, p, TRUE)
  /\ Leaves(t, p, TRUE)
  /\ UNCHANGED <<flags, package, expired, configs, clients, world>>

\* addUserToRoutedNode: the client first; if that fails the row goes back to
\* inactive at once.
AddClient(t, p) ==
  /\ Enters(t, {"restore", "enable"}, p)
  /\ AddsClient(p)
  /\ unfinished' = [unfinished EXCEPT ![p] = "addition"]
  /\ Proceeds(t, p, IF p \in online THEN "row" ELSE "retract", FALSE)
  /\ UNCHANGED <<flags, binding, rows, world>>

SaveSubaccount(t, p) ==
  /\ IsAt(t, "row", p)
  /\ sub' = [sub EXCEPT ![p] = "active"]
  /\ Proceeds(t, p, "route", FALSE)
  /\ UNCHANGED <<flags, binding, configs, clients, unfinished, world>>

\* The routing configuration is read, extended and sent back.
AddRoute(t, p) ==
  /\ IsAt(t, "route", p)
  /\ IF p \in online
     THEN Leaves(t, p, TRUE) /\ unfinished' = [unfinished EXCEPT ![p] = "none"]
     ELSE Proceeds(t, p, "undo", FALSE) /\ UNCHANGED unfinished
  /\ UNCHANGED <<flags, binding, rows, clients, world>>

\* The rule failed: the client is taken back, and nobody looks at the answer.
UndoClient(t, p) ==
  /\ IsAt(t, "undo", p)
  /\ RemovesClient(p)
  /\ Proceeds(t, p, "retract", p \in online)
  /\ UNCHANGED <<flags, binding, rows, unfinished, world>>

\* resumeUserRoutedAccess puts the subaccount it could not restore back to
\* inactive, for the next round to try.
Retract(t, p) ==
  /\ IsAt(t, "retract", p)
  /\ sub' = [sub EXCEPT ![p] = "inactive"]
  /\ unfinished' = IF job[t].sure THEN [unfinished EXCEPT ![p] = "none"] ELSE unfinished
  /\ Leaves(t, p, FALSE)
  /\ UNCHANGED <<flags, binding, configs, clients, world>>

\* applyRoutedBatchToAgent: client and rule in one call; the agent may add the
\* client and find no rule to extend, and then the row is not saved.
BatchAdd(t, p) ==
  /\ Enters(t, {"assign"}, p)
  /\ AddsClient(p)
  /\ unfinished' = [unfinished EXCEPT ![p] = "addition"]
  /\ \/ p \in online /\ Proceeds(t, p, "batch", FALSE)
     \/ Leaves(t, p, FALSE)
  /\ UNCHANGED <<flags, binding, rows, world>>

SaveBatch(t, p) ==
  /\ IsAt(t, "batch", p)
  /\ sub' = [sub EXCEPT ![p] = "active"]
  /\ unfinished' = [unfinished EXCEPT ![p] = "none"]
  /\ Leaves(t, p, TRUE)
  /\ UNCHANGED <<flags, binding, configs, clients, world>>

-----------------------------------------------------------------------------
(* The end of a task. *)

Finishes(t, goal) ==
  /\ t \in Tasks /\ job[t].pc = "routed" /\ job[t].todo = {} /\ job[t].goal = goal
  /\ Becomes(t, Idle)

\* Mutant: the flag is set whether or not every agent has confirmed.
DisableDoneUnconfirmed(t) ==
  /\ Finishes(t, "disable")
  /\ disabledEnforced' = TRUE
  /\ UNCHANGED <<isActive, isOverLimit, overEnforced, binding, access, world>>

DisableDone(t) ==
  /\ Finishes(t, "disable")
  /\ disabledEnforced' = (disabledEnforced \/ job[t].ok)
  /\ UNCHANGED <<isActive, isOverLimit, overEnforced, binding, access, world>>

LimitDone(t) ==
  /\ Finishes(t, "limit")
  /\ overEnforced' = (overEnforced \/ job[t].ok)
  /\ isOverLimit' = (isOverLimit \/ job[t].ok)
  /\ UNCHANGED <<isActive, disabledEnforced, binding, access, world>>

\* Mutants: the package is removed although a client may be left; it is kept.
ExpireDoneUnconfirmed(t) ==
  /\ Finishes(t, "expire")
  /\ configs' = {} /\ package' = FALSE /\ expired' = FALSE
  /\ UNCHANGED <<flags, unconfirmed, sub, clients, unfinished, world>>

ExpireDoneKeepsPackage(t) ==
  /\ Finishes(t, "expire")
  /\ configs' = IF job[t].ok THEN {} ELSE configs
  /\ UNCHANGED <<flags, binding, sub, clients, unfinished, world>>

\* An incomplete removal keeps the rows and the package for the next tick.
ExpireDone(t) ==
  /\ Finishes(t, "expire")
  /\ IF job[t].ok THEN configs' = {} /\ package' = FALSE /\ expired' = FALSE
                  ELSE UNCHANGED <<configs, package, expired>>
  /\ UNCHANGED <<flags, unconfirmed, sub, clients, unfinished, world>>

\* RemovePackageFromUser, whether or not every agent has confirmed; the quota
\* flags stay.
UnassignDone(t) ==
  /\ Finishes(t, "unassign")
  /\ package' = FALSE /\ expired' = FALSE
  /\ UNCHANGED <<flags, unconfirmed, access, world>>

\* Mutant: the quota is lifted although an access point was not restored.
RestoreDoneUnconfirmed(t) ==
  /\ Finishes(t, "restore")
  /\ isOverLimit' = FALSE /\ overEnforced' = FALSE
  /\ UNCHANGED <<isActive, disabledEnforced, binding, access, world>>

RestoreDone(t) ==
  /\ Finishes(t, "restore")
  /\ IF job[t].ok THEN isOverLimit' = FALSE /\ overEnforced' = FALSE
                  ELSE UNCHANGED <<isOverLimit, overEnforced>>
  /\ UNCHANGED <<isActive, disabledEnforced, binding, access, world>>

\* These three report what failed and keep no trace of it.
BestEffortDone(t) ==
  /\ \E goal \in {"enable", "assign", "resync"} : Finishes(t, goal)
  /\ UNCHANGED <<flags, binding, access, world>>

-----------------------------------------------------------------------------
Start ==
  \/ ListUsersWithPackage \/ \E active \in BOOLEAN : SetUserStatus(active)
  \/ AssignPackage \/ RenewPackage \/ UnassignPackage \/ ResyncInbounds

Decide ==
  \/ CheckDisabled \/ CheckExpired \/ CheckQuota \/ DisableAccess \/ EnableAccess
  \/ Provision

Visit(t, p) ==
  \/ RemoveRoute(t, p) \/ RemoveClient(t, p) \/ MarkInactive(t, p)
  \/ AddClient(t, p) \/ SaveSubaccount(t, p) \/ AddRoute(t, p)
  \/ UndoClient(t, p) \/ Retract(t, p) \/ BatchAdd(t, p) \/ SaveBatch(t, p)

Call(t) ==
  \/ \E p \in Inbounds : RemoveFromInbound(t, p) \/ AddToInbound(t, p)
  \/ \E p \in Routed : Visit(t, p)

Finish(t) ==
  \/ DisableDone(t) \/ LimitDone(t) \/ ExpireDone(t) \/ UnassignDone(t)
  \/ RestoreDone(t) \/ BestEffortDone(t)

Work == Decide \/ \E t \in Tasks : Call(t) \/ PlainDone(t) \/ Finish(t)

World ==
  \/ \E p \in Points : ServerDown(p) \/ ServerUp(p)
  \/ UsageChanges \/ PackageEnds \/ ControllerCrash

Next == Start \/ Work \/ World

Spec == Init /\ [][Next]_vars

(***************************************************************************)
(* The ticker calls the enforcer again and again, and every task runs to   *)
(* its end.  When tasks do not overlap the enforcer's turn comes between   *)
(* two others, which is strong fairness.                                   *)
(***************************************************************************)
FairSpec == Spec /\ WF_vars(Work) /\ SF_vars(ListUsersWithPackage)

-----------------------------------------------------------------------------
(* What access control promises. *)

\* The routed nodes where an addition ended halfway and the row is not active:
\* the client may be on the agent, and nothing of the controller knows.
Stranded == {n \in Routed : unfinished[n] = "addition" /\ sub[n] # "active"}

\* All the clients that a removal can know of are gone.
Out == clients \subseteq Stranded
Valid == isActive /\ package /\ ~expired

\* The controller records that a user is cut off, disabled or over the limit,
\* only when no agent has a client of the user but the stranded ones: the record
\* is what makes the enforcer stop looking (CheckAll), so a client left behind
\* would stay.
CutOffRecordedOnlyWhenOut ==
  [][(~disabledEnforced /\ disabledEnforced') \/ (~overEnforced /\ overEnforced')
       => Out]_vars

\* And as long as no task brings clients to a disabled user, it stays true.
DisabledStaysOut == ~isActive /\ disabledEnforced => Out

\* Every client on an agent has the row by which it can be found and removed, or
\* is left from an addition that ended between its calls: removals walk the rows,
\* never the agents (removeUserFromAllInbounds, suspendUserRoutedAccess).
EveryClientHasItsRow ==
  clients \subseteq configs \cup Subaccounts("active") \cup Stranded

\* A user without a package has no client but the stranded ones and those whose
\* removal an unbinding could not confirm: the expiry clears the package only
\* after every agent has confirmed (CheckAll, the expiry branch), an unbinding
\* clears it and keeps the rows of what failed (packages.go, unbindUserPackage),
\* and an account enabled later gets nothing back.
NoPackageNoAccess == ~package => clients \subseteq unconfirmed \cup Stranded

\* The quota flag is lifted only when every inbound of the user is back, and every
\* routed node whose last visit was not cut short: a restoration that missed one
\* keeps the flag, which is the only thing that makes the enforcer try again.
LiftedOnlyWhenWhole ==
  [][isOverLimit /\ ~isOverLimit' =>
       /\ configs \subseteq clients
       /\ \A n \in Routed \ Subaccounts("none") :
            n \in Subaccounts("active") /\ (n \in clients \/ unfinished[n] # "none")]_vars

\* From some time on every agent answers.
Reachable == <>[](online = Points)

\* A user who is disabled and stays so is eventually cut off everywhere but where
\* an addition ended halfway, whichever agents were offline and whenever the
\* controller crashed, unless the package is unbound: the enforcer looks at users
\* with a package only.
DisabledEventuallyOut ==
  Reachable => (package /\ ~isActive /\ ~disabledEnforced ~> (Out \/ isActive \/ ~package))

\* A user who crosses the limit, not known to be over it, and stays above is
\* eventually cut off, but where an addition ended halfway.
CrossingEventuallyCutOff ==
  Reachable => (Valid /\ over /\ ~isOverLimit ~> (Out \/ ~over \/ ~Valid))

\* A user who is back under the limit and stays there gets the access back.
UnderLimitEventuallyRestored ==
  Reachable => (Valid /\ ~over /\ isOverLimit ~> (~isOverLimit \/ over \/ ~Valid))

\* An expired package of an active user is eventually cleared.
ExpiryEventuallyTakesEffect ==
  Reachable => (isActive /\ package /\ expired ~> (~package \/ ~expired \/ ~isActive))

-----------------------------------------------------------------------------
(* Why it keeps the safety promises when tasks do not overlap: the         *)
(* inductive invariant.                                                    *)

Alone(t) == \A other \in Tasks \ {t} : job[other] = Idle

OneAtATime == \A t \in Tasks : job[t] # Idle => Alone(t)

\* The rows tell where the clients are, but for what is stranded.
RowsCover ==
  /\ clients \cap Inbounds \subseteq configs
  /\ clients \cap Routed \subseteq Subaccounts("active") \cup Stranded

\* An active row whose last visit went to its end has its client.
Served == \A n \in Subaccounts("active") : unfinished[n] = "none" => n \in clients

\* Where a removal that is with the routed nodes will still find clients, or can
\* find none.
Left(t) ==
  job[t].todo \cup Stranded \cup (IF job[t].pc = "remove" THEN job[t].at ELSE {})

\* A removal that has met no failure has left no client behind it.
Removed(t) ==
  job[t].goal \in Removals /\ job[t].ok =>
    /\ job[t].pc = "plain" => clients \cap Inbounds \subseteq job[t].todo
    /\ job[t].pc # "plain" => clients \subseteq Left(t)

\* An unbinding has left no client behind it but those it could not confirm.
Unbound(t) ==
  job[t].goal = "unassign" =>
    /\ job[t].pc = "plain" => clients \cap Inbounds \subseteq job[t].todo \cup unconfirmed
    /\ job[t].pc # "plain" => clients \subseteq Left(t) \cup unconfirmed

\* A restoration that has met no failure has missed no access point.
Restored(t) ==
  job[t].goal = "restore" /\ job[t].ok =>
    /\ job[t].pc = "plain" => configs \ job[t].todo \subseteq clients
    /\ job[t].pc # "plain" =>
         /\ configs \subseteq clients
         /\ Subaccounts("inactive") \subseteq job[t].todo \cup job[t].at

\* What a visit of a routed node knows at each of its steps.
Underway(t) ==
  /\ job[t].goal \in Removals /\ job[t].pc # "plain" =>
       job[t].todo \cup job[t].at \subseteq Subaccounts("active")
  /\ job[t].pc = "inactive" => job[t].at \cap clients = {}
  /\ job[t].pc \in Leaving => \A n \in job[t].at : unfinished[n] = "removal"
  /\ job[t].pc \in Entering => \A n \in job[t].at : unfinished[n] = "addition"
  /\ job[t].pc \in {"row", "route", "batch"} => job[t].at \subseteq clients
  /\ job[t].pc \in {"route", "undo"} => job[t].at \subseteq Subaccounts("active")
  /\ job[t].pc = "retract" /\ job[t].sure => job[t].at \cap clients = {}

\* Clients are added only for a user who has a package.
PackageHeld(t) ==
  /\ job[t].goal \in Additions \/ job[t].pc = "provision" => package
  /\ job[t].pc = "decide" /\ ~job[t].expired => package

AccessInv ==
  /\ OneAtATime /\ RowsCover /\ Served /\ NoPackageNoAccess
  /\ \A t \in Tasks : Removed(t) /\ Unbound(t) /\ Restored(t) /\ Underway(t) /\ PackageHeld(t)
=============================================================================
