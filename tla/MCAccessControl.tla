-------------------------- MODULE MCAccessControl --------------------------
(* What comments of the repository say of access control and the code does *)
(* not do: each is the property of a run that TLC refutes.                 *)
EXTENDS AccessControl

\* storage/traffic.go:1375: the quota state and the state of the cut-off are
\* two columns so that the enforcer keeps compensating until the user who is
\* over the limit has really lost access.
OverLimitEventuallyOut ==
  Reachable => (Valid /\ over ~> (Out \/ ~over \/ ~Valid))

\* traffic_limit_enforcer.go:132: a disabled user is taken off the plain inbounds
\* and all the routed subaccounts, retried at every tick until all agents have
\* confirmed.
DisabledEventuallyRemovedEverywhere ==
  Reachable => (package /\ ~isActive /\ ~disabledEnforced ~>
                  (clients = {} \/ isActive \/ ~package))

\* traffic_limit_enforcer.go:222: all the plain inbounds and routed subaccounts
\* are restored, and is_over_limit is kept until that has succeeded completely.
LiftedOnlyWhenAllIsBack ==
  [][isOverLimit /\ ~isOverLimit' =>
       configs \cup (Routed \ Subaccounts("none")) \subseteq clients]_vars
============================================================================
