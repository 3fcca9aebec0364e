-------------------------- MODULE MCServerPresence --------------------------
(* Instances of ServerPresence for TLC, and what a comment says of it. *)
EXTENDS ServerPresence

CONSTANTS c1, c2

\* The controller goes on; that reports arrive is not assumed.
MuteSpec == Spec /\ Progress

\* controller/internal/traffic/collector.go:207: the round collects from the
\* servers that need pull mode, explicitly or by fallback.  A running server
\* that has fallen back and has no connection is pulled from again and again.
FallbackIsPulled ==
  <>[](up /\ fallback /\ registry = NoConn) => []<>(col = "pulling")

\* controller/internal/storage/traffic.go:820: offline_notified says whether the
\* offline notice of this outage has been sent (agent_connect.go:293 relies on
\* it).  An outage that is flagged gets its notice, unless the server is back.
FlaggedIsTold == row.notified ~> (notice = "given" \/ ~row.notified)
=============================================================================
