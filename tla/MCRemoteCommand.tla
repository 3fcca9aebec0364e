--------------------------- MODULE MCRemoteCommand ---------------------------
(* Instances of RemoteCommand for TLC. *)
EXTENDS RemoteCommand

CONSTANTS c1, c2
==============================================================================
