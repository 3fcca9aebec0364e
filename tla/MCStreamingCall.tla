--------------------------- MODULE MCStreamingCall ---------------------------
(* Instances of StreamingCall for TLC, and what a comment says of it. *)
EXTENDS StreamingCall

\* controller/internal/handler/ws_rpc.go:372: the end frame of a refused
\* command, before anything the command printed, makes an HTTPLikeError, so
\* that the caller can show it; a refused command is never a success.
RefusalIsAnError == run[0].state = "refused" => result # "ok"
=============================================================================
