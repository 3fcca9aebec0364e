---------------------------- MODULE StreamingCall ----------------------------
(***************************************************************************)
(* One streamed command (install, remove, upgrade): the controller calls   *)
(* the agent over the WebSocket and passes what the command prints on to   *)
(* the front end as it comes; if the WebSocket yields nothing it calls the *)
(* agent by HTTP, one address after the other.                             *)
(*                                                                         *)
(* At the agent the command runs in a goroutine of its own, beside the one *)
(* that waits for it with a time limit; at the controller the read loop    *)
(* hands frames to the call through a channel and drops what does not fit. *)
(* Time is left open: a timer may fire at any moment.                      *)
(***************************************************************************)
EXTENDS Integers, Sequences

CONSTANTS
  Frames,       \* what a command sends at most, in flushes
  Buffer,       \* capacity of the call's channel
  Candidates    \* HTTP addresses of the agent

ASSUME StreamAssumption ==
  Frames \in Nat \ {0} /\ Buffer \in Nat \ {0} /\ Candidates \in Nat \ {0}

VARIABLES
  pc,           \* the call: start, rpc, http, waiting, reading, done
  result,       \* how it ended
  gone,         \* the front end has closed its request
  out,          \* what has been written to the front end
  pending,      \* pendingStream has the call's channel
  channel,      \* the channel
  link,         \* the WebSocket the call was sent over holds
  call,         \* the call's message: none, sent
  wire,         \* messages on the WebSocket towards the controller
  run,          \* executions of the command at the agent
  replied,      \* the agent has sent the end frame
  cand,         \* the HTTP address being tried
  httpRun       \* the execution that serves the HTTP request

(* History, read by no action: some frame of the call has been dropped. *)
VARIABLE dropped

front  == <<gone, out>>
caller == <<pc, result, pending, channel>>
http   == <<cand, httpRun>>
socket == <<link, call, wire>>
agent  == <<run, replied>>
vars   == <<caller, front, socket, agent, http, dropped>>

-----------------------------------------------------------------------------
Runs == 0 .. Candidates                    \* 0 is the one over the WebSocket

Data(r, n) == [kind |-> "data", run |-> r, n |-> n]
End(kind)  == [kind |-> kind, run |-> 0, n |-> 0]

DataFrames == {Data(r, n) : r \in Runs, n \in 1 .. Frames}
EndFrames  == {End(kind) : kind \in {"ok", "refused", "timeout"}}
Messages   == DataFrames \cup EndFrames

NoRun == [state |-> "none", flushed |-> 0]
Run   == [state : {"none", "working", "finished", "refused", "dead"}, flushed : 0 .. Frames]

TypeOK ==
  /\ pc \in {"start", "rpc", "http", "waiting", "reading", "done"}
  /\ result \in {"none", "ok", "error", "ended"}
  /\ gone \in BOOLEAN /\ pending \in BOOLEAN /\ link \in BOOLEAN
  /\ replied \in BOOLEAN /\ dropped \in BOOLEAN
  /\ out \in Seq(DataFrames)
  /\ channel \in Seq(Messages) /\ Len(channel) <= Buffer
  /\ wire \in Seq(Messages)
  /\ call \in {"none", "sent"}
  /\ run \in [Runs -> Run]
  /\ cand \in 1 .. Candidates /\ httpRun \in Runs

Init ==
  /\ pc = "start" /\ result = "none" /\ gone = FALSE /\ out = <<>>
  /\ pending = FALSE /\ channel = <<>>
  /\ link = TRUE /\ call = "none" /\ wire = <<>>
  /\ run = [r \in Runs |-> NoRun] /\ replied = FALSE
  /\ cand = 1 /\ httpRun = 0 /\ dropped = FALSE

-----------------------------------------------------------------------------
(* CallAgentStream, and what tryWSRPCStream makes of its error. *)

\* No connection, no capability, or the write to the socket fails.
Unavailable ==
  /\ pc = "start" /\ pc' = "http"
  /\ UNCHANGED <<result, pending, channel, front, socket, agent, http, dropped>>

SendCall ==
  /\ pc = "start" /\ link
  /\ pc' = "rpc" /\ pending' = TRUE /\ call' = "sent"
  /\ UNCHANGED <<result, channel, front, link, wire, agent, http, dropped>>

Returns(res) == pc' = "done" /\ result' = res /\ pending' = FALSE /\ UNCHANGED channel

\* Mutant: the call is repeated by HTTP whatever has been written.
GivesUpAlways ==
  pc' = "http" /\ pending' = FALSE /\ UNCHANGED <<result, channel>>

\* ErrWSRPCUnavailable as long as nothing has been written.
GivesUp ==
  IF out = <<>>
    THEN pc' = "http" /\ pending' = FALSE /\ UNCHANGED <<result, channel>>
    ELSE Returns("error")

\* Mutant: the deadline is only for the first frame.
DeadlineFirst ==
  /\ pc = "rpc" /\ out = <<>> /\ GivesUp
  /\ UNCHANGED <<front, socket, agent, http, dropped>>

Deadline ==
  /\ pc = "rpc" /\ GivesUp
  /\ UNCHANGED <<front, socket, agent, http, dropped>>

CtxDone ==
  /\ pc = "rpc" /\ gone /\ GivesUp
  /\ UNCHANGED <<front, socket, agent, http, dropped>>

TakeData ==
  /\ pc = "rpc" /\ channel # <<>> /\ Head(channel).kind = "data"
  /\ out' = Append(out, Head(channel)) /\ channel' = Tail(channel)
  /\ UNCHANGED <<pc, result, pending, gone, socket, agent, http, dropped>>

\* The write to the front end fails.
WriteFails ==
  /\ pc = "rpc" /\ gone /\ channel # <<>> /\ Head(channel).kind = "data"
  /\ Returns("error")
  /\ UNCHANGED <<front, socket, agent, http, dropped>>

\* Mutant: the end frame's error is ignored.
EndResultByStatus(kind) == IF kind = "refused" /\ out = <<>> THEN "error" ELSE "ok"

\* A status of 400 or more counts only if nothing has been written.
EndResult(kind) ==
  IF kind = "timeout" \/ (kind = "refused" /\ out = <<>>) THEN "error" ELSE "ok"

TakeEnd ==
  /\ pc = "rpc" /\ channel # <<>> /\ Head(channel).kind # "data"
  /\ Returns(EndResult(Head(channel).kind))
  /\ UNCHANGED <<front, socket, agent, http, dropped>>

-----------------------------------------------------------------------------
(* routeRPCStreamData and routeRPCReply, in the connection's read loop. *)

\* Mutant: the channel's capacity is not looked at.
RouteUnbounded ==
  /\ wire # <<>> /\ wire' = Tail(wire)
  /\ channel' = IF pending THEN Append(channel, Head(wire)) ELSE channel
  /\ UNCHANGED <<pc, result, pending, front, link, call, agent, http, dropped>>

RouteFrame ==
  /\ wire # <<>> /\ wire' = Tail(wire)
  /\ IF pending /\ Len(channel) < Buffer
       THEN channel' = Append(channel, Head(wire)) /\ UNCHANGED dropped
       ELSE UNCHANGED channel /\ dropped' = (dropped \/ pending)
  /\ UNCHANGED <<pc, result, pending, front, link, call, agent, http>>

\* The connection ends; nobody tells the call.
LinkBreaks ==
  /\ link /\ link' = FALSE /\ wire' = <<>>
  /\ UNCHANGED <<caller, front, call, agent, http, dropped>>

\* The call is lost with the connection, or in the agent's full queue.
LoseCall ==
  /\ call = "sent" /\ call' = "none"
  /\ UNCHANGED <<caller, front, link, wire, agent, http, dropped>>

-----------------------------------------------------------------------------
(* The agent: handleRPCStreamCall and the handler it runs. *)

\* The agent's ServeMux or the handler refuses (404, 401, 405, 409), or the
\* command starts.
Starts(r) == \E state \in {"working", "refused"} :
               run' = [run EXCEPT ![r] = [state |-> state, flushed |-> 0]]

ReceiveCall ==
  /\ call = "sent" /\ link /\ call' = "none"
  /\ Starts(0)
  /\ UNCHANGED <<caller, front, link, wire, replied, http, dropped>>

\* Writes of a connection that has ended are lost.
Transmit(frames) == wire' = IF link THEN wire \o frames ELSE wire

\* sendRPCStreamData for the WebSocket, Flush of the response for HTTP.
Flush(r) ==
  /\ run[r].state = "working" /\ run[r].flushed < Frames
  /\ run' = [run EXCEPT ![r].flushed = @ + 1]
  /\ IF r = 0 THEN Transmit(<<Data(r, run[r].flushed + 1)>>) ELSE UNCHANGED wire
  /\ UNCHANGED <<caller, front, link, call, replied, http, dropped>>

\* sseStreamCmd waits for the process beside the scanners of its output, and
\* the wait closes their pipes: what they have not read then is lost, like
\* what follows a line too long for them.  The verdict is flushed last.
Finish(r) ==
  /\ run[r].state = "working" /\ run[r].flushed > 0
  /\ run' = [run EXCEPT ![r].state = "finished"]
  /\ UNCHANGED <<caller, front, socket, replied, http, dropped>>

\* The handler has returned: what its writer still holds goes out first (of a
\* refusal, the body), then the status.
ReplyDone ==
  /\ ~replied /\ replied' = TRUE
  /\ \/ run[0].state = "finished" /\ Transmit(<<End("ok")>>)
     \/ run[0].state = "refused" /\ Transmit(<<Data(0, 1), End("refused")>>)
  /\ UNCHANGED <<caller, front, link, call, run, http, dropped>>

\* The time limit passes; the command goes on and so do its frames.
ReplyTimeout ==
  /\ run[0].state = "working" /\ ~replied /\ replied' = TRUE
  /\ Transmit(<<End("timeout")>>)
  /\ UNCHANGED <<caller, front, link, call, run, http, dropped>>

\* A panic in the command's goroutine, or an upgrade, ends the process.
AgentDies ==
  /\ \E r \in Runs : run[r].state = "working"
  /\ run' = [r \in Runs |-> IF run[r].state = "working" THEN [run[r] EXCEPT !.state = "dead"] ELSE run[r]]
  /\ link' = FALSE /\ UNCHANGED <<call, wire>>
  /\ UNCHANGED <<caller, front, replied, http, dropped>>

-----------------------------------------------------------------------------
(* The HTTP part of forwardStreamToRemote. *)

\* Mutant: the last address is tried again.
NextCandidateAgain ==
  /\ pc' = "http" /\ cand' = (IF cand < Candidates THEN cand + 1 ELSE cand)
  /\ UNCHANGED result

NextCandidate ==
  IF cand < Candidates
    THEN pc' = "http" /\ cand' = cand + 1 /\ UNCHANGED result
    ELSE pc' = "done" /\ result' = "error" /\ UNCHANGED cand

HttpSend ==
  /\ pc = "http" /\ ~gone
  /\ pc' = "waiting" /\ httpRun' = cand
  /\ UNCHANGED <<result, pending, channel, front, socket, agent, cand, dropped>>

\* The request reaches the agent, perhaps after the controller gave it up.
HttpArrives(r) ==
  /\ r # 0 /\ r <= httpRun /\ run[r] = NoRun
  /\ Starts(r)
  /\ UNCHANGED <<caller, front, socket, replied, http, dropped>>

\* Not sent, refused by the network, or broken before the response's header.
HttpFails ==
  /\ \/ pc = "http" /\ gone
     \/ pc = "waiting"
  /\ NextCandidate
  /\ UNCHANGED <<pending, channel, front, socket, agent, httpRun, dropped>>

HttpRefused ==
  /\ pc = "waiting" /\ run[httpRun].state = "refused"
  /\ NextCandidate
  /\ UNCHANGED <<pending, channel, front, socket, agent, httpRun, dropped>>

HttpHeader ==
  /\ pc = "waiting" /\ run[httpRun].flushed > 0
  /\ pc' = "reading"
  /\ UNCHANGED <<result, pending, channel, front, socket, agent, http, dropped>>

HttpReads ==
  /\ pc = "reading" /\ ~gone /\ Len(out) < run[httpRun].flushed
  /\ out' = Append(out, Data(httpRun, Len(out) + 1))
  /\ UNCHANGED <<caller, gone, socket, agent, http, dropped>>

\* The response has ended, at its end or before.
HttpEnds ==
  /\ pc = "reading" /\ pc' = "done" /\ result' = "ended"
  /\ UNCHANGED <<pending, channel, front, socket, agent, http, dropped>>

\* The front end closes its request.
GoAway ==
  /\ ~gone /\ gone' = TRUE
  /\ UNCHANGED <<caller, out, socket, agent, http, dropped>>

-----------------------------------------------------------------------------
Caller == Unavailable \/ SendCall \/ Deadline \/ CtxDone \/ TakeData \/ WriteFails \/ TakeEnd
Socket == RouteFrame \/ LinkBreaks \/ LoseCall
Agent  == ReceiveCall \/ ReplyDone \/ ReplyTimeout \/ AgentDies
            \/ \E r \in Runs : Flush(r) \/ Finish(r) \/ HttpArrives(r)
Http   == HttpSend \/ HttpFails \/ HttpRefused \/ HttpHeader \/ HttpReads \/ HttpEnds

Next == Caller \/ Socket \/ Agent \/ Http \/ GoAway

Spec == Init /\ [][Next]_vars

\* The caller's goroutine goes on: its waits end by the deadline or, once the
\* front end has left, by the context.  Without the front end's leaving, an
\* HTTP response has no time limit.
Leaves == gone /\ (Caller \/ Http)
FairSpec == Spec /\ WF_vars(Caller) /\ WF_vars(Leaves)

-----------------------------------------------------------------------------
(* Properties. *)

\* What the front end sees comes from one execution of the command and in its
\* order, although a lost or late call may have the command executed again at
\* another address while the first still prints.
OutFromOneRun ==
  \A i, j \in 1 .. Len(out) :
    /\ out[i].run = out[j].run
    /\ i < j => out[i].n < out[j].n

\* A call that returns without an error after a command that was not refused
\* has passed on all the agent sent of it, its verdict included, unless the
\* channel overflowed: whenever the command ended, nothing of it is still on
\* its way, and nothing was skipped.
OkIsWhole ==
  result = "ok" /\ ~dropped /\ run[0].state # "refused" =>
    /\ run[0].state = "finished"
    /\ out = [n \in 1 .. run[0].flushed |-> Data(0, n)]

\* A call ends after its front end has left, whatever the agent and the
\* connections do.
LeavingEndsTheCall == gone ~> pc = "done"

\* The part over the WebSocket ends, also when the end frame was dropped or the
\* connection broke in silence.
SocketPartEnds == <>[](pc \notin {"start", "rpc"})
=============================================================================
