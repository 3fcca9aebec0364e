---------------------------- MODULE RemoteCommand ----------------------------
(***************************************************************************)
(* Commands from the controller to one agent: forwardToRemoteServer.       *)
(*                                                                         *)
(* Every call is a goroutine of its own.  It tries the reverse RPC of the  *)
(* WebSocket first; when that gives no answer it sends an HTTP request to  *)
(* the agent's addresses in turn.  The HTTP requests of all calls share    *)
(* the session pullSessions holds for the server; the agent keeps its own  *)
(* in a cache with a TTL, and either side may be ahead of the other:       *)
(* refused or unreadable, a call starts a key exchange, which carries the  *)
(* command once more, in the clear.                                        *)
(*                                                                         *)
(* Sessions are numbered in the order in which the agent makes them.       *)
(***************************************************************************)
EXTENDS ReplayWindow, Sequences

CONSTANTS
  Calls,             \* calls of forwardToRemoteServer
  WithBody,          \* those whose request has a body; the others' have none
  Candidates,        \* addresses of the agent
  MayUseRPC,         \* those the agent's rpc capability and the caller allow it
  MaxExpiries        \* bound: sessions the agent's cache loses

ASSUME CommandAssumption ==
  /\ WithBody \subseteq Calls /\ MayUseRPC \subseteq Calls
  /\ Candidates \in Nat \ {0} /\ MaxExpiries \in Nat

NoSession == 0

VARIABLES
  call,              \* what each call is doing
  rpc,               \* its rpc_call or rpc_reply on the WebSocket
  exchange,          \* its HTTP exchange under way
  stray,             \* requests whose callers have given up
  pullSession,       \* pullSessions[server] of the controller
  cached,            \* the session in the agent's cache
  channel,           \* numbers and replay windows of the sessions
  expiries           \* bound

(***************************************************************************)
(* History variables; no action reads them.                                *)
(*   applied   how often the agent has carried the command out             *)
(*   unread    the call sent the command again without having read an      *)
(*             answer                                                      *)
(*   spoiled   session and number of the answers of other sessions that    *)
(*             used up a number: a command without a body is answered        *)
(*             under whatever session the agent has by then                  *)
(***************************************************************************)
VARIABLES applied, unread, spoiled

agent   == <<cached, channel, expiries>>
history == <<applied, unread, spoiled>>
vars    == <<call, rpc, exchange, stray, pullSession, agent, history>>

-----------------------------------------------------------------------------
Sessions == 1 .. Len(channel)

Call == [pc : {"start", "rpc", "http", "waiting", "ok", "failed"},
         candidate : 1 .. Candidates, session : Nat]

\* What a command's handler answers: success, an error, or an error whose
\* text isSessionInvalidErr takes for a refusal ("412", "decrypt").  A command
\* that answers with an error has not been carried out.
Outcomes == {"ok", "error", "misread"}

\* On its way a request is a key exchange or sealed; at the agent its handler
\* runs, and the answer will agree on the session or be sealed with it.
Request == [kind : {"keyexchange", "sealed", "agreeing", "sealing"}, by : Calls,
            to : 1 .. Candidates, session : Nat, seq : Nat]
Answer  == [kind : {"agreed", "refused", "answer"}, outcome : Outcomes,
            session : Nat, seq : Nat]

NoExchange == [kind |-> "none"]

\* toAgent, toMaster: the numbers given out and the receiver's window.
Direction == [sent : Nat, window : Window]
NewDirection == [sent |-> 0, window |-> NewWindow]

Channel == [toAgent : Direction, toMaster : Direction]

TypeOK ==
  /\ call \in [Calls -> Call]
  /\ rpc \in [Calls -> {"none", "sent", "ok", "error"}]
  /\ exchange \in [Calls -> Request \cup Answer \cup {NoExchange}]
  /\ stray \subseteq Request
  /\ channel \in Seq(Channel)
  /\ pullSession \in Sessions \cup {NoSession}
  /\ cached \in Sessions \cup {NoSession}
  /\ applied \in [Calls -> Nat] /\ unread \in [Calls -> BOOLEAN]
  /\ spoiled \subseteq Sessions \X Nat
  /\ expiries \in Nat

Init ==
  /\ call = [c \in Calls |-> [pc |-> "start", candidate |-> 1, session |-> NoSession]]
  /\ rpc = [c \in Calls |-> "none"]
  /\ exchange = [c \in Calls |-> NoExchange] /\ stray = {}
  /\ pullSession = NoSession /\ cached = NoSession /\ channel = <<>>
  /\ expiries = 0
  /\ applied = [c \in Calls |-> 0] /\ unread = [c \in Calls |-> FALSE] /\ spoiled = {}

-----------------------------------------------------------------------------
(* The reverse RPC: tryWSRPC, CallAgent, handleRPCCallBuffer. *)

\* The call is registered in pendingRPC and sent, if the WebSocket is up.
SendRPC(c) ==
  /\ call[c].pc = "start" /\ c \in MayUseRPC
  /\ call' = [call EXCEPT ![c].pc = "rpc"]
  /\ rpc' = [rpc EXCEPT ![c] = "sent"]
  /\ UNCHANGED <<exchange, stray, pullSession, agent, history>>

NoRPC(c) ==
  /\ call[c].pc = "start"
  /\ call' = [call EXCEPT ![c].pc = "http"]
  /\ UNCHANGED <<rpc, exchange, stray, pullSession, agent, history>>

\* The agent answers when the handler returns; when it takes too long the
\* answer is an error, and the handler runs on.
AgentRunsRPC(c) ==
  /\ rpc[c] = "sent"
  /\ \E answer \in {"ok", "error"}, done \in BOOLEAN :
       /\ answer = "ok" => done
       /\ rpc' = [rpc EXCEPT ![c] = answer]
       /\ applied' = [applied EXCEPT ![c] = IF done THEN @ + 1 ELSE @]
  /\ UNCHANGED <<call, exchange, stray, pullSession, agent, unread, spoiled>>

\* The connection breaks, or routeRPCReply finds nobody waiting.
LoseRPC(c) ==
  /\ rpc[c] # "none"
  /\ rpc' = [rpc EXCEPT ![c] = "none"]
  /\ UNCHANGED <<call, exchange, stray, pullSession, agent, history>>

\* Errors of the handler are passed on, not retried.
RouteRPCReply(c) ==
  /\ call[c].pc = "rpc" /\ rpc[c] \in {"ok", "error"}
  /\ call' = [call EXCEPT ![c].pc = IF rpc[c] = "ok" THEN "ok" ELSE "failed"]
  /\ rpc' = [rpc EXCEPT ![c] = "none"]
  /\ UNCHANGED <<exchange, stray, pullSession, agent, history>>

\* ErrWSRPCUnavailable: the timeout has passed, the command goes by HTTP.
RPCUnavailable(c) ==
  /\ call[c].pc = "rpc"
  /\ call' = [call EXCEPT ![c].pc = "http"]
  /\ unread' = [unread EXCEPT ![c] = TRUE]
  /\ UNCHANGED <<rpc, exchange, stray, pullSession, agent, applied, spoiled>>

-----------------------------------------------------------------------------
(* The controller's side of the HTTP exchange. *)

KeyExchange(c) == [kind |-> "keyexchange", by |-> c, to |-> call[c].candidate,
                   session |-> NoSession, seq |-> 0]

\* forwardToRemoteServer refuses a server that is not connected.
NotConnected(c) ==
  /\ call[c].pc = "http" /\ call[c].candidate = 1
  /\ call' = [call EXCEPT ![c].pc = "failed"]
  /\ UNCHANGED <<rpc, exchange, stray, pullSession, agent, history>>

NegotiateFirst(c) ==
  /\ call[c].pc = "http" /\ pullSession = NoSession
  /\ call' = [call EXCEPT ![c].pc = "waiting", ![c].session = NoSession]
  /\ exchange' = [exchange EXCEPT ![c] = KeyExchange(c)]
  /\ UNCHANGED <<rpc, stray, pullSession, agent, history>>

\* A body is numbered and sealed; without one only the header tells that the
\* answer is to be sealed.
SendSealed(c) ==
  LET seq == IF c \in WithBody THEN channel[pullSession].toAgent.sent + 1 ELSE 0 IN
  /\ call[c].pc = "http" /\ pullSession # NoSession
  /\ call' = [call EXCEPT ![c].pc = "waiting", ![c].session = pullSession]
  /\ exchange' = [exchange EXCEPT ![c] =
       [kind |-> "sealed", by |-> c, to |-> call[c].candidate,
        session |-> pullSession, seq |-> seq]]
  /\ channel' = IF c \in WithBody
                THEN [channel EXCEPT ![pullSession].toAgent.sent = seq] ELSE channel
  /\ UNCHANGED <<rpc, stray, pullSession, cached, expiries, history>>

Answered(c, kinds) == call[c].pc = "waiting" /\ exchange[c].kind \in kinds

\* Mutant: every error is tried again at the same address.
NextCandidateStays(c) == call' = [call EXCEPT ![c].pc = "http"]

\* The call moves on to its next address, or fails.
NextCandidate(c) ==
  call' = IF call[c].candidate < Candidates
          THEN [call EXCEPT ![c].pc = "http", ![c].candidate = @ + 1]
          ELSE [call EXCEPT ![c].pc = "failed"]

\* Mutant: the answer is read twice, the second time as the session's.
AgreedTwice(c) ==
  /\ Answered(c, {"agreed"})
  /\ call' = [call EXCEPT ![c].pc = "ok"]
  /\ pullSession' = exchange[c].session + 1
  /\ exchange' = [exchange EXCEPT ![c] = NoExchange]
  /\ UNCHANGED <<rpc, stray, agent, history>>

\* doPullKeyExchange returns an error before it has stored the session.
Agreed(c) ==
  /\ Answered(c, {"agreed"})
  /\ IF exchange[c].outcome = "ok"
       THEN /\ call' = [call EXCEPT ![c].pc = "ok"]
            /\ pullSession' = exchange[c].session
       ELSE NextCandidate(c) /\ UNCHANGED pullSession
  /\ exchange' = [exchange EXCEPT ![c] = NoExchange]
  /\ UNCHANGED <<rpc, stray, agent, history>>

\* The session is forgotten, whichever it is by now, and negotiated anew.
Renegotiate(c) ==
  /\ pullSession' = NoSession
  /\ call' = [call EXCEPT ![c].session = NoSession]
  /\ exchange' = [exchange EXCEPT ![c] = KeyExchange(c)]

\* 412 no session, or 400 decrypt failed.
Refused(c) ==
  /\ Answered(c, {"refused"})
  /\ Renegotiate(c)
  /\ UNCHANGED <<rpc, stray, agent, history>>

\* Whether the call's session opens the answer; its window is moved first.
Opens(c) ==
  /\ exchange[c].session = call[c].session
  /\ Fresh(channel[call[c].session].toMaster.window, exchange[c].seq)

NoteAnswer(c) ==
  LET s == call[c].session
      w == channel[s].toMaster.window
      seq == exchange[c].seq
  IN
  /\ channel' = IF Fresh(w, seq)
                THEN [channel EXCEPT ![s].toMaster.window = Noted(w, seq)] ELSE channel
  /\ spoiled' = IF Fresh(w, seq) /\ exchange[c].session # s
                THEN spoiled \cup {<<s, seq>>} ELSE spoiled

ReadAnswer(c) ==
  /\ Answered(c, {"answer"})
  /\ Opens(c) /\ exchange[c].outcome # "misread"
  /\ IF exchange[c].outcome = "ok" THEN call' = [call EXCEPT ![c].pc = "ok"]
                                   ELSE NextCandidate(c)
  /\ exchange' = [exchange EXCEPT ![c] = NoExchange]
  /\ NoteAnswer(c)
  /\ UNCHANGED <<rpc, stray, pullSession, cached, expiries, applied, unread>>

\* An answer that does not open, or reads like a refusal.
MisreadAnswer(c) ==
  /\ Answered(c, {"answer"})
  /\ ~Opens(c) \/ exchange[c].outcome = "misread"
  /\ Renegotiate(c)
  /\ NoteAnswer(c)
  /\ unread' = [unread EXCEPT ![c] = @ \/ ~Opens(c)]
  /\ UNCHANGED <<rpc, stray, cached, expiries, applied>>

\* No answer: the request is lost, on its way, or its answer is lost.
RequestFails(c) ==
  /\ call[c].pc = "waiting"
  /\ NextCandidate(c)
  /\ \/ UNCHANGED stray
     \/ exchange[c] \in Request /\ stray' = stray \cup {exchange[c]}
  /\ exchange' = [exchange EXCEPT ![c] = NoExchange]
  /\ unread' = [unread EXCEPT ![c] = @ \/ call[c].candidate < Candidates]
  /\ UNCHANGED <<rpc, pullSession, agent, applied, spoiled>>

-----------------------------------------------------------------------------
(* The agent's side: CryptoMiddleware around the command's handler. *)

\* What becomes of a request whose caller is still waiting, or has given up.
Becomes(q, next) ==
  \/ /\ exchange[q.by] = q
     /\ exchange' = [exchange EXCEPT ![q.by] = next]
     /\ UNCHANGED stray
  \/ /\ q \in stray
     /\ stray' = (stray \ {q}) \cup ({next} \cap Request)
     /\ UNCHANGED exchange

\* The command's handler starts; the session is a variable of the request's.
Run(q, kind, session) ==
  Becomes(q, [kind |-> kind, by |-> q.by, to |-> q.to, session |-> session, seq |-> 0])

\* A new session takes the cached one's place.
AgentKeyExchange(q) ==
  /\ q.kind = "keyexchange"
  /\ channel' = Append(channel, [toAgent |-> NewDirection, toMaster |-> NewDirection])
  /\ cached' = Len(channel) + 1
  /\ Run(q, "agreeing", Len(channel) + 1)
  /\ UNCHANGED <<call, rpc, pullSession, expiries, history>>

Refusal == [kind |-> "refused", outcome |-> "error", session |-> NoSession, seq |-> 0]

\* Mutant: the handler has run before the body is found unreadable.
RefuseAfterRun(q) ==
  Becomes(q, Refusal) /\ applied' = [applied EXCEPT ![q.by] = @ + 1]

Refuse(q) == Becomes(q, Refusal) /\ UNCHANGED applied

AgentNoSession(q) ==
  /\ q.kind = "sealed" /\ cached = NoSession
  /\ Refuse(q)
  /\ UNCHANGED <<call, rpc, pullSession, agent, unread, spoiled>>

\* A body is read with whatever session is cached.  The window is moved before
\* the cipher is tried, so the body of another session uses up a number.
AgentDecrypts(q) ==
  LET w == channel[cached].toAgent.window IN
  /\ q.kind = "sealed" /\ cached # NoSession /\ q.by \in WithBody
  /\ channel' = IF Fresh(w, q.seq)
                THEN [channel EXCEPT ![cached].toAgent.window = Noted(w, q.seq)]
                ELSE channel
  /\ IF Fresh(w, q.seq) /\ q.session = cached
       THEN Run(q, "sealing", cached) /\ UNCHANGED applied
       ELSE Refuse(q)
  /\ UNCHANGED <<call, rpc, pullSession, cached, expiries, unread, spoiled>>

\* Without a body there is nothing to decrypt, and nothing to refuse.
AgentRunsBodyless(q) ==
  /\ q.kind = "sealed" /\ cached # NoSession /\ q.by \notin WithBody
  /\ Run(q, "sealing", cached)
  /\ UNCHANGED <<call, rpc, pullSession, agent, history>>

\* Mutant: the answer is sealed with the session that is now in the cache.
SealWithLatest(q) == Len(channel)

\* The session an answer is sealed with: the one the request was read with.
SealWith(q) == q.session

\* The handler returns; a sealed answer takes the session's next number.
AgentAnswers(q) ==
  LET s == SealWith(q)
      seq == IF q.kind = "sealing" THEN channel[s].toMaster.sent + 1 ELSE 0
      kind == IF q.kind = "sealing" THEN "answer" ELSE "agreed"
  IN
  /\ q.kind \in {"agreeing", "sealing"}
  /\ channel' = IF q.kind = "sealing"
                THEN [channel EXCEPT ![s].toMaster.sent = seq] ELSE channel
  /\ \E outcome \in Outcomes :
       /\ applied' = [applied EXCEPT ![q.by] = IF outcome = "ok" THEN @ + 1 ELSE @]
       /\ Becomes(q, [kind |-> kind, outcome |-> outcome, session |-> s, seq |-> seq])
  /\ UNCHANGED <<call, rpc, pullSession, cached, expiries, unread, spoiled>>

\* An hour after the exchange, or with the agent's restart.
CacheExpires ==
  /\ expiries < MaxExpiries /\ cached # NoSession
  /\ cached' = NoSession /\ expiries' = expiries + 1
  /\ UNCHANGED <<call, rpc, exchange, stray, pullSession, channel, history>>

-----------------------------------------------------------------------------
ControllerStep(c) ==
  \/ SendRPC(c) \/ NoRPC(c) \/ RouteRPCReply(c) \/ RPCUnavailable(c)
  \/ NotConnected(c) \/ NegotiateFirst(c) \/ SendSealed(c)
  \/ Agreed(c) \/ Refused(c) \/ ReadAnswer(c) \/ MisreadAnswer(c) \/ RequestFails(c)

AgentStep(q) ==
  \/ AgentKeyExchange(q) \/ AgentNoSession(q) \/ AgentDecrypts(q)
  \/ AgentRunsBodyless(q) \/ AgentAnswers(q)

\* The requests the agent will receive or has received.
Requested == stray \cup ({exchange[c] : c \in Calls} \cap Request)

Next ==
  \/ \E c \in Calls : ControllerStep(c) \/ AgentRunsRPC(c) \/ LoseRPC(c)
  \/ \E q \in Requested : AgentStep(q)
  \/ CacheExpires

Spec == Init /\ [][Next]_vars

\* Every wait of a call has a timeout, and the controller runs.
FairSpec == Spec /\ \A c \in Calls : WF_vars(ControllerStep(c))

-----------------------------------------------------------------------------
(***************************************************************************)
(* A command is carried out twice only if the call gave up on an answer:   *)
(* what the agent refuses (412, 400) it has not run, and an error that     *)
(* reads like a refusal stands for a command that did nothing.             *)
(***************************************************************************)
TwiceOnlyIfUnread == \A c \in Calls : ~unread[c] => applied[c] <= 1

(***************************************************************************)
(* The answer to a command with a body opens: the session it was read with *)
(* is the caller's and the one it is sealed with, however many key         *)
(* exchanges came between, and its number is new to the caller's window,   *)
(* unless an answer of another session has used it up or W or more numbers *)
(* have passed it.  Only a command without a body can be run and then      *)
(* answered under another session.                                         *)
(***************************************************************************)
Displaced(s, n) ==
  <<s, n>> \in spoiled \/ channel[s].toMaster.window.max - n >= W

AnswersToBodiesOpen ==
  \A c \in WithBody : Answered(c, {"answer"}) =>
    /\ exchange[c].session = call[c].session
    /\ Opens(c) \/ Displaced(call[c].session, exchange[c].seq)

(***************************************************************************)
(* forwardToRemoteServer tries each address once: every call comes back,   *)
(* whatever is lost, refused or misread on the way.                        *)
(***************************************************************************)
EveryCallEnds == \A c \in Calls : <>(call[c].pc \in {"ok", "failed"})
=============================================================================
