------------------------------ MODULE HttpPush ------------------------------
(***************************************************************************)
(* Reports that an agent pushes to the controller by HTTP: traffic, speed  *)
(* and heartbeats, each a call of doEncryptedHTTP.                         *)
(*                                                                         *)
(* Two goroutines push, the reporter's loop and the recovery loop, and     *)
(* share one session, httpSession.  The controller keeps its side of it in *)
(* a cache with a TTL, by the agent's token.  Without a session a push is  *)
(* a key exchange, which carries the report in the clear; a push that      *)
(* finds the controller's session gone (412) starts one; every other       *)
(* status is an error and the report is given up.                          *)
(*                                                                         *)
(* A session is read and the report is sealed with it in one step: nobody  *)
(* sees the number between the two.  Sessions are numbered in the order in *)
(* which the controller makes them.                                        *)
(***************************************************************************)
EXTENDS ReplayWindow, Sequences

CONSTANTS
  Workers,           \* goroutines that push
  MaxPushes,         \* bound: reports pushed
  MaxFaults          \* bound: expiries, restarts and changes of the setting

ASSUME PushAssumption == MaxPushes \in Nat /\ MaxFaults \in Nat

NoSession == 0

VARIABLES
  key,               \* masterPubKey: none, that of another controller, or right
  required,          \* CryptoConfig.reqEnc of the controller
  worker,            \* what each goroutine is doing
  exchange,          \* its request or the answer to it
  late,              \* requests whose workers have given up
  httpSession,       \* the agent's session
  cached,            \* the session the controller's cache has for the token
  channel,           \* numbers and replay windows of the sessions
  pushed, faults     \* bounds

(***************************************************************************)
(* History variables; no action reads them.                                *)
(*   handled    how often each report reached the controller's handler     *)
(*   disturbed  since the worker's push began, or when it began, something *)
(*              else was under way, or it met a fault                      *)
(*   spoiled    session and number of envelopes of other sessions that     *)
(*              used up a number                                           *)
(***************************************************************************)
VARIABLES handled, disturbed, spoiled

config  == <<key, required>>
history == <<handled, disturbed, spoiled>>
vars    == <<config, worker, exchange, late, httpSession, cached, channel,
             pushed, faults, history>>

-----------------------------------------------------------------------------
Reports  == 1 .. MaxPushes
Sessions == 1 .. Len(channel)

Worker == [pc : {"idle", "waiting", "renegotiating"}, report : Nat, session : Nat,
           result : {"none", "ok", "error"}]

\* On its way a request is plain, a key exchange or sealed; in its handler the
\* answer will be plain, agree on the session or be sealed with it.
OnTheWay  == {"plain", "keyexchange", "sealed"}
InHandler == {"answering", "agreeing", "sealing"}
Request == [kind : OnTheWay \cup InHandler, by : Workers, report : Reports,
            session : Nat, seq : Nat]
Answer  == [kind : {"answer", "agreed", "opaque", "expired", "failed"}, by : Workers,
            report : Reports, session : Nat, seq : Nat]
NoExchange == [kind |-> "none"]

\* toMaster, toAgent: the numbers given out and the receiver's window.
Direction == [sent : Nat, window : Window]
NewDirection == [sent |-> 0, window |-> NewWindow]
Channel == [toMaster : Direction, toAgent : Direction]

TypeOK ==
  /\ key \in {"none", "wrong", "right"} /\ required \in BOOLEAN
  /\ worker \in [Workers -> Worker]
  /\ exchange \in [Workers -> Request \cup Answer \cup {NoExchange}]
  /\ late \subseteq Request
  /\ channel \in Seq(Channel)
  /\ httpSession \in Sessions \cup {NoSession} /\ cached \in Sessions \cup {NoSession}
  /\ pushed \in 0 .. MaxPushes /\ faults \in Nat
  /\ handled \in [Reports -> Nat] /\ disturbed \in [Workers -> BOOLEAN]
  /\ spoiled \subseteq Sessions \X Nat

Idle == [pc |-> "idle", report |-> 0, session |-> NoSession, result |-> "none"]

Init ==
  /\ key \in {"none", "wrong", "right"} /\ required \in BOOLEAN
  /\ worker = [w \in Workers |-> Idle]
  /\ exchange = [w \in Workers |-> NoExchange] /\ late = {}
  /\ httpSession = NoSession /\ cached = NoSession /\ channel = <<>>
  /\ pushed = 0 /\ faults = 0
  /\ handled = [r \in Reports |-> 0]
  /\ disturbed = [w \in Workers |-> FALSE] /\ spoiled = {}

-----------------------------------------------------------------------------
(* The agent: doEncryptedHTTP, doHTTPKeyExchange. *)

\* The two sides do not contradict each other: one has no session, or they have
\* the same one and its next number has not been used up.
InStep ==
  httpSession # NoSession /\ cached # NoSession =>
    /\ httpSession = cached
    /\ Fresh(channel[cached].toMaster.window, channel[cached].toMaster.sent + 1)

\* Nobody else pushes, and nothing that was given up is still on its way.
Quiet == late = {} /\ \A w \in Workers : worker[w].pc = "idle"

DisturbAll == disturbed' = [w \in Workers |-> TRUE]

\* A worker starts a push with the session it finds.
Starts(w) ==
  /\ worker[w].pc = "idle" /\ pushed < MaxPushes
  /\ pushed' = pushed + 1
  /\ worker' = [worker EXCEPT ![w] = [pc |-> "waiting", report |-> pushed + 1,
                                      session |-> httpSession, result |-> "none"]]
  /\ disturbed' = [v \in Workers |->
       v # w \/ ~Quiet \/ ~InStep \/ (key = "none" /\ required)]

Sends(w, kind, report, session, seq) ==
  exchange' = [exchange EXCEPT ![w] =
    [kind |-> kind, by |-> w, report |-> report, session |-> session, seq |-> seq]]

PushPlain(w) ==
  /\ key = "none" /\ Starts(w)
  /\ Sends(w, "plain", pushed + 1, NoSession, 0)
  /\ UNCHANGED <<config, late, httpSession, cached, channel, faults, handled, spoiled>>

NegotiateFirst(w) ==
  /\ key # "none" /\ httpSession = NoSession /\ Starts(w)
  /\ Sends(w, "keyexchange", pushed + 1, NoSession, 0)
  /\ UNCHANGED <<config, late, httpSession, cached, channel, faults, handled, spoiled>>

\* Mutant: two goroutines may take the same number.
NextNumberStays(d) == [d EXCEPT !.sent = 1]

\* sendSeq.Add(1)
NextNumber(d) == [d EXCEPT !.sent = @ + 1]

PushSealed(w) ==
  /\ key # "none" /\ httpSession # NoSession /\ Starts(w)
  /\ channel' = [channel EXCEPT ![httpSession].toMaster = NextNumber(@)]
  /\ Sends(w, "sealed", pushed + 1, httpSession,
           NextNumber(channel[httpSession].toMaster).sent)
  /\ UNCHANGED <<config, late, httpSession, cached, faults, handled, spoiled>>

Answered(w, kinds) == worker[w].pc = "waiting" /\ exchange[w].kind \in kinds

Returns(w, result) ==
  /\ worker' = [worker EXCEPT ![w].pc = "idle", ![w].result = result]
  /\ exchange' = [exchange EXCEPT ![w] = NoExchange]

\* Mutant: the push that met the expired session is given up.
ExpiredGivesUp(w) ==
  /\ Answered(w, {"expired"})
  /\ httpSession' = NoSession
  /\ Returns(w, "error")
  /\ UNCHANGED <<config, late, cached, channel, pushed, faults, history>>

\* 412: the session is forgotten, whichever it is by now.
Expired(w) ==
  /\ Answered(w, {"expired"})
  /\ httpSession' = NoSession
  /\ worker' = [worker EXCEPT ![w].pc = "renegotiating"]
  /\ exchange' = [exchange EXCEPT ![w] = NoExchange]
  /\ UNCHANGED <<config, late, cached, channel, pushed, faults, history>>

NegotiateAgain(w) ==
  /\ worker[w].pc = "renegotiating"
  /\ worker' = [worker EXCEPT ![w].pc = "waiting"]
  /\ Sends(w, "keyexchange", worker[w].report, NoSession, 0)
  /\ UNCHANGED <<config, late, httpSession, cached, channel, pushed, faults, history>>

\* A key exchange is verified with the controller's public key; when that
\* fails the body is returned all the same.
Agreed(w) ==
  /\ Answered(w, {"agreed"})
  /\ httpSession' = IF key = "right" THEN exchange[w].session ELSE httpSession
  /\ Returns(w, "ok")
  /\ UNCHANGED <<config, late, cached, channel, pushed, faults, history>>

ReadPlain(w) ==
  /\ Answered(w, {"answer"})
  /\ Returns(w, "ok")
  /\ UNCHANGED <<config, late, httpSession, cached, channel, pushed, faults, history>>

\* A sealed answer is read with the session the worker has kept.
ReadSealed(w) ==
  LET s == worker[w].session
      win == channel[s].toAgent.window
      seq == exchange[w].seq
  IN
  /\ Answered(w, {"opaque"})
  /\ channel' = IF Fresh(win, seq)
                THEN [channel EXCEPT ![s].toAgent.window = Noted(win, seq)] ELSE channel
  /\ Returns(w, IF Fresh(win, seq) /\ exchange[w].session = s THEN "ok" ELSE "error")
  /\ UNCHANGED <<config, late, httpSession, cached, pushed, faults, history>>

\* Mutants: the status is not looked at; a push that failed is negotiated and
\* sent again.
FailedUnseen(w) ==
  /\ Answered(w, {"failed"})
  /\ Returns(w, "ok")
  /\ UNCHANGED <<config, late, httpSession, cached, channel, pushed, faults, history>>

FailedRetries(w) ==
  /\ Answered(w, {"failed"})
  /\ worker' = [worker EXCEPT ![w].pc = "renegotiating"]
  /\ exchange' = [exchange EXCEPT ![w] = NoExchange]
  /\ httpSession' = NoSession
  /\ UNCHANGED <<config, late, cached, channel, pushed, faults, history>>

\* Any other status: 400 decrypt failed, 403 encryption required, 401, 500.
Failed(w) ==
  /\ Answered(w, {"failed"})
  /\ Returns(w, "error")
  /\ UNCHANGED <<config, late, httpSession, cached, channel, pushed, faults, history>>

\* Mutant: only the sending has a timeout, not the wait for the answer.
GiveUpSending(w) ==
  /\ worker[w].pc = "waiting" /\ exchange[w].kind \in OnTheWay
  /\ Returns(w, "error")
  /\ late' = late \cup {exchange[w]}
  /\ DisturbAll
  /\ UNCHANGED <<config, httpSession, cached, channel, pushed, faults, handled, spoiled>>

\* The client's timeout, or a broken connection: the request may still arrive.
GiveUp(w) ==
  /\ worker[w].pc = "waiting"
  /\ Returns(w, "error")
  /\ late' = late \cup ({exchange[w]} \cap Request)
  /\ DisturbAll
  /\ UNCHANGED <<config, httpSession, cached, channel, pushed, faults, handled, spoiled>>

AgentRestart ==
  /\ faults < MaxFaults /\ faults' = faults + 1
  /\ worker' = [w \in Workers |-> Idle]
  /\ late' = late \cup ({exchange[w] : w \in Workers} \cap Request)
  /\ exchange' = [w \in Workers |-> NoExchange]
  /\ httpSession' = NoSession
  /\ DisturbAll
  /\ UNCHANGED <<config, cached, channel, pushed, handled, spoiled>>

-----------------------------------------------------------------------------
(* The controller: handleHTTPCrypto around a report's handler. *)

\* What becomes of a request whose worker is still waiting, or has given up.
Becomes(q, next) ==
  \/ /\ exchange[q.by] = q
     /\ exchange' = [exchange EXCEPT ![q.by] = next]
     /\ UNCHANGED late
  \/ /\ q \in late
     /\ late' = (late \ {q}) \cup ({next} \cap Request)
     /\ UNCHANGED exchange

Reply(q, kind) == Becomes(q, [q EXCEPT !.kind = kind])

\* The report is handed over to its handler, which will answer in this way.
HandOver(q, kind, session) ==
  /\ Becomes(q, [q EXCEPT !.kind = kind, !.session = session])
  /\ handled' = [handled EXCEPT ![q.report] = @ + 1]

\* A new session takes the cached one's place before the report is looked at.
ReceiveKeyExchange(q) ==
  /\ q.kind = "keyexchange"
  /\ channel' = Append(channel, [toMaster |-> NewDirection, toAgent |-> NewDirection])
  /\ cached' = Len(channel) + 1
  /\ HandOver(q, "agreeing", Len(channel) + 1)
  /\ UNCHANGED <<config, worker, httpSession, pushed, faults, disturbed, spoiled>>

ReceiveExpired(q) ==
  /\ q.kind = "sealed" /\ cached = NoSession
  /\ Reply(q, "expired")
  /\ UNCHANGED <<config, worker, httpSession, cached, channel, pushed, faults, history>>

\* The envelope is read with whatever session is cached; the window is moved
\* before the cipher is tried.
ReceiveSealed(q) ==
  LET win == channel[cached].toMaster.window IN
  /\ q.kind = "sealed" /\ cached # NoSession
  /\ channel' = IF Fresh(win, q.seq)
                THEN [channel EXCEPT ![cached].toMaster.window = Noted(win, q.seq)]
                ELSE channel
  /\ spoiled' = IF Fresh(win, q.seq) /\ q.session # cached
                THEN spoiled \cup {<<cached, q.seq>>} ELSE spoiled
  /\ IF Fresh(win, q.seq) /\ q.session = cached
       THEN HandOver(q, "sealing", cached)
       ELSE Reply(q, "failed") /\ UNCHANGED handled
  /\ UNCHANGED <<config, worker, httpSession, cached, pushed, faults, disturbed>>

\* A report in the clear is refused where encryption is required.
ReceivePlain(q) ==
  /\ q.kind = "plain"
  /\ IF required THEN Reply(q, "failed") /\ UNCHANGED handled
                 ELSE HandOver(q, "answering", NoSession)
  /\ UNCHANGED <<config, worker, httpSession, cached, channel, pushed, faults,
                 disturbed, spoiled>>

\* The handler returns 200: with a session the answer takes its next number.
HandlerReturns(q) ==
  /\ \/ q.kind = "answering" /\ Reply(q, "answer") /\ UNCHANGED channel
     \/ q.kind = "agreeing" /\ Reply(q, "agreed") /\ UNCHANGED channel
     \/ /\ q.kind = "sealing"
        /\ channel' = [channel EXCEPT ![q.session].toAgent = NextNumber(@)]
        /\ Becomes(q, [q EXCEPT !.kind = "opaque",
                         !.seq = NextNumber(channel[q.session].toAgent).sent])
  /\ UNCHANGED <<config, worker, httpSession, cached, pushed, faults, history>>

\* It returns an error, in the clear.
HandlerFails(q) ==
  /\ q.kind \in InHandler
  /\ Reply(q, "failed")
  /\ DisturbAll
  /\ UNCHANGED <<config, worker, httpSession, cached, channel, pushed, faults,
                 handled, spoiled>>

LoseLate(q) ==
  /\ q \in late /\ late' = late \ {q}
  /\ UNCHANGED <<config, worker, exchange, httpSession, cached, channel, pushed, faults,
                 history>>

\* An hour after the exchange, or when the controller starts again.
CacheExpires ==
  /\ faults < MaxFaults /\ faults' = faults + 1
  /\ cached # NoSession /\ cached' = NoSession
  /\ UNCHANGED <<config, worker, exchange, late, httpSession, channel, pushed, history>>

SetRequireEncryption ==
  /\ faults < MaxFaults /\ faults' = faults + 1
  /\ required' = ~required
  /\ DisturbAll
  /\ UNCHANGED <<key, worker, exchange, late, httpSession, cached, channel, pushed,
                 handled, spoiled>>

-----------------------------------------------------------------------------
WorkerStep(w) ==
  \/ PushPlain(w) \/ NegotiateFirst(w) \/ PushSealed(w) \/ Expired(w)
  \/ NegotiateAgain(w) \/ Agreed(w) \/ ReadPlain(w) \/ ReadSealed(w)
  \/ Failed(w) \/ GiveUp(w)

ControllerStep(q) ==
  \/ ReceiveKeyExchange(q) \/ ReceiveExpired(q) \/ ReceiveSealed(q) \/ ReceivePlain(q)
  \/ HandlerReturns(q) \/ HandlerFails(q) \/ LoseLate(q)

Requested == late \cup ({exchange[w] : w \in Workers} \cap Request)

Next ==
  \/ \E w \in Workers : WorkerStep(w)
  \/ \E q \in Requested : ControllerStep(q)
  \/ AgentRestart \/ CacheExpires \/ SetRequireEncryption

Spec == Init /\ [][Next]_vars

\* The client's timeout ends every wait, and the agent's goroutines run.
FairSpec == Spec /\ \A w \in Workers : WF_vars(WorkerStep(w))

-----------------------------------------------------------------------------
(***************************************************************************)
(* A push that succeeds has handed its report over, exactly once, whatever *)
(* key exchange it took (doEncryptedHTTP: what is answered with 412 has    *)
(* not been handled, and no other answer is followed by a second request). *)
(***************************************************************************)
OkIsHandled ==
  \A w \in Workers : worker[w].result = "ok" => handled[worker[w].report] = 1

(***************************************************************************)
(* An expired session costs nothing.  A push that nothing else disturbs    *)
(* succeeds although the controller may lose its session at any moment     *)
(* (doEncryptedHTTP negotiates on 412), and leaves both sides with the     *)
(* session it agreed on.                                                   *)
(***************************************************************************)
LonePushHeals ==
  \A w \in Workers :
    worker[w].pc = "idle" /\ ~disturbed[w] =>
      /\ worker[w].result # "error"
      /\ worker[w].result = "ok" /\ key = "right" /\ cached # NoSession =>
           httpSession = cached

(***************************************************************************)
(* A report sealed with the controller's session will open, unless an      *)
(* envelope of another session has used up its number, or W or more        *)
(* numbers have passed it (Session.Encrypt numbers each report once, and a *)
(* key exchange starts both sides' windows anew).                          *)
(***************************************************************************)
Displaced(s, n) ==
  <<s, n>> \in spoiled \/ channel[s].toMaster.window.max - n >= W

SealedWithCachedOpens ==
  \A w \in Workers :
    LET q == exchange[w] IN
    q.kind = "sealed" /\ q.session = cached =>
      Fresh(channel[cached].toMaster.window, q.seq) \/ Displaced(cached, q.seq)

(***************************************************************************)
(* Pushing implements a channel that hands over each report at most once,  *)
(* those included whose workers have given up.                             *)
(***************************************************************************)
Abstract == INSTANCE AtMostOnce WITH MaxSend <- MaxPushes, sent <- pushed, opened <- handled
ImplementsAtMostOnce == Abstract!ChannelSpec

(***************************************************************************)
(* The reporter's loop is never stuck in a push: a second negotiation does *)
(* not follow the first, and every wait ends.                              *)
(***************************************************************************)
PushesEnd == \A w \in Workers : worker[w].pc # "idle" ~> worker[w].pc = "idle"
=============================================================================
