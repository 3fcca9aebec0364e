--------------------------- MODULE HttpPushProofs ---------------------------
(***************************************************************************)
(* Reports pushed by HTTP, for any number of goroutines, of pushes and of  *)
(* faults, and every window size.                                          *)
(***************************************************************************)
EXTENDS HttpPush, ReplayWindowProofs, SequenceTheorems

LEMMA Constants == MaxPushes \in Nat /\ MaxFaults \in Nat /\ W \in Nat \ {0}
  BY PushAssumption, WindowAssumption

(* Messages: a kind tells requests from answers. *)

LEMMA Kinds ==
  /\ \A q \in Request : /\ q.kind \in OnTheWay \cup InHandler
                        /\ q.by \in Workers /\ q.report \in Reports
                        /\ q.session \in Nat /\ q.seq \in Nat
  /\ \A a \in Answer : /\ a.kind \in {"answer", "agreed", "opaque", "expired", "failed"}
                       /\ a.by \in Workers /\ a.report \in Reports
                       /\ a.session \in Nat /\ a.seq \in Nat
  /\ NoExchange.kind = "none"
  BY DEF Request, Answer, NoExchange

LEMMA Disjoint == /\ \A a \in Answer \cup {NoExchange} : a \notin Request
                  /\ \A m \in Request \cup Answer : m # NoExchange
  BY Kinds DEF OnTheWay, InHandler

LEMMA RequestType ==
  ASSUME NEW kind \in OnTheWay \cup InHandler, NEW w \in Workers, NEW r \in Reports,
         NEW s \in Nat, NEW n \in Nat
  PROVE  [kind |-> kind, by |-> w, report |-> r, session |-> s, seq |-> n] \in Request
  BY DEF Request

\* What a request becomes: the same report, with another kind, session or number.
LEMMA Replied ==
  ASSUME NEW q \in Request, NEW kind \in {"answer", "agreed", "opaque", "expired", "failed"},
         Reply(q, kind)
  PROVE  \E next \in Answer : /\ Becomes(q, next) /\ next.kind = kind /\ next.by = q.by
                              /\ next.report = q.report /\ next.session = q.session
<1> DEFINE next == [q EXCEPT !.kind = kind]
<1>1. /\ next \in Answer /\ next.kind = kind /\ next.by = q.by
      /\ next.report = q.report /\ next.session = q.session
  BY DEF Request, Answer
<1>2. Becomes(q, next)
  BY DEF Reply
<1> HIDE DEF next
<1> QED BY <1>1, <1>2

LEMMA Sealed ==
  ASSUME NEW q \in Request, NEW n \in Nat, Becomes(q, [q EXCEPT !.kind = "opaque", !.seq = n])
  PROVE  \E next \in Answer : /\ Becomes(q, next) /\ next.kind = "opaque" /\ next.by = q.by
                              /\ next.report = q.report /\ next.session = q.session
<1> DEFINE next == [q EXCEPT !.kind = "opaque", !.seq = n]
<1>1. /\ next \in Answer /\ next.kind = "opaque" /\ next.by = q.by
      /\ next.report = q.report /\ next.session = q.session
  BY DEF Request, Answer
<1>2. Becomes(q, next)
  OBVIOUS
<1> HIDE DEF next
<1> QED BY <1>1, <1>2

LEMMA HandedOver ==
  ASSUME NEW q \in Request, NEW kind \in InHandler, NEW s \in Nat, HandOver(q, kind, s)
  PROVE  \E next \in Request : /\ Becomes(q, next) /\ next.kind = kind /\ next.by = q.by
                               /\ next.report = q.report /\ next.session = s
<1> DEFINE next == [q EXCEPT !.kind = kind, !.session = s]
<1>1. /\ next \in Request /\ next.kind = kind /\ next.by = q.by
      /\ next.report = q.report /\ next.session = s
  BY DEF Request
<1>2. Becomes(q, next)
  BY DEF HandOver
<1> HIDE DEF next
<1> QED BY <1>1, <1>2

(* Channels. *)

LEMMA NewChannelType == [toMaster |-> NewDirection, toAgent |-> NewDirection] \in Channel
  BY DEF Channel, NewDirection, NewWindow, Direction, Window

LEMMA ChannelParts ==
  ASSUME NEW chs \in Seq(Channel), NEW s \in 1 .. Len(chs)
  PROVE  /\ chs[s] \in Channel
         /\ chs[s].toMaster \in Direction /\ chs[s].toAgent \in Direction
         /\ chs[s].toMaster.window \in Window /\ chs[s].toAgent.window \in Window
         /\ NextNumber(chs[s].toMaster) \in Direction /\ NextNumber(chs[s].toAgent) \in Direction
         /\ NextNumber(chs[s].toMaster).sent \in Nat /\ NextNumber(chs[s].toAgent).sent \in Nat
<1>1. chs[s] \in Channel
  BY ElementOfSeq
<1>2. \A d \in Direction : /\ d.window \in Window /\ NextNumber(d) \in Direction
                           /\ NextNumber(d).sent \in Nat
  BY DEF Direction, NextNumber
<1>3. chs[s].toMaster \in Direction /\ chs[s].toAgent \in Direction
  BY <1>1 DEF Channel
<1> QED BY <1>1, <1>2, <1>3

LEMMA DirectionChanges ==
  ASSUME NEW chs \in Seq(Channel), NEW s \in 1 .. Len(chs), NEW d \in Direction,
         NEW new, \/ new = [chs EXCEPT ![s].toMaster = d]
                  \/ new = [chs EXCEPT ![s].toAgent = d]
  PROVE  new \in Seq(Channel) /\ Len(new) = Len(chs)
<1>1. chs[s] \in Channel
  BY ElementOfSeq
<1>2. /\ [chs[s] EXCEPT !.toMaster = d] \in Channel
      /\ [chs[s] EXCEPT !.toAgent = d] \in Channel
  BY <1>1 DEF Channel
<1>3. \A e \in Channel : /\ [chs EXCEPT ![s] = e] \in Seq(Channel)
                         /\ Len([chs EXCEPT ![s] = e]) = Len(chs)
  BY ExceptSeq
<1>4. CASE new = [chs EXCEPT ![s].toMaster = d]
  BY <1>2, <1>3, <1>4
<1>5. CASE new = [chs EXCEPT ![s].toAgent = d]
  BY <1>2, <1>3, <1>5
<1> QED BY <1>4, <1>5

LEMMA WindowChanges ==
  ASSUME NEW chs \in Seq(Channel), NEW s \in 1 .. Len(chs), NEW w \in Window,
         NEW new, \/ new = [chs EXCEPT ![s].toMaster.window = w]
                  \/ new = [chs EXCEPT ![s].toAgent.window = w]
  PROVE  new \in Seq(Channel) /\ Len(new) = Len(chs)
<1>1. chs[s] \in Channel
  BY ElementOfSeq
<1>2. /\ [chs[s] EXCEPT !.toMaster.window = w] \in Channel
      /\ [chs[s] EXCEPT !.toAgent.window = w] \in Channel
  BY <1>1 DEF Channel, Direction
<1>3. \A e \in Channel : /\ [chs EXCEPT ![s] = e] \in Seq(Channel)
                         /\ Len([chs EXCEPT ![s] = e]) = Len(chs)
  BY ExceptSeq
<1>4. CASE new = [chs EXCEPT ![s].toMaster.window = w]
  BY <1>2, <1>3, <1>4
<1>5. CASE new = [chs EXCEPT ![s].toAgent.window = w]
  BY <1>2, <1>3, <1>5
<1> QED BY <1>4, <1>5
-----------------------------------------------------------------------------
(* Types, and that the sessions messages name have been agreed on.            *)

Carrying == {"sealed", "sealing", "opaque"}

SessionsKnown ==
  /\ \A w \in Workers :
       /\ exchange[w].kind \in {"sealing", "agreeing", "agreed"} => exchange[w].session \in Sessions
       /\ exchange[w].kind \in Carrying => worker[w].session \in Sessions
       /\ exchange[w] # NoExchange => exchange[w].by = w /\ worker[w].pc = "waiting"
       /\ worker[w].pc # "idle" => worker[w].report \in Reports
  /\ \A q \in late : q.kind \in InHandler \ {"answering"} => q.session \in Sessions

Sound == TypeOK /\ SessionsKnown

LEMMA RequestedType == ASSUME TypeOK PROVE Requested \subseteq Request
  BY DEF Requested, TypeOK

LEMMA SessionsGrow ==
  ASSUME TypeOK, channel' \in Seq(Channel), Len(channel') >= Len(channel)
  PROVE  Sessions \subseteq Sessions' /\ NoSession \notin Sessions /\ Sessions \subseteq Nat
<1>1. Len(channel) \in Nat /\ Len(channel') \in Nat
  BY LenProperties DEF TypeOK
<1> QED BY <1>1 DEF Sessions, NoSession

\* What a request becomes keeps the invariant.
LEMMA BecomesSound ==
  ASSUME Sound, NEW q \in Request, NEW next \in Request \cup Answer, Becomes(q, next),
         next.by = q.by,
         next.kind \in {"sealing", "agreeing", "agreed"} => next.session \in Sessions',
         next.kind \in Carrying => q.kind \in Carrying,
         worker' = worker, Sessions \subseteq Sessions'
  PROVE  /\ exchange' \in [Workers -> Request \cup Answer \cup {NoExchange}]
         /\ late' \subseteq Request /\ SessionsKnown'
<1>0. q.by \in Workers /\ exchange \in [Workers -> Request \cup Answer \cup {NoExchange}]
      /\ late \subseteq Request /\ SessionsKnown
  BY Kinds DEF Sound, TypeOK
<1>1. CASE exchange[q.by] = q /\ exchange' = [exchange EXCEPT ![q.by] = next] /\ UNCHANGED late
  <2>1. exchange'[q.by] = next /\ \A w \in Workers \ {q.by} : exchange'[w] = exchange[w]
    BY <1>0, <1>1
  <2>2. ASSUME NEW w \in Workers
        PROVE  /\ exchange'[w].kind \in {"sealing", "agreeing", "agreed"}
                    => exchange'[w].session \in Sessions'
               /\ exchange'[w].kind \in Carrying => worker'[w].session \in Sessions'
               /\ exchange'[w] # NoExchange => exchange'[w].by = w /\ worker'[w].pc = "waiting"
               /\ worker'[w].pc # "idle" => worker'[w].report \in Reports
    <3>1. CASE w = q.by
      <4>1. q # NoExchange
        BY Disjoint
      <4>2. worker[w].pc = "waiting"
        BY <1>0, <1>1, <3>1, <4>1 DEF SessionsKnown
      <4>3. /\ q.kind \in Carrying => worker[w].session \in Sessions
            /\ worker[w].report \in Reports
        BY <1>0, <1>1, <3>1, <4>2 DEF SessionsKnown
      <4> QED BY <2>1, <3>1, <4>2, <4>3
    <3>2. CASE w # q.by
      BY <1>0, <2>1, <3>2 DEF SessionsKnown
    <3> QED BY <3>1, <3>2
  <2>3. \A m \in late' : m.kind \in InHandler \ {"answering"} => m.session \in Sessions'
    BY <1>0, <1>1 DEF SessionsKnown
  <2>4. exchange' \in [Workers -> Request \cup Answer \cup {NoExchange}]
    BY <1>0, <1>1
  <2> QED BY <1>0, <1>1, <2>2, <2>3, <2>4 DEF SessionsKnown
<1>2. CASE q \in late /\ late' = (late \ {q}) \cup ({next} \cap Request) /\ UNCHANGED exchange
  <2>1. late' \subseteq Request
    BY <1>0, <1>2
  <2>2. \A m \in late' : m.kind \in InHandler \ {"answering"} => m.session \in Sessions'
    BY <1>0, <1>2 DEF SessionsKnown, InHandler
  <2>3. SessionsKnown'
    BY <1>0, <1>2, <2>2 DEF SessionsKnown
  <2> QED BY <1>0, <1>2, <2>1, <2>3
<1> QED BY <1>1, <1>2 DEF Becomes

LEMMA SoundInitially == Init => Sound
<1> SUFFICES ASSUME Init PROVE Sound
  OBVIOUS
<1>1. TypeOK
  <2>1. <<>> \in Seq(Channel) /\ Len(<<>>) = 0
    BY EmptySeq
  <2>2. Idle \in Worker
    BY DEF Idle, Worker, NoSession
  <2> QED BY <2>1, <2>2, Constants DEF Init, TypeOK, NoSession, Sessions, Reports
<1>2. SessionsKnown
  BY Kinds DEF Init, SessionsKnown, Carrying, Idle
<1> QED BY <1>1, <1>2 DEF Sound

LEMMA SoundByPush ==
  ASSUME Sound, NEW w \in Workers, PushPlain(w) \/ NegotiateFirst(w) \/ PushSealed(w)
  PROVE  Sound'
<1>0. /\ TypeOK /\ SessionsKnown /\ MaxPushes \in Nat /\ channel \in Seq(Channel)
      /\ worker \in [Workers -> Worker] /\ worker[w].pc = "idle"
      /\ httpSession \in Nat /\ Sessions \subseteq Nat
  <2>1. Len(channel) \in Nat
    BY LenProperties DEF Sound, TypeOK
  <2>2. worker[w].pc = "idle"
    BY DEF PushPlain, NegotiateFirst, PushSealed, Starts
  <2> QED BY <2>1, <2>2, Constants DEF Sound, TypeOK, Sessions, NoSession
<1>1. /\ Starts(w) /\ pushed + 1 \in Reports /\ pushed' \in 0 .. MaxPushes
  BY <1>0 DEF PushPlain, NegotiateFirst, PushSealed, Starts, TypeOK, Reports
<1>2. UNCHANGED <<config, late, httpSession, cached, faults, handled, spoiled>>
  BY DEF PushPlain, NegotiateFirst, PushSealed
<1>3. /\ worker' \in [Workers -> Worker] /\ worker'[w].session = httpSession
      /\ worker'[w].report \in Reports
      /\ worker'[w].pc = "waiting" /\ \A v \in Workers \ {w} : worker'[v] = worker[v]
      /\ disturbed' \in [Workers -> BOOLEAN]
  <2>1. [pc |-> "waiting", report |-> pushed + 1, session |-> httpSession, result |-> "none"]
          \in Worker
    BY <1>0, <1>1 DEF Worker, Reports
  <2> QED BY <1>0, <1>1, <2>1 DEF Starts
<1>4. PICK kind \in OnTheWay, s \in Nat, n \in Nat :
        /\ Sends(w, kind, pushed + 1, s, n)
        /\ kind \in Carrying => httpSession # NoSession
        /\ channel' \in Seq(Channel) /\ Len(channel') = Len(channel)
  <2>1. CASE PushPlain(w)
    BY <1>0, <2>1 DEF PushPlain, OnTheWay, NoSession, Carrying
  <2>2. CASE NegotiateFirst(w)
    BY <1>0, <2>2 DEF NegotiateFirst, OnTheWay, NoSession, Carrying
  <2>3. CASE PushSealed(w)
    <3> DEFINE d == NextNumber(channel[httpSession].toMaster)
    <3>1. httpSession \in 1 .. Len(channel)
      BY <2>3 DEF PushSealed, Sound, TypeOK, Sessions
    <3>2. d \in Direction /\ d.sent \in Nat
      BY <1>0, <3>1, ChannelParts
    <3>3. channel' = [channel EXCEPT ![httpSession].toMaster = d]
      BY <2>3 DEF PushSealed
    <3>4. channel' \in Seq(Channel) /\ Len(channel') = Len(channel)
      <4> HIDE DEF d
      <4> QED BY <1>0, <3>1, <3>2, <3>3, DirectionChanges
    <3>5. Sends(w, "sealed", pushed + 1, httpSession, d.sent) /\ httpSession # NoSession
      BY <2>3 DEF PushSealed
    <3> HIDE DEF d
    <3> QED BY <1>0, <3>2, <3>4, <3>5 DEF OnTheWay
  <2> QED BY <2>1, <2>2, <2>3
<1> DEFINE m == [kind |-> kind, by |-> w, report |-> pushed + 1, session |-> s, seq |-> n]
<1>5. m \in Request /\ m.by = w /\ m.kind = kind /\ exchange' = [exchange EXCEPT ![w] = m]
  BY <1>1, <1>4, RequestType DEF Sends
<1> HIDE DEF m
<1>6. /\ exchange' \in [Workers -> Request \cup Answer \cup {NoExchange}]
      /\ exchange'[w] = m /\ \A v \in Workers \ {w} : exchange'[v] = exchange[v]
  BY <1>0, <1>5 DEF TypeOK
<1>7. Sessions' = Sessions
  BY <1>4 DEF Sessions
<1>8. TypeOK'
  BY <1>0, <1>1, <1>2, <1>3, <1>4, <1>6, <1>7 DEF TypeOK, config
<1>9. SessionsKnown'
  <2>1. ASSUME NEW v \in Workers
        PROVE  /\ exchange'[v].kind \in {"sealing", "agreeing", "agreed"}
                    => exchange'[v].session \in Sessions'
               /\ exchange'[v].kind \in Carrying => worker'[v].session \in Sessions'
               /\ exchange'[v] # NoExchange => exchange'[v].by = v /\ worker'[v].pc = "waiting"
               /\ worker'[v].pc # "idle" => worker'[v].report \in Reports
    <3>1. CASE v = w
      <4>1. exchange'[v].kind \notin {"sealing", "agreeing", "agreed"}
        BY <1>4, <1>5, <1>6, <3>1 DEF OnTheWay
      <4>2. exchange'[v].kind \in Carrying => worker'[v].session \in Sessions'
        BY <1>0, <1>3, <1>4, <1>5, <1>6, <1>7, <3>1 DEF TypeOK
      <4> QED BY <1>3, <1>5, <1>6, <3>1, <4>1, <4>2
    <3>2. CASE v # w
      BY <1>0, <1>3, <1>6, <1>7, <3>2 DEF SessionsKnown
    <3> QED BY <3>1, <3>2
  <2>2. \A q \in late' : q.kind \in InHandler \ {"answering"} => q.session \in Sessions'
    BY <1>0, <1>2, <1>7 DEF SessionsKnown
  <2> QED BY <2>1, <2>2 DEF SessionsKnown
<1> QED BY <1>8, <1>9 DEF Sound

\* A worker reads an answer, negotiates again or gives up.
LEMMA SoundByWorker ==
  ASSUME Sound, NEW w \in Workers,
         \/ Expired(w) \/ NegotiateAgain(w) \/ Agreed(w) \/ ReadPlain(w) \/ ReadSealed(w)
         \/ Failed(w) \/ GiveUp(w)
  PROVE  Sound'
<1>0. /\ TypeOK /\ SessionsKnown /\ channel \in Seq(Channel)
      /\ worker \in [Workers -> Worker] /\ worker[w] \in Worker
      /\ exchange \in [Workers -> Request \cup Answer \cup {NoExchange}]
      /\ late \subseteq Request
  BY DEF Sound, TypeOK
<1>1. UNCHANGED <<config, cached, pushed, faults, handled, spoiled>>
  BY DEF Expired, NegotiateAgain, Agreed, ReadPlain, ReadSealed, Failed, GiveUp, history
<1>2. disturbed' \in [Workers -> BOOLEAN]
  <2>1. CASE GiveUp(w)
    BY <2>1 DEF GiveUp, DisturbAll
  <2>2. CASE ~GiveUp(w)
    BY <1>0, <2>2 DEF Expired, NegotiateAgain, Agreed, ReadPlain, ReadSealed, Failed, history, TypeOK
  <2> QED BY <2>1, <2>2
<1>3. /\ worker' \in [Workers -> Worker] /\ \A v \in Workers \ {w} : worker'[v] = worker[v]
      /\ worker'[w].pc = "waiting" <=> NegotiateAgain(w)
      /\ worker'[w].pc # "idle" => worker'[w].report \in Reports
  <2>1. PICK new \in Worker :
          /\ worker' = [worker EXCEPT ![w] = new]
          /\ new.pc = "waiting" <=> NegotiateAgain(w)
          /\ new.pc # "idle" => worker[w].pc # "idle" /\ new.report = worker[w].report
    <3>0. /\ \A p \in {"waiting", "renegotiating"} :
               /\ [worker[w] EXCEPT !.pc = p] \in Worker
               /\ [worker[w] EXCEPT !.pc = p].pc = p
               /\ [worker[w] EXCEPT !.pc = p].report = worker[w].report
          /\ \A r \in {"ok", "error"} :
               /\ [worker[w] EXCEPT !.pc = "idle", !.result = r] \in Worker
               /\ [worker[w] EXCEPT !.pc = "idle", !.result = r].pc = "idle"
      BY <1>0 DEF Worker
    <3>1. CASE NegotiateAgain(w)
      <4>1. worker' = [worker EXCEPT ![w] = [worker[w] EXCEPT !.pc = "waiting"]]
        BY <3>1 DEF NegotiateAgain
      <4>2. worker[w].pc # "idle"
        BY <3>1 DEF NegotiateAgain
      <4> QED BY <3>0, <3>1, <4>1, <4>2
    <3>2. CASE Expired(w)
      <4> DEFINE new == [worker[w] EXCEPT !.pc = "renegotiating"]
      <4>1. worker' = [worker EXCEPT ![w] = new]
        BY <3>2 DEF Expired
      <4>2. worker[w].pc # "idle" /\ ~NegotiateAgain(w)
        BY <3>2 DEF Expired, Answered, NegotiateAgain
      <4>3. new \in Worker /\ new.pc = "renegotiating" /\ new.report = worker[w].report
        BY <3>0
      <4> HIDE DEF new
      <4> QED BY <4>1, <4>2, <4>3
    <3>3. ASSUME NEW r \in {"ok", "error"}, Returns(w, r)
          PROVE  \E new \in Worker : worker' = [worker EXCEPT ![w] = new] /\ new.pc = "idle"
      <4>1. worker' = [worker EXCEPT ![w] = [worker[w] EXCEPT !.pc = "idle", !.result = r]]
        BY <3>3 DEF Returns
      <4> QED BY <3>0, <4>1
    <3>4. CASE ~NegotiateAgain(w) /\ ~Expired(w)
      <4>1. \E r \in {"ok", "error"} : Returns(w, r)
        BY <3>4 DEF Agreed, ReadPlain, ReadSealed, Failed, GiveUp
      <4> QED BY <3>3, <3>4, <4>1
    <3> QED BY <3>1, <3>2, <3>4
  <2>2. worker'[w] = new /\ \A v \in Workers \ {w} : worker'[v] = worker[v]
    BY <1>0, <2>1
  <2> QED BY <1>0, <2>1, <2>2 DEF SessionsKnown
<1>4. channel' \in Seq(Channel) /\ Len(channel') = Len(channel)
  <2>1. CASE ReadSealed(w)
    <3> DEFINE t == worker[w].session
               win == channel[t].toAgent.window
               n == exchange[w].seq
    <3>1. exchange[w].kind = "opaque" /\ exchange[w] \in Request \cup Answer \cup {NoExchange}
      BY <1>0, <2>1 DEF ReadSealed, Answered
    <3>2. t \in 1 .. Len(channel) /\ n \in Nat
      BY <1>0, <3>1, Kinds DEF SessionsKnown, Carrying, Sessions
    <3>3. win \in Window
      BY <1>0, <3>2, ChannelParts
    <3>4. CASE Fresh(win, n)
      <4>1. Noted(win, n) \in Window
        BY <3>2, <3>3, <3>4, NotedType
      <4>2. PICK v \in Window : channel' = [channel EXCEPT ![t].toAgent.window = v]
        BY <2>1, <3>4, <4>1 DEF ReadSealed
      <4> HIDE DEF t
      <4>3. channel \in Seq(Channel)
        BY <1>0
      <4> QED BY <3>2, <4>2, <4>3, WindowChanges
    <3>5. CASE ~Fresh(win, n)
      BY <1>0, <2>1, <3>5 DEF ReadSealed
    <3> QED BY <3>4, <3>5
  <2>2. CASE ~ReadSealed(w)
    BY <1>0, <2>2 DEF Expired, NegotiateAgain, Agreed, ReadPlain, Failed, GiveUp
  <2> QED BY <2>1, <2>2
<1>5. Sessions' = Sessions
  BY <1>4 DEF Sessions
<1>6. httpSession' \in Sessions \cup {NoSession}
  <2>1. CASE Agreed(w)
    <3>1. exchange[w].session \in Sessions
      BY <1>0, <2>1 DEF Agreed, Answered, SessionsKnown
    <3> QED BY <1>0, <2>1, <3>1 DEF Agreed, TypeOK
  <2>2. CASE ~Agreed(w)
    BY <1>0, <2>2 DEF Expired, NegotiateAgain, ReadPlain, ReadSealed, Failed, GiveUp, TypeOK
  <2> QED BY <2>1, <2>2
<1>7. /\ late' \subseteq Request
      /\ \A q \in late' : q \in late \/ q = exchange[w]
  BY <1>0 DEF Expired, NegotiateAgain, Agreed, ReadPlain, ReadSealed, Failed, GiveUp
<1>8. PICK m \in Request \cup {NoExchange} :
        /\ exchange' = [exchange EXCEPT ![w] = m]
        /\ m # NoExchange => m.by = w /\ m.kind = "keyexchange" /\ NegotiateAgain(w)
  <2>1. CASE NegotiateAgain(w)
    <3> DEFINE m == [kind |-> "keyexchange", by |-> w, report |-> worker[w].report,
                     session |-> NoSession, seq |-> 0]
    <3>1. worker[w].report \in Reports
      BY <1>0, <2>1 DEF NegotiateAgain, SessionsKnown
    <3>2. m \in Request /\ m.by = w /\ m.kind = "keyexchange"
      BY <3>1, RequestType DEF OnTheWay, NoSession
    <3>3. exchange' = [exchange EXCEPT ![w] = m]
      BY <2>1 DEF NegotiateAgain, Sends
    <3> QED BY <2>1, <3>2, <3>3
  <2>2. CASE ~NegotiateAgain(w)
    BY <2>2 DEF Expired, Agreed, ReadPlain, ReadSealed, Failed, GiveUp, Returns
  <2> QED BY <2>1, <2>2
<1>9. /\ exchange' \in [Workers -> Request \cup Answer \cup {NoExchange}]
      /\ exchange'[w] = m /\ \A v \in Workers \ {w} : exchange'[v] = exchange[v]
  BY <1>0, <1>8
<1>10. TypeOK'
  BY <1>0, <1>1, <1>2, <1>3, <1>4, <1>5, <1>6, <1>7, <1>9 DEF TypeOK, config
<1>11. SessionsKnown'
  <2>1. ASSUME NEW v \in Workers
        PROVE  /\ exchange'[v].kind \in {"sealing", "agreeing", "agreed"}
                    => exchange'[v].session \in Sessions'
               /\ exchange'[v].kind \in Carrying => worker'[v].session \in Sessions'
               /\ exchange'[v] # NoExchange => exchange'[v].by = v /\ worker'[v].pc = "waiting"
               /\ worker'[v].pc # "idle" => worker'[v].report \in Reports
    <3>1. CASE v = w
      <4>1. m # NoExchange => worker'[w].pc = "waiting"
        BY <1>3, <1>8
      <4>2. m.kind \in {"keyexchange", "none"}
        BY <1>8, Kinds
      <4> QED BY <1>3, <1>8, <1>9, <3>1, <4>1, <4>2 DEF Carrying
    <3>2. CASE v # w
      BY <1>0, <1>3, <1>5, <1>9, <3>2 DEF SessionsKnown
    <3> QED BY <3>1, <3>2
  <2>2. ASSUME NEW q \in late', q.kind \in InHandler \ {"answering"} PROVE q.session \in Sessions'
    <3>1. CASE q \in late
      BY <1>0, <1>5, <2>2, <3>1 DEF SessionsKnown
    <3>2. CASE q = exchange[w]
      BY <1>0, <1>5, <2>2, <3>2 DEF SessionsKnown, InHandler
    <3> QED BY <1>7, <3>1, <3>2
  <2> QED BY <2>1, <2>2 DEF SessionsKnown
<1> QED BY <1>10, <1>11 DEF Sound

\* The controller reads a request, or its handler returns.
LEMMA SoundByController ==
  ASSUME Sound, NEW q \in Requested,
         \/ ReceiveKeyExchange(q) \/ ReceiveExpired(q) \/ ReceiveSealed(q) \/ ReceivePlain(q)
         \/ HandlerReturns(q) \/ HandlerFails(q)
  PROVE  Sound'
<1>0. /\ TypeOK /\ SessionsKnown /\ q \in Request /\ q.session \in Nat /\ q.seq \in Nat
      /\ q.report \in Reports /\ q.by \in Workers
      /\ channel \in Seq(Channel) /\ Len(channel) \in Nat /\ late \subseteq Request
  BY RequestedType, Kinds, LenProperties DEF Sound, TypeOK
<1>1. /\ UNCHANGED <<config, worker, httpSession, pushed, faults>>
      /\ disturbed' \in [Workers -> BOOLEAN]
  <2>1. UNCHANGED <<config, worker, httpSession, pushed, faults>>
    BY DEF ReceiveKeyExchange, ReceiveExpired, ReceiveSealed, ReceivePlain, HandlerReturns,
       HandlerFails, history
  <2>2. UNCHANGED disturbed \/ DisturbAll
    BY DEF ReceiveKeyExchange, ReceiveExpired, ReceiveSealed, ReceivePlain, HandlerReturns,
       HandlerFails, history
  <2> QED BY <1>0, <2>1, <2>2 DEF TypeOK, DisturbAll
<1>2. q.kind \in InHandler \ {"answering"} => q.session \in Sessions
  <2>1. CASE q \in late
    BY <1>0, <2>1 DEF SessionsKnown
  <2>2. CASE \E w \in Workers : q = exchange[w]
    BY <1>0, <2>2 DEF SessionsKnown, InHandler
  <2> QED BY <2>1, <2>2 DEF Requested
<1>3. /\ channel' \in Seq(Channel) /\ Sessions \subseteq Sessions' /\ Len(channel') >= Len(channel)
      /\ ReceiveKeyExchange(q) => Len(channel) + 1 \in Sessions'
  <2>1. CASE ReceiveKeyExchange(q)
    <3>1. channel' = Append(channel, [toMaster |-> NewDirection, toAgent |-> NewDirection])
      BY <2>1 DEF ReceiveKeyExchange
    <3>2. channel' \in Seq(Channel) /\ Len(channel') = Len(channel) + 1
      BY <1>0, <3>1, NewChannelType, AppendProperties
    <3> QED BY <1>0, <3>2 DEF Sessions
  <2>2. CASE ReceiveSealed(q)
    <3> DEFINE win == channel[cached].toMaster.window
    <3>1. cached \in 1 .. Len(channel)
      BY <1>0, <2>2 DEF ReceiveSealed, TypeOK, Sessions
    <3>2. win \in Window
      BY <1>0, <3>1, ChannelParts
    <3>3. CASE Fresh(win, q.seq)
      <4>1. Noted(win, q.seq) \in Window
        BY <1>0, <3>2, <3>3, NotedType
      <4>2. PICK v \in Window : channel' = [channel EXCEPT ![cached].toMaster.window = v]
        BY <2>2, <3>3, <4>1 DEF ReceiveSealed
      <4>3. channel \in Seq(Channel)
        BY <1>0
      <4>4. channel' \in Seq(Channel) /\ Len(channel') = Len(channel)
        BY <3>1, <4>2, <4>3, WindowChanges
      <4>5. ~ReceiveKeyExchange(q)
        BY <2>2 DEF ReceiveSealed, ReceiveKeyExchange
      <4> QED BY <1>0, <4>4, <4>5 DEF Sessions
    <3>4. CASE ~Fresh(win, q.seq)
      BY <1>0, <2>2, <3>4 DEF ReceiveSealed, ReceiveKeyExchange, Sessions
    <3> QED BY <3>3, <3>4
  <2>3. CASE HandlerReturns(q)
    <3>1. CASE q.kind = "sealing"
      <4> DEFINE d == NextNumber(channel[q.session].toAgent)
      <4>1. q.session \in 1 .. Len(channel)
        BY <1>2, <3>1 DEF InHandler, Sessions
      <4>2. d \in Direction
        BY <1>0, <4>1, ChannelParts
      <4>3. channel' = [channel EXCEPT ![q.session].toAgent = d]
        BY <2>3, <3>1 DEF HandlerReturns
      <4> HIDE DEF d
      <4>4. channel' \in Seq(Channel) /\ Len(channel') = Len(channel)
        BY <1>0, <4>1, <4>2, <4>3, DirectionChanges
      <4> QED BY <1>0, <3>1, <4>4 DEF Sessions, ReceiveKeyExchange
    <3>2. CASE q.kind # "sealing"
      BY <1>0, <2>3, <3>2 DEF HandlerReturns, ReceiveKeyExchange, Sessions
    <3> QED BY <3>1, <3>2
  <2>4. CASE ReceiveExpired(q) \/ ReceivePlain(q) \/ HandlerFails(q)
    BY <1>0, <2>4 DEF ReceiveExpired, ReceivePlain, HandlerFails, history, ReceiveKeyExchange,
       InHandler, Sessions
  <2> QED BY <2>1, <2>2, <2>3, <2>4
<1>4. PICK next \in Request \cup Answer :
        /\ Becomes(q, next) /\ next.by = q.by
        /\ next.kind \in {"sealing", "agreeing", "agreed"} => next.session \in Sessions'
        /\ next.kind \in Carrying => q.kind \in Carrying
  <2>1. ASSUME NEW kind \in {"expired", "failed", "answer"}, Reply(q, kind)
        PROVE  \E next \in Request \cup Answer :
                 /\ Becomes(q, next) /\ next.by = q.by
                 /\ next.kind \in {"sealing", "agreeing", "agreed"} => next.session \in Sessions'
                 /\ next.kind \in Carrying => q.kind \in Carrying
    <3>1. PICK next \in Answer : Becomes(q, next) /\ next.by = q.by /\ next.kind = kind
      BY <1>0, <2>1, Replied
    <3> QED BY <3>1 DEF Carrying
  <2>2. CASE ReceiveKeyExchange(q)
    <3>1. PICK next \in Request : /\ Becomes(q, next) /\ next.by = q.by /\ next.kind = "agreeing"
                                  /\ next.session = Len(channel) + 1
      <4>1. HandOver(q, "agreeing", Len(channel) + 1)
        BY <2>2 DEF ReceiveKeyExchange
      <4>2. Len(channel) + 1 \in Nat /\ "agreeing" \in InHandler
        BY <1>0 DEF InHandler
      <4> QED BY <1>0, <4>1, <4>2, HandedOver
    <3> QED BY <1>3, <2>2, <3>1 DEF Carrying
  <2>3. ASSUME ReceiveSealed(q), HandOver(q, "sealing", cached)
        PROVE  \E next \in Request \cup Answer :
                 /\ Becomes(q, next) /\ next.by = q.by
                 /\ next.kind \in {"sealing", "agreeing", "agreed"} => next.session \in Sessions'
                 /\ next.kind \in Carrying => q.kind \in Carrying
    <3>1. cached \in Sessions /\ q.kind = "sealed" /\ cached \in Nat
      BY <1>0, <2>3 DEF ReceiveSealed, TypeOK, Sessions
    <3>2. PICK next \in Request : /\ Becomes(q, next) /\ next.by = q.by /\ next.kind = "sealing"
                                  /\ next.session = cached
      BY <1>0, <2>3, <3>1, HandedOver DEF InHandler
    <3> QED BY <1>3, <3>1, <3>2 DEF Carrying
  <2>4. ASSUME HandOver(q, "answering", NoSession)
        PROVE  \E next \in Request \cup Answer :
                 /\ Becomes(q, next) /\ next.by = q.by
                 /\ next.kind \in {"sealing", "agreeing", "agreed"} => next.session \in Sessions'
                 /\ next.kind \in Carrying => q.kind \in Carrying
    <3>1. PICK next \in Request : Becomes(q, next) /\ next.by = q.by /\ next.kind = "answering"
      BY <1>0, <2>4, HandedOver DEF InHandler, NoSession
    <3> QED BY <3>1 DEF Carrying
  <2>5. CASE HandlerReturns(q)
    <3>1. CASE q.kind = "sealing"
      <4> DEFINE n == NextNumber(channel[q.session].toAgent).sent
      <4>1. q.session \in 1 .. Len(channel)
        BY <1>2, <3>1 DEF InHandler, Sessions
      <4>2. n \in Nat
        BY <1>0, <4>1, ChannelParts
      <4>3. Becomes(q, [q EXCEPT !.kind = "opaque", !.seq = n])
        BY <2>5, <3>1 DEF HandlerReturns
      <4> HIDE DEF n
      <4>4. PICK next \in Answer : Becomes(q, next) /\ next.by = q.by /\ next.kind = "opaque"
        BY <1>0, <4>2, <4>3, Sealed
      <4> QED BY <3>1, <4>4 DEF Carrying
    <3>2. CASE q.kind = "agreeing"
      <4>1. Reply(q, "agreed")
        BY <2>5, <3>2 DEF HandlerReturns
      <4>2. PICK next \in Answer : /\ Becomes(q, next) /\ next.by = q.by /\ next.kind = "agreed"
                                   /\ next.session = q.session
        BY <1>0, <4>1, Replied
      <4>3. q.session \in Sessions
        BY <1>2, <3>2 DEF InHandler
      <4> QED BY <1>3, <4>2, <4>3 DEF Carrying
    <3>3. CASE q.kind = "answering"
      BY <2>1, <2>5, <3>3 DEF HandlerReturns
    <3> QED BY <2>5, <3>1, <3>2, <3>3 DEF HandlerReturns
  <2>6. CASE ReceiveSealed(q) \/ ReceivePlain(q)
    BY <2>1, <2>3, <2>4, <2>6 DEF ReceiveSealed, ReceivePlain
  <2>7. CASE ReceiveExpired(q) \/ HandlerFails(q)
    BY <2>1, <2>7 DEF ReceiveExpired, HandlerFails
  <2> QED BY <2>2, <2>5, <2>6, <2>7
<1>5. /\ exchange' \in [Workers -> Request \cup Answer \cup {NoExchange}]
      /\ late' \subseteq Request /\ SessionsKnown'
  BY <1>0, <1>1, <1>3, <1>4, BecomesSound
<1>6. cached' \in Sessions' \cup {NoSession}
  <2>1. CASE ReceiveKeyExchange(q)
    BY <1>3, <2>1 DEF ReceiveKeyExchange
  <2>2. CASE ~ReceiveKeyExchange(q)
    BY <1>0, <1>3, <2>2 DEF ReceiveExpired, ReceiveSealed, ReceivePlain, HandlerReturns,
       HandlerFails, TypeOK
  <2> QED BY <2>1, <2>2
<1>7. handled' \in [Reports -> Nat]
  <2>1. UNCHANGED handled \/ handled' = [handled EXCEPT ![q.report] = @ + 1]
    BY DEF ReceiveKeyExchange, ReceiveExpired, ReceiveSealed, ReceivePlain, HandlerReturns,
       HandlerFails, HandOver, history
  <2> QED BY <1>0, <2>1 DEF TypeOK
<1>8. spoiled' \subseteq Sessions' \X Nat
  <2>1. \/ UNCHANGED spoiled
        \/ cached # NoSession /\ spoiled' = spoiled \cup {<<cached, q.seq>>}
    BY DEF ReceiveKeyExchange, ReceiveExpired, ReceiveSealed, ReceivePlain, HandlerReturns,
       HandlerFails, history
  <2> QED BY <1>0, <1>3, <2>1 DEF TypeOK
<1>9. TypeOK'
  BY <1>0, <1>1, <1>3, <1>5, <1>6, <1>7, <1>8 DEF TypeOK, config
<1> QED BY <1>5, <1>9 DEF Sound

\* Restarts, expiry, the setting, and what is lost.
LEMMA SoundByFaults ==
  ASSUME Sound,
         \/ AgentRestart \/ CacheExpires \/ SetRequireEncryption
         \/ \E q \in Requested : LoseLate(q)
         \/ UNCHANGED vars
  PROVE  Sound'
<1>0. TypeOK /\ SessionsKnown /\ MaxFaults \in Nat
  BY Constants DEF Sound
<1>1. CASE AgentRestart
  <2>1. UNCHANGED <<config, cached, channel, pushed, handled, spoiled>> /\ Sessions' = Sessions
    BY <1>1 DEF AgentRestart, Sessions
  <2>2. Idle \in Worker /\ Idle.pc = "idle"
    BY DEF Idle, Worker, NoSession
  <2>3. /\ late' \subseteq Request
        /\ \A q \in late' : q \in late \/ \E w \in Workers : q = exchange[w]
    BY <1>0, <1>1 DEF AgentRestart, TypeOK
  <2>4. TypeOK'
    BY <1>0, <1>1, <2>1, <2>2, <2>3 DEF TypeOK, AgentRestart, DisturbAll, config
  <2>5. \A q \in late' : q.kind \in InHandler \ {"answering"} => q.session \in Sessions'
    BY <1>0, <2>1, <2>3 DEF SessionsKnown, InHandler
  <2>6. SessionsKnown'
    BY <1>1, <2>2, <2>5, Kinds DEF AgentRestart, SessionsKnown, Carrying
  <2> QED BY <2>4, <2>6 DEF Sound
<1>2. CASE CacheExpires \/ SetRequireEncryption
  <2>1. UNCHANGED <<worker, exchange, late, channel>> /\ Sessions' = Sessions
    BY <1>2 DEF CacheExpires, SetRequireEncryption, Sessions
  <2>2. TypeOK'
    <3>1. CASE CacheExpires
      BY <1>0, <2>1, <3>1 DEF TypeOK, CacheExpires, config, history
    <3>2. CASE SetRequireEncryption
      BY <1>0, <2>1, <3>2 DEF TypeOK, SetRequireEncryption, DisturbAll
    <3> QED BY <1>2, <3>1, <3>2
  <2> QED BY <1>0, <2>1, <2>2 DEF Sound, SessionsKnown
<1>3. CASE (\E q \in Requested : LoseLate(q)) \/ UNCHANGED vars
  <2>1. /\ UNCHANGED <<config, worker, exchange, httpSession, cached, channel, pushed, faults, history>>
        /\ Sessions' = Sessions /\ late' \subseteq late
    BY <1>3 DEF LoseLate, vars, Sessions
  <2>2. TypeOK'
    BY <1>0, <2>1 DEF TypeOK, config, history
  <2> QED BY <1>0, <2>1, <2>2 DEF Sound, SessionsKnown
<1> QED BY <1>1, <1>2, <1>3

LEMMA SoundPreserved == Sound /\ [Next]_vars => Sound'
<1> SUFFICES ASSUME Sound, [Next]_vars PROVE Sound'
  OBVIOUS
<1>1. ASSUME NEW w \in Workers, WorkerStep(w) PROVE Sound'
  BY <1>1, SoundByPush, SoundByWorker DEF WorkerStep
<1>2. ASSUME NEW q \in Requested, ControllerStep(q) PROVE Sound'
  BY <1>2, SoundByController, SoundByFaults DEF ControllerStep
<1> QED BY <1>1, <1>2, SoundByFaults DEF Next

\* Workers, exchanges, sessions and windows stay within their types.
THEOREM PushTypeCorrect == Spec => []TypeOK
<1>1. Sound => TypeOK
  BY DEF Sound
<1> QED BY <1>1, SoundInitially, SoundPreserved, PTL DEF Spec

-----------------------------------------------------------------------------
(* A report is in one place: with the worker that pushes it, or in a request  *)
(* that was given up.  What has been handled follows from where it is.        *)

HandledBy(m) ==
  /\ m.kind \in OnTheWay \cup {"expired"} => handled[m.report] = 0
  /\ m.kind \in InHandler \cup {"answer", "agreed", "opaque"} => handled[m.report] = 1

OwnReport(w) ==
  /\ worker[w].report \in 0 .. pushed
  /\ worker[w].pc # "idle" => worker[w].report # 0 /\ worker[w].result = "none"
  /\ worker[w].result # "none" => worker[w].report # 0
  /\ worker[w].pc = "waiting" => /\ exchange[w] # NoExchange
                                 /\ exchange[w].report = worker[w].report
                                 /\ HandledBy(exchange[w])
  /\ worker[w].pc = "renegotiating" => handled[worker[w].report] = 0
  /\ worker[w].result = "ok" => handled[worker[w].report] = 1

WorkersApart ==
  \A v, w \in Workers : v # w /\ worker[v].report = worker[w].report => worker[v].report = 0

LateApart(q) ==
  /\ q.report <= pushed /\ HandledBy(q)
  /\ \A p \in late : p.report = q.report => p = q
  /\ \A w \in Workers : worker[w].pc # "idle" => worker[w].report # q.report

AtMostOneEach ==
  \A r \in Reports : handled[r] \in {0, 1} /\ (r > pushed => handled[r] = 0)

PushInv ==
  /\ \A w \in Workers : OwnReport(w)
  /\ WorkersApart
  /\ \A q \in late : LateApart(q)
  /\ AtMostOneEach

LEMMA PushInitially == Init => PushInv
<1> SUFFICES ASSUME Init PROVE PushInv
  OBVIOUS
<1>1. \A w \in Workers : worker[w] = Idle
  BY DEF Init
<1>2. Idle.pc = "idle" /\ Idle.report = 0 /\ Idle.result = "none"
  BY DEF Idle
<1> QED BY <1>1, <1>2 DEF Init, PushInv, OwnReport, WorkersApart, AtMostOneEach

\* A new push takes a report that is nowhere yet.
LEMMA InvByPush ==
  ASSUME Sound, Sound', PushInv, NEW w \in Workers,
         PushPlain(w) \/ NegotiateFirst(w) \/ PushSealed(w)
  PROVE  PushInv'
<1>0. /\ TypeOK /\ SessionsKnown /\ worker \in [Workers -> Worker]
      /\ exchange \in [Workers -> Request \cup Answer \cup {NoExchange}]
      /\ pushed \in Nat /\ late \subseteq Request
  BY Constants DEF Sound, TypeOK
<1>1. /\ Starts(w) /\ pushed + 1 \in Reports /\ UNCHANGED <<late, handled>>
  <2>1. Starts(w) /\ UNCHANGED <<late, handled>>
    BY DEF PushPlain, NegotiateFirst, PushSealed
  <2>2. pushed < MaxPushes
    BY <2>1 DEF Starts
  <2> QED BY <1>0, <2>1, <2>2, Constants DEF Reports
<1>2. /\ pushed' = pushed + 1 /\ worker'[w].report = pushed + 1 /\ worker'[w].pc = "waiting"
      /\ worker'[w].result = "none" /\ \A v \in Workers \ {w} : worker'[v] = worker[v]
  BY <1>0, <1>1 DEF Starts
<1>3. PICK m \in Request : /\ exchange' = [exchange EXCEPT ![w] = m]
                           /\ m.kind \in OnTheWay /\ m.report = pushed + 1
  <2>1. PICK kind \in OnTheWay, s \in Nat, n \in Nat : Sends(w, kind, pushed + 1, s, n)
    <3>1. CASE PushPlain(w) \/ NegotiateFirst(w)
      BY <3>1 DEF PushPlain, NegotiateFirst, OnTheWay, NoSession
    <3>2. CASE PushSealed(w)
      <4> DEFINE d == NextNumber(channel[httpSession].toMaster)
      <4>1. httpSession \in 1 .. Len(channel) /\ channel \in Seq(Channel) /\ httpSession \in Nat
        BY <3>2 DEF PushSealed, Sound, TypeOK, Sessions
      <4>2. d.sent \in Nat
        BY <4>1, ChannelParts
      <4>3. Sends(w, "sealed", pushed + 1, httpSession, d.sent)
        BY <3>2 DEF PushSealed
      <4> HIDE DEF d
      <4> QED BY <4>1, <4>2, <4>3 DEF OnTheWay
    <3> QED BY <3>1, <3>2
  <2> DEFINE m == [kind |-> kind, by |-> w, report |-> pushed + 1, session |-> s, seq |-> n]
  <2>2. m \in Request /\ m.kind = kind /\ m.report = pushed + 1
    BY <1>1, RequestType
  <2>3. exchange' = [exchange EXCEPT ![w] = m]
    BY <2>1 DEF Sends
  <2> HIDE DEF m
  <2> QED BY <2>2, <2>3
<1>4. exchange'[w] = m /\ \A v \in Workers \ {w} : exchange'[v] = exchange[v]
  BY <1>0, <1>3
<1>5. handled[pushed + 1] = 0
  BY <1>0, <1>1 DEF PushInv, AtMostOneEach
<1>6. \A v \in Workers : worker[v].report \in 0 .. pushed
  BY DEF PushInv, OwnReport
<1>7. ASSUME NEW v \in Workers PROVE OwnReport(v)'
  <2>1. CASE v = w
    <3>1. m # NoExchange /\ m.kind \notin InHandler \cup {"answer", "agreed", "opaque"}
      BY <1>3, Disjoint DEF OnTheWay, InHandler
    <3> QED BY <1>0, <1>1, <1>2, <1>3, <1>4, <1>5, <2>1, <3>1 DEF OwnReport, HandledBy
  <2>2. CASE v # w
    <3>1. OwnReport(v)
      BY DEF PushInv
    <3> QED BY <1>0, <1>1, <1>2, <1>4, <2>2, <3>1 DEF OwnReport, HandledBy
  <2> QED BY <2>1, <2>2
<1>8. WorkersApart'
  <2> SUFFICES ASSUME NEW u \in Workers, NEW v \in Workers, u # v,
                      worker'[u].report = worker'[v].report
               PROVE  worker'[u].report = 0
    BY DEF WorkersApart
  <2>1. CASE u # w /\ v # w
    BY <1>2, <2>1 DEF PushInv, WorkersApart
  <2>2. CASE u = w \/ v = w
    BY <1>0, <1>2, <1>6, <2>2
  <2> QED BY <2>1, <2>2
<1>9. ASSUME NEW q \in late' PROVE LateApart(q)'
  <2>1. q \in late /\ LateApart(q) /\ q.report \in Nat
    BY <1>0, <1>1, Kinds DEF PushInv, Reports
  <2>2. \A v \in Workers : worker'[v].pc # "idle" => worker'[v].report # q.report
    BY <1>0, <1>2, <2>1 DEF LateApart
  <2> QED BY <1>0, <1>1, <1>2, <2>1, <2>2 DEF LateApart, HandledBy
<1>10. AtMostOneEach'
  BY <1>0, <1>1, <1>2 DEF PushInv, AtMostOneEach, Reports
<1> QED BY <1>7, <1>8, <1>9, <1>10 DEF PushInv

\* A worker negotiates again only with a report that has not been handled, and
\* takes for handled only what has been.
LEMMA InvByWorker ==
  ASSUME Sound, Sound', PushInv, NEW w \in Workers,
         \/ Expired(w) \/ NegotiateAgain(w) \/ Agreed(w) \/ ReadPlain(w) \/ ReadSealed(w)
         \/ Failed(w) \/ GiveUp(w)
  PROVE  PushInv'
<1>0. /\ TypeOK /\ SessionsKnown /\ worker \in [Workers -> Worker] /\ OwnReport(w)
      /\ exchange \in [Workers -> Request \cup Answer \cup {NoExchange}]
      /\ exchange[w] \in Request \cup Answer \cup {NoExchange}
      /\ pushed \in Nat /\ late \subseteq Request /\ worker[w] \in Worker
  BY Constants DEF Sound, TypeOK, PushInv
<1>1. UNCHANGED <<pushed, handled>> /\ worker[w].pc # "idle"
  BY DEF Expired, NegotiateAgain, Agreed, ReadPlain, ReadSealed, Failed, GiveUp, history, Answered
<1>2. /\ worker'[w].report = worker[w].report
      /\ \A v \in Workers \ {w} : worker'[v] = worker[v] /\ exchange'[v] = exchange[v]
  <2>1. \A v \in Workers \ {w} : worker'[v] = worker[v] /\ exchange'[v] = exchange[v]
    BY <1>0 DEF Expired, NegotiateAgain, Agreed, ReadPlain, ReadSealed, Failed, GiveUp, Returns,
       Sends
  <2>2. CASE Expired(w) \/ NegotiateAgain(w)
    <3>1. PICK p \in {"waiting", "renegotiating"} : worker' = [worker EXCEPT ![w].pc = p]
      BY <2>2 DEF Expired, NegotiateAgain
    <3>2. worker' = [worker EXCEPT ![w] = [worker[w] EXCEPT !.pc = p]]
      BY <3>1
    <3>3. [worker[w] EXCEPT !.pc = p].report = worker[w].report
      BY <1>0 DEF Worker
    <3>4. worker'[w] = [worker[w] EXCEPT !.pc = p]
      BY <1>0, <3>2
    <3> QED BY <2>1, <3>3, <3>4
  <2>3. CASE ~Expired(w) /\ ~NegotiateAgain(w)
    <3>1. PICK r \in {"ok", "error"} : Returns(w, r)
      BY <2>3 DEF Agreed, ReadPlain, ReadSealed, Failed, GiveUp
    <3> QED BY <1>0, <3>1 DEF Returns, Worker
  <2> QED BY <2>1, <2>2, <2>3
<1>3. OwnReport(w)'
  <2>1. CASE Expired(w)
    <3>1. worker'[w].pc = "renegotiating" /\ worker'[w].result = worker[w].result
      BY <1>0, <2>1 DEF Expired, Worker
    <3>2. handled[worker[w].report] = 0
      BY <1>0, <2>1 DEF Expired, Answered, OwnReport, HandledBy
    <3> QED BY <1>0, <1>1, <1>2, <3>1, <3>2 DEF OwnReport
  <2>2. CASE NegotiateAgain(w)
    <3> DEFINE m == [kind |-> "keyexchange", by |-> w, report |-> worker[w].report,
                     session |-> NoSession, seq |-> 0]
    <3>1. worker'[w].pc = "waiting" /\ worker'[w].result = worker[w].result /\ exchange'[w] = m
      BY <1>0, <2>2 DEF NegotiateAgain, Worker, Sends
    <3>2. m # NoExchange /\ m.kind = "keyexchange" /\ m.report = worker[w].report
      BY Kinds
    <3>3. handled[worker[w].report] = 0
      BY <1>0, <2>2 DEF NegotiateAgain, OwnReport
    <3> HIDE DEF m
    <3> QED BY <1>0, <1>1, <1>2, <3>1, <3>2, <3>3 DEF OwnReport, HandledBy, InHandler
  <2>3. ASSUME NEW r \in {"ok", "error"}, Returns(w, r),
               r = "ok" => handled[worker[w].report] = 1
        PROVE  OwnReport(w)'
    <3>1. worker'[w].pc = "idle" /\ worker'[w].result = r
      BY <1>0, <2>3 DEF Returns, Worker
    <3> QED BY <1>0, <1>1, <1>2, <2>3, <3>1 DEF OwnReport
  <2>4. CASE Agreed(w) \/ ReadPlain(w) \/ ReadSealed(w)
    <3>1. handled[worker[w].report] = 1
      BY <1>0, <2>4 DEF Agreed, ReadPlain, ReadSealed, Answered, OwnReport, HandledBy
    <3>2. Returns(w, "ok") \/ Returns(w, "error")
      BY <2>4 DEF Agreed, ReadPlain, ReadSealed
    <3> QED BY <2>3, <3>1, <3>2
  <2>5. CASE Failed(w) \/ GiveUp(w)
    BY <2>3, <2>5 DEF Failed, GiveUp
  <2> QED BY <2>1, <2>2, <2>4, <2>5
<1>4. ASSUME NEW v \in Workers PROVE OwnReport(v)'
  <2>1. CASE v # w
    <3>1. OwnReport(v)
      BY DEF PushInv
    <3> QED BY <1>1, <1>2, <2>1, <3>1 DEF OwnReport, HandledBy
  <2> QED BY <1>3, <2>1
<1>5. WorkersApart'
  <2>1. \A v \in Workers : worker'[v].report = worker[v].report
    BY <1>2
  <2> QED BY <2>1 DEF PushInv, WorkersApart
<1>6. AtMostOneEach'
  BY <1>1 DEF PushInv, AtMostOneEach
<1>7. \/ late' = late
      \/ /\ late' = late \cup {exchange[w]} /\ exchange[w] \in Request
         /\ worker[w].pc = "waiting" /\ worker'[w].pc = "idle"
  <2>1. CASE GiveUp(w)
    <3>1. worker[w].pc = "waiting" /\ worker'[w].pc = "idle"
      BY <1>0, <2>1 DEF GiveUp, Returns, Worker
    <3>2. late' = late \cup ({exchange[w]} \cap Request)
      BY <2>1 DEF GiveUp
    <3> QED BY <3>1, <3>2
  <2>2. CASE ~GiveUp(w)
    BY <1>2, <2>2 DEF Expired, NegotiateAgain, Agreed, ReadPlain, ReadSealed, Failed
  <2> QED BY <2>1, <2>2
<1>8. ASSUME NEW q \in late' PROVE LateApart(q)'
  <2>1. CASE q \in late
    <3>1. LateApart(q)
      BY <2>1 DEF PushInv
    <3>2. ASSUME NEW p \in late', p.report = q.report PROVE p = q
      <4>1. CASE p \in late
        BY <3>1, <3>2, <4>1 DEF LateApart
      <4>2. CASE p \notin late
        <5>1. p = exchange[w] /\ worker[w].pc = "waiting"
          BY <1>7, <3>2, <4>2
        <5>2. p.report = worker[w].report
          BY <1>0, <5>1 DEF OwnReport
        <5> QED BY <1>1, <3>1, <3>2, <5>2 DEF LateApart
      <4> QED BY <4>1, <4>2
    <3>3. \A v \in Workers : worker'[v].pc # "idle" => worker'[v].report # q.report
      BY <1>1, <1>2, <3>1 DEF LateApart
    <3> QED BY <1>1, <3>1, <3>2, <3>3 DEF LateApart, HandledBy
  <2>2. CASE q \notin late
    <3>1. /\ q = exchange[w] /\ worker[w].pc = "waiting" /\ worker'[w].pc = "idle"
          /\ late' = late \cup {q}
      BY <1>7, <2>2
    <3>2. /\ q.report = worker[w].report /\ HandledBy(q) /\ worker[w].report # 0
          /\ worker[w].report \in 0 .. pushed
      BY <1>0, <3>1 DEF OwnReport
    <3>3. ASSUME NEW p \in late', p.report = q.report PROVE p = q
      <4>1. CASE p \in late
        BY <1>1, <3>2, <3>3, <4>1 DEF PushInv, LateApart
      <4> QED BY <3>1, <4>1
    <3>4. ASSUME NEW v \in Workers, worker'[v].pc # "idle" PROVE worker'[v].report # q.report
      <4>1. v # w
        BY <3>1, <3>4
      <4> QED BY <1>2, <3>2, <4>1 DEF PushInv, WorkersApart
    <3>5. q.report <= pushed
      BY <1>0, <3>2
    <3> QED BY <1>1, <3>2, <3>3, <3>4, <3>5 DEF LateApart, HandledBy
  <2> QED BY <2>1, <2>2
<1> QED BY <1>4, <1>5, <1>6, <1>8 DEF PushInv

\* What happens to one request leaves the other reports where they are.
LEMMA InvByBecomes ==
  ASSUME Sound, Sound', PushInv, NEW q \in Requested, NEW next \in Request \cup Answer,
         Becomes(q, next), next.by = q.by, next.report = q.report,
         worker' = worker, pushed' = pushed, HandledBy(next)',
         \/ handled' = handled
         \/ handled[q.report] = 0 /\ handled' = [handled EXCEPT ![q.report] = 1]
  PROVE  PushInv'
<1>0. /\ TypeOK /\ SessionsKnown /\ q \in Request /\ q.by \in Workers /\ q.report \in Reports
      /\ exchange \in [Workers -> Request \cup Answer \cup {NoExchange}] /\ next # NoExchange
      /\ pushed \in Nat /\ late \subseteq Request /\ handled \in [Reports -> Nat]
      /\ \A w \in Workers : OwnReport(w)
  BY RequestedType, Kinds, Disjoint, Constants DEF Sound, TypeOK, PushInv
<1>1. /\ q.report \in 1 .. pushed
      /\ q \in late \/ (exchange[q.by] = q /\ worker[q.by].pc = "waiting"
                          /\ worker[q.by].report = q.report)
  <2>1. CASE q \in late
    BY <1>0, <2>1 DEF PushInv, LateApart, Reports
  <2>2. CASE q \notin late
    <3>1. PICK w \in Workers : q = exchange[w]
      BY <2>2 DEF Requested
    <3>2. q # NoExchange
      BY <1>0, Disjoint
    <3>3. w = q.by /\ worker[w].pc = "waiting"
      BY <1>0, <3>1, <3>2 DEF SessionsKnown
    <3> QED BY <1>0, <3>1, <3>3 DEF OwnReport, Reports
  <2> QED BY <2>1, <2>2
<1>2. \A r \in Reports : r # q.report => handled'[r] = handled[r]
  BY <1>0
<1>3. AtMostOneEach'
  <2>1. ASSUME NEW r \in Reports
        PROVE  handled'[r] \in {0, 1} /\ (r > pushed' => handled'[r] = 0)
    <3>1. handled[r] \in {0, 1} /\ (r > pushed => handled[r] = 0)
      BY DEF PushInv, AtMostOneEach
    <3>2. CASE r = q.report
      <4>1. ~(r > pushed') /\ pushed' = pushed
        BY <1>0, <1>1, <3>2
      <4>2. handled'[r] \in {handled[r], 1}
        BY <1>0, <3>2
      <4> QED BY <3>1, <4>1, <4>2
    <3>3. CASE r # q.report
      BY <1>2, <3>1, <3>3
    <3> QED BY <3>2, <3>3
  <2> QED BY <2>1 DEF AtMostOneEach
<1>4. WorkersApart'
  BY DEF PushInv, WorkersApart
<1>5. handled[q.report] = 1 => handled'[q.report] = 1
  BY <1>0
\* Another report, or a worker that is done with this one.
<1>6. ASSUME NEW w \in Workers, exchange'[w] = exchange[w],
             worker[w].pc # "idle" => worker[w].report # q.report
      PROVE  OwnReport(w)'
  <2>1. OwnReport(w) /\ worker[w].report \in Nat
    BY <1>0 DEF TypeOK, Worker
  <2>2. worker[w].report # 0 => worker[w].report \in Reports
    <3>1. pushed \in 0 .. MaxPushes /\ MaxPushes \in Nat /\ worker[w].report \in 0 .. pushed
      BY <1>0, <2>1, Constants DEF OwnReport, TypeOK
    <3> QED BY <3>1 DEF Reports
  <2>3. worker[w].pc # "idle" => handled'[worker[w].report] = handled[worker[w].report]
    BY <1>2, <1>6, <2>1, <2>2 DEF OwnReport
  <2>4. worker[w].result = "ok" => handled'[worker[w].report] = 1
    BY <1>2, <1>5, <2>1, <2>2 DEF OwnReport
  <2>5. worker[w].pc = "waiting" => HandledBy(exchange[w])'
    BY <1>6, <2>1, <2>3 DEF OwnReport, HandledBy
  <2> QED BY <1>6, <2>1, <2>3, <2>4, <2>5 DEF OwnReport
<1>7. ASSUME NEW p \in late, p.report # q.report
      PROVE  p.report <= pushed' /\ HandledBy(p)'
  BY <1>0, <1>2, <1>7, Kinds DEF PushInv, LateApart, HandledBy
<1>8. CASE exchange[q.by] = q /\ exchange' = [exchange EXCEPT ![q.by] = next] /\ UNCHANGED late
  <2>1. /\ worker[q.by].pc = "waiting" /\ worker[q.by].report = q.report
    <3>1. q # NoExchange
      BY <1>0, Disjoint
    <3>2. worker[q.by].pc = "waiting"
      BY <1>0, <1>8, <3>1 DEF SessionsKnown
    <3> QED BY <1>0, <1>8, <3>2 DEF OwnReport
  <2>2. exchange'[q.by] = next /\ \A w \in Workers \ {q.by} : exchange'[w] = exchange[w]
    BY <1>0, <1>8
  <2>3. ASSUME NEW w \in Workers PROVE OwnReport(w)'
    <3>1. CASE w = q.by
      <4>1. OwnReport(w)
        BY <1>0
      <4>2. HandledBy(exchange[w])'
        BY <2>2, <3>1 DEF HandledBy
      <4>3. worker[w].result = "none"
        BY <2>1, <3>1, <4>1 DEF OwnReport
      <4> QED BY <1>0, <2>1, <2>2, <3>1, <4>1, <4>2, <4>3 DEF OwnReport
    <3>2. CASE w # q.by
      <4>1. worker[w].report # q.report
        BY <1>0, <1>1, <2>1, <3>2 DEF PushInv, WorkersApart
      <4> QED BY <1>6, <2>2, <3>2, <4>1
    <3> QED BY <3>1, <3>2
  <2>4. ASSUME NEW p \in late' PROVE LateApart(p)'
    <3>1. p \in late /\ LateApart(p)
      BY <1>8 DEF PushInv
    <3>2. p.report # q.report
      BY <1>0, <2>1, <3>1 DEF LateApart
    <3> QED BY <1>7, <1>8, <3>1, <3>2 DEF LateApart
  <2> QED BY <1>3, <1>4, <2>3, <2>4 DEF PushInv
<1>9. CASE q \in late /\ late' = (late \ {q}) \cup ({next} \cap Request) /\ UNCHANGED exchange
  <2>1. LateApart(q)
    BY <1>9 DEF PushInv
  <2>2. \A w \in Workers : OwnReport(w)'
    BY <1>6, <1>9, <2>1 DEF LateApart
  <2>3. ASSUME NEW p \in late' PROVE LateApart(p)'
    <3>1. CASE p = next
      <4>1. ASSUME NEW o \in late', o.report = p.report PROVE o = p
        BY <1>9, <2>1, <3>1, <4>1 DEF LateApart
      <4>2. HandledBy(p)'
        BY <3>1
      <4> QED BY <2>1, <3>1, <4>1, <4>2 DEF LateApart
    <3>2. CASE p # next
      <4>1. p \in late /\ p # q /\ LateApart(p)
        BY <1>9, <3>2 DEF PushInv
      <4>2. p.report # q.report
        BY <1>9, <2>1, <4>1 DEF LateApart
      <4>3. ASSUME NEW o \in late', o.report = p.report PROVE o = p
        BY <1>9, <4>1, <4>2, <4>3 DEF LateApart
      <4> QED BY <1>7, <4>1, <4>2, <4>3 DEF LateApart
    <3> QED BY <3>1, <3>2
  <2> QED BY <1>3, <1>4, <2>2, <2>3 DEF PushInv
<1> QED BY <1>8, <1>9 DEF Becomes

\* The controller hands a report over only from a request on its way, and says
\* that a session has expired only of a report it has not looked at.
LEMMA InvByController ==
  ASSUME Sound, Sound', PushInv, NEW q \in Requested,
         \/ ReceiveKeyExchange(q) \/ ReceiveExpired(q) \/ ReceiveSealed(q) \/ ReceivePlain(q)
         \/ HandlerReturns(q) \/ HandlerFails(q)
  PROVE  PushInv'
<1>0. /\ TypeOK /\ SessionsKnown /\ q \in Request /\ q.report \in Reports
      /\ channel \in Seq(Channel) /\ Len(channel) \in Nat
      /\ cached \in Nat /\ handled \in [Reports -> Nat]
  <2>1. Len(channel) \in Nat
    BY LenProperties DEF Sound, TypeOK
  <2> QED BY <2>1, RequestedType, Kinds DEF Sound, TypeOK, Sessions, NoSession
<1>1. worker' = worker /\ pushed' = pushed
  BY DEF ReceiveKeyExchange, ReceiveExpired, ReceiveSealed, ReceivePlain, HandlerReturns,
     HandlerFails
<1>2. HandledBy(q)
  <2>1. CASE q \in late
    BY <2>1 DEF PushInv, LateApart
  <2>2. CASE \E w \in Workers : q = exchange[w]
    <3>1. q # NoExchange
      BY <1>0, Disjoint
    <3> QED BY <1>0, <2>2, <3>1 DEF PushInv, OwnReport, SessionsKnown
  <2> QED BY <2>1, <2>2 DEF Requested
<1>3. ASSUME NEW next \in Request \cup Answer, Becomes(q, next), next.by = q.by,
             next.report = q.report, handled' = handled,
             \/ next.kind = "failed"
             \/ next.kind = "expired" /\ q.kind \in OnTheWay
             \/ next.kind \in {"answer", "agreed", "opaque"} /\ q.kind \in InHandler
      PROVE  PushInv'
  <2>1. HandledBy(next)'
    BY <1>2, <1>3 DEF HandledBy, OnTheWay, InHandler
  <2> QED BY <1>1, <1>3, <2>1, InvByBecomes
<1>4. ASSUME NEW kind \in InHandler, NEW s \in Nat, HandOver(q, kind, s), q.kind \in OnTheWay
      PROVE  PushInv'
  <2>1. PICK next \in Request : /\ Becomes(q, next) /\ next.kind = kind /\ next.by = q.by
                                /\ next.report = q.report
    BY <1>0, <1>4, HandedOver
  <2>2. handled[q.report] = 0
    BY <1>2, <1>4 DEF HandledBy
  <2>3. handled' = [handled EXCEPT ![q.report] = 1]
    BY <1>0, <1>4, <2>2 DEF HandOver
  <2>4. HandledBy(next)'
    BY <1>0, <2>1, <2>3 DEF HandledBy, OnTheWay, InHandler
  <2> QED BY <1>1, <2>1, <2>2, <2>3, <2>4, InvByBecomes
<1>5. ASSUME NEW kind \in {"failed", "expired", "answer", "agreed"}, Reply(q, kind),
             handled' = handled,
             kind = "expired" => q.kind \in OnTheWay,
             kind \in {"answer", "agreed"} => q.kind \in InHandler
      PROVE  PushInv'
  <2>1. PICK next \in Answer : /\ Becomes(q, next) /\ next.kind = kind /\ next.by = q.by
                               /\ next.report = q.report
    BY <1>0, <1>5, Replied
  <2> QED BY <1>3, <1>5, <2>1
<1>6. CASE ReceiveKeyExchange(q)
  <2>1. HandOver(q, "agreeing", Len(channel) + 1) /\ q.kind = "keyexchange"
    BY <1>6 DEF ReceiveKeyExchange
  <2>2. Len(channel) + 1 \in Nat /\ "agreeing" \in InHandler /\ "keyexchange" \in OnTheWay
    BY <1>0 DEF InHandler, OnTheWay
  <2> QED BY <1>4, <2>1, <2>2
<1>7. CASE ReceiveSealed(q)
  <2>1. CASE HandOver(q, "sealing", cached)
    BY <1>0, <1>4, <1>7, <2>1 DEF ReceiveSealed, InHandler, OnTheWay
  <2>2. CASE Reply(q, "failed") /\ UNCHANGED handled
    BY <1>5, <2>2
  <2> QED BY <1>7, <2>1, <2>2 DEF ReceiveSealed
<1>8. CASE ReceivePlain(q)
  <2>1. CASE HandOver(q, "answering", NoSession)
    BY <1>4, <1>8, <2>1 DEF ReceivePlain, InHandler, OnTheWay, NoSession
  <2>2. CASE Reply(q, "failed") /\ UNCHANGED handled
    BY <1>5, <2>2
  <2> QED BY <1>8, <2>1, <2>2 DEF ReceivePlain
<1>9. CASE ReceiveExpired(q)
  BY <1>5, <1>9 DEF ReceiveExpired, OnTheWay, history
<1>10. CASE HandlerFails(q)
  BY <1>5, <1>10 DEF HandlerFails
<1>11. CASE HandlerReturns(q)
  <2>1. handled' = handled
    BY <1>11 DEF HandlerReturns, history
  <2>2. CASE q.kind \in {"answering", "agreeing"}
    BY <1>5, <1>11, <2>1, <2>2 DEF HandlerReturns, InHandler
  <2>3. CASE q.kind = "sealing"
    <3> DEFINE n == NextNumber(channel[q.session].toAgent).sent
    <3>1. q.session \in 1 .. Len(channel)
      <4>1. CASE q \in late
        BY <1>0, <2>3, <4>1 DEF SessionsKnown, InHandler, Sessions
      <4>2. CASE \E w \in Workers : q = exchange[w]
        BY <1>0, <2>3, <4>2 DEF SessionsKnown, Sessions
      <4> QED BY <4>1, <4>2 DEF Requested
    <3>2. n \in Nat
      BY <1>0, <3>1, ChannelParts
    <3>3. Becomes(q, [q EXCEPT !.kind = "opaque", !.seq = n])
      BY <1>11, <2>3 DEF HandlerReturns
    <3> HIDE DEF n
    <3>4. PICK next \in Answer : /\ Becomes(q, next) /\ next.kind = "opaque" /\ next.by = q.by
                                 /\ next.report = q.report
      BY <1>0, <3>2, <3>3, Sealed
    <3> QED BY <1>3, <2>1, <2>3, <3>4 DEF InHandler
  <2> QED BY <1>11, <2>2, <2>3 DEF HandlerReturns
<1> QED BY <1>6, <1>7, <1>8, <1>9, <1>10, <1>11

LEMMA InvByFaults ==
  ASSUME Sound, Sound', PushInv,
         \/ AgentRestart \/ CacheExpires \/ SetRequireEncryption
         \/ \E q \in Requested : LoseLate(q)
         \/ UNCHANGED vars
  PROVE  PushInv'
<1>0. /\ TypeOK /\ SessionsKnown /\ pushed \in Nat /\ late \subseteq Request
      /\ \A w \in Workers : OwnReport(w)
  BY Constants DEF Sound, TypeOK, PushInv
<1>1. CASE AgentRestart
  <2>1. /\ UNCHANGED <<pushed, handled>> /\ \A w \in Workers : worker'[w] = Idle
        /\ \A q \in late' : q \in late \/ \E w \in Workers : q = exchange[w] /\ q \in Request
    BY <1>1 DEF AgentRestart
  <2>2. Idle.pc = "idle" /\ Idle.report = 0 /\ Idle.result = "none"
    BY DEF Idle
  <2>3. \A w \in Workers : OwnReport(w)'
    BY <1>0, <2>1, <2>2 DEF OwnReport
  <2>4. WorkersApart'
    BY <2>1, <2>2 DEF WorkersApart
  <2>5. AtMostOneEach'
    BY <2>1 DEF PushInv, AtMostOneEach
  <2>6. ASSUME NEW w \in Workers, exchange[w] \in Request
        PROVE  /\ worker[w].pc = "waiting" /\ exchange[w].report = worker[w].report
               /\ HandledBy(exchange[w]) /\ worker[w].report # 0 /\ worker[w].report <= pushed
    <3>1. exchange[w] # NoExchange
      BY <2>6, Disjoint
    <3>2. worker[w].pc = "waiting"
      BY <1>0, <3>1 DEF SessionsKnown
    <3> QED BY <1>0, <3>2 DEF OwnReport
  <2>7. ASSUME NEW q \in late' PROVE LateApart(q)'
    <3>1. q.report <= pushed /\ HandledBy(q)
      BY <2>1, <2>6 DEF PushInv, LateApart
    <3>2. ASSUME NEW p \in late', p.report = q.report PROVE p = q
      <4>1. CASE p \in late /\ q \in late
        BY <3>2, <4>1 DEF PushInv, LateApart
      <4>2. CASE p \in late /\ q \notin late
        BY <2>1, <2>6, <3>2, <4>2 DEF PushInv, LateApart
      <4>3. CASE p \notin late /\ q \in late
        BY <2>1, <2>6, <3>2, <4>3 DEF PushInv, LateApart
      <4>4. CASE p \notin late /\ q \notin late
        <5>1. PICK v \in Workers : p = exchange[v] /\ p \in Request
          BY <2>1, <4>4
        <5>2. PICK w \in Workers : q = exchange[w] /\ q \in Request
          BY <2>1, <4>4
        <5>3. v = w
          BY <2>6, <3>2, <5>1, <5>2 DEF PushInv, WorkersApart
        <5> QED BY <5>1, <5>2, <5>3
      <4> QED BY <4>1, <4>2, <4>3, <4>4
    <3> QED BY <2>1, <2>2, <3>1, <3>2 DEF LateApart, HandledBy
  <2> QED BY <2>3, <2>4, <2>5, <2>7 DEF PushInv
<1>2. CASE \/ CacheExpires \/ SetRequireEncryption \/ UNCHANGED vars
           \/ \E q \in Requested : LoseLate(q)
  <2>1. UNCHANGED <<worker, exchange, pushed, handled>> /\ late' \subseteq late
    BY <1>2 DEF CacheExpires, SetRequireEncryption, LoseLate, vars, history
  <2>2. \A w \in Workers : OwnReport(w)'
    BY <1>0, <2>1 DEF OwnReport, HandledBy
  <2>3. \A q \in late' : LateApart(q)'
    BY <2>1 DEF PushInv, LateApart, HandledBy
  <2> QED BY <2>1, <2>2, <2>3 DEF PushInv, WorkersApart, AtMostOneEach
<1> QED BY <1>1, <1>2

LEMMA PushInvPreserved == Sound /\ Sound' /\ PushInv /\ [Next]_vars => PushInv'
<1> SUFFICES ASSUME Sound, Sound', PushInv, [Next]_vars PROVE PushInv'
  OBVIOUS
<1>1. ASSUME NEW w \in Workers, WorkerStep(w) PROVE PushInv'
  BY <1>1, InvByPush, InvByWorker DEF WorkerStep
<1>2. ASSUME NEW q \in Requested, ControllerStep(q) PROVE PushInv'
  BY <1>2, InvByController, InvByFaults DEF ControllerStep
<1> QED BY <1>1, <1>2, InvByFaults DEF Next

\* A push that succeeds has handed its report over, and once.
THEOREM OkHandled == Spec => []OkIsHandled
<1>1. PushInv => OkIsHandled
  BY DEF PushInv, OwnReport, OkIsHandled
<1> QED BY <1>1, SoundInitially, SoundPreserved, PushInitially, PushInvPreserved, PTL DEF Spec

\* Retries, timeouts and requests that arrive late notwithstanding, a report is
\* handed over at most once, and only if it was pushed.
THEOREM PushImplementsAtMostOnce == Spec => ImplementsAtMostOnce
<1>1. Init => Abstract!ChannelInit
  BY DEF Init, Abstract!ChannelInit, Reports
<1>2. Sound /\ PushInv /\ [Next]_vars => [Abstract!ChannelNext]_<<pushed, handled>>
  <2> SUFFICES ASSUME Sound, PushInv, [Next]_vars
               PROVE  [Abstract!ChannelNext]_<<pushed, handled>>
    OBVIOUS
  <2>1. ASSUME NEW w \in Workers, WorkerStep(w)
        PROVE  Abstract!Send \/ UNCHANGED <<pushed, handled>>
    BY <2>1 DEF WorkerStep, PushPlain, NegotiateFirst, PushSealed, Starts, Expired,
       NegotiateAgain, Agreed, ReadPlain, ReadSealed, Failed, GiveUp, history, Abstract!Send
  <2>2. ASSUME NEW q \in Requested, ControllerStep(q)
        PROVE  Abstract!ChannelNext \/ UNCHANGED <<pushed, handled>>
    <3>1. q \in Request /\ q.report \in Reports /\ handled \in [Reports -> Nat] /\ pushed \in Nat
      BY RequestedType, Kinds, Constants DEF Sound, TypeOK
    <3>2. HandledBy(q)
      <4>1. CASE q \in late
        BY <4>1 DEF PushInv, LateApart
      <4>2. CASE \E w \in Workers : q = exchange[w]
        <5>1. q # NoExchange
          BY <3>1, Disjoint
        <5> QED BY <4>2, <5>1 DEF PushInv, OwnReport, Sound, SessionsKnown
      <4> QED BY <4>1, <4>2 DEF Requested
    <3>3. q.report <= pushed
      <4>1. CASE q \in late
        BY <4>1 DEF PushInv, LateApart
      <4>2. CASE \E w \in Workers : q = exchange[w]
        <5>1. q # NoExchange
          BY <3>1, Disjoint
        <5> QED BY <3>1, <4>2, <5>1 DEF PushInv, OwnReport, Sound, SessionsKnown
      <4> QED BY <4>1, <4>2 DEF Requested
    <3>4. /\ pushed' = pushed
          /\ \/ handled' = handled
             \/ /\ handled' = [handled EXCEPT ![q.report] = @ + 1]
                /\ q.kind \in OnTheWay
      BY <2>2 DEF ControllerStep, ReceiveKeyExchange, ReceiveExpired, ReceiveSealed, ReceivePlain,
         HandlerReturns, HandlerFails, LoseLate, HandOver, history, OnTheWay
    <3>5. q.kind \in OnTheWay => handled[q.report] = 0
      BY <3>2 DEF HandledBy
    <3>6. q.report \in 1 .. MaxPushes
      BY <3>1 DEF Reports
    <3> QED BY <3>1, <3>3, <3>4, <3>5, <3>6 DEF Abstract!ChannelNext, Abstract!HandOver
  <2>3. CASE AgentRestart \/ CacheExpires \/ SetRequireEncryption \/ UNCHANGED vars
    BY <2>3 DEF AgentRestart, CacheExpires, SetRequireEncryption, vars, history
  <2> QED BY <2>1, <2>2, <2>3 DEF Next, Abstract!ChannelNext
<1> QED
  BY <1>1, <1>2, SoundInitially, SoundPreserved, PushInitially, PushInvPreserved, PTL
  DEF Spec, ImplementsAtMostOnce, Abstract!ChannelSpec

-----------------------------------------------------------------------------
(* Why a sealed report opens: no two of them have the same number, and the    *)
(* window holds only numbers that were given out or are spoiled.              *)

WindowOf(s) == channel[s].toMaster.window
Sent(s)    == channel[s].toMaster.sent

Opens(s, n) == Fresh(WindowOf(s), n) \/ Displaced(s, n)

Envelopes == {q \in Requested : q.kind = "sealed"}

Numbered(q) ==
  /\ q.session \in Sessions /\ q.seq \in 1 .. Sent(q.session)
  /\ Opens(q.session, q.seq)

Apart(q) ==
  \A p \in Envelopes : p.session = q.session /\ p.seq = q.seq => p = q

\* A number that the window shows was given out, or is spoiled.
Shown(s) ==
  \A d \in WindowOf(s).bits :
    WindowOf(s).max - d <= Sent(s) \/ <<s, WindowOf(s).max - d>> \in spoiled

OpenInv ==
  /\ \A q \in Envelopes : Numbered(q) /\ Apart(q)
  /\ \A s \in Sessions : Shown(s)

\* Windows and spoiled numbers stay, envelopes are no more than before.
LEMMA OpenStays ==
  ASSUME OpenInv, Envelopes' \subseteq Envelopes, Sessions' = Sessions, spoiled' = spoiled,
         \A s \in Sessions : WindowOf(s)' = WindowOf(s) /\ Sent(s)' = Sent(s)
  PROVE  OpenInv'
<1>1. \A q \in Envelopes' : Numbered(q)'
  BY DEF OpenInv, Numbered, Opens, Displaced, WindowOf, Sent
<1>2. \A q \in Envelopes' : Apart(q)'
  BY DEF OpenInv, Apart
<1>3. \A s \in Sessions' : Shown(s)'
  BY DEF OpenInv, Shown
<1> QED BY <1>1, <1>2, <1>3 DEF OpenInv

\* The direction to the agent is another.
LEMMA OtherDirection ==
  ASSUME NEW chs \in Seq(Channel), NEW t \in 1 .. Len(chs), NEW d, NEW s \in 1 .. Len(chs),
         NEW new, \/ new = [chs EXCEPT ![t].toAgent = d]
                  \/ new = [chs EXCEPT ![t].toAgent.window = d]
  PROVE  new[s].toMaster = chs[s].toMaster
<1>1. chs \in [1 .. Len(chs) -> Channel]
  BY LenProperties
<1>2. PICK e : new = [chs EXCEPT ![t].toAgent = e]
  <2>1. CASE new = [chs EXCEPT ![t].toAgent = d]
    BY <2>1
  <2>2. CASE new = [chs EXCEPT ![t].toAgent.window = d]
    <3>1. new = [chs EXCEPT ![t].toAgent = [chs[t].toAgent EXCEPT !.window = d]]
      BY <2>2
    <3> QED BY <3>1
  <2> QED BY <2>1, <2>2
<1>3. \A c \in Channel : [c EXCEPT !.toAgent = e].toMaster = c.toMaster
  BY DEF Channel
<1>4. new[s] = IF s = t THEN [chs[t] EXCEPT !.toAgent = e] ELSE chs[s]
  BY <1>1, <1>2
<1> QED BY <1>1, <1>3, <1>4

\* An envelope that is read is not read again.
LEMMA EnvelopeRead ==
  ASSUME Sound, PushInv, NEW q \in Requested, NEW next \in Request \cup Answer,
         Becomes(q, next), next.kind # "sealed"
  PROVE  Envelopes' \subseteq Envelopes \ {q}
<1>0. /\ q \in Request /\ q # NoExchange /\ q.by \in Workers
      /\ exchange \in [Workers -> Request \cup Answer \cup {NoExchange}]
      /\ SessionsKnown /\ \A w \in Workers : OwnReport(w)
  BY RequestedType, Kinds, Disjoint DEF Sound, TypeOK, PushInv
<1>1. \A w \in Workers : exchange[w] = q =>
        w = q.by /\ worker[w].pc = "waiting" /\ worker[w].report = q.report
  BY <1>0 DEF SessionsKnown, OwnReport
<1>2. q \in late => \A w \in Workers : exchange[w] # q
  BY <1>1 DEF PushInv, LateApart
<1> SUFFICES ASSUME NEW p \in Envelopes' PROVE p \in Envelopes /\ p # q
  OBVIOUS
<1>3. p.kind = "sealed" /\ p # next /\ p \in Requested'
  BY DEF Envelopes
<1>4. CASE exchange[q.by] = q /\ exchange' = [exchange EXCEPT ![q.by] = next] /\ UNCHANGED late
  <2>1. exchange'[q.by] = next /\ \A w \in Workers \ {q.by} : exchange'[w] = exchange[w]
    BY <1>0, <1>4
  <2>2. q \notin late
    BY <1>0, <1>2, <1>4
  <2>3. CASE p \in late
    BY <1>3, <2>2, <2>3 DEF Envelopes, Requested
  <2>4. CASE p \notin late
    <3>1. PICK w \in Workers : p = exchange'[w] /\ p \in Request
      BY <1>3, <1>4, <2>4 DEF Requested
    <3>2. w # q.by /\ p = exchange[w]
      BY <1>3, <2>1, <3>1
    <3>3. p # q
      BY <1>1, <3>2
    <3> QED BY <1>3, <3>1, <3>2, <3>3 DEF Envelopes, Requested
  <2> QED BY <2>3, <2>4
<1>5. CASE q \in late /\ late' = (late \ {q}) \cup ({next} \cap Request) /\ UNCHANGED exchange
  <2>1. CASE p \in late'
    BY <1>3, <1>5, <2>1 DEF Envelopes, Requested
  <2>2. CASE p \notin late'
    <3>1. PICK w \in Workers : p = exchange[w] /\ p \in Request
      BY <1>3, <1>5, <2>2 DEF Requested
    <3> QED BY <1>2, <1>3, <1>5, <3>1 DEF Envelopes, Requested
  <2> QED BY <2>1, <2>2
<1> QED BY <1>4, <1>5 DEF Becomes

LEMMA OpenInitially == Init => OpenInv
<1> SUFFICES ASSUME Init PROVE OpenInv
  OBVIOUS
<1>1. Sessions = {}
  BY EmptySeq DEF Init, Sessions
<1>2. Envelopes = {}
  BY Kinds DEF Init, Envelopes, Requested
<1> QED BY <1>1, <1>2 DEF OpenInv

\* The next number is ahead of every envelope under way, and the window has it
\* only if it is spoiled.
LEMMA OpenBySealing ==
  ASSUME Sound, Sound', OpenInv, NEW w \in Workers, PushSealed(w)
  PROVE  OpenInv'
<1>a. PICK s \in Sessions : s = httpSession
  BY DEF Sound, TypeOK, PushSealed
<1>0. /\ TypeOK /\ s \in 1 .. Len(channel) /\ channel \in Seq(Channel)
      /\ channel \in [1 .. Len(channel) -> Channel]
      /\ exchange \in [Workers -> Request \cup Answer \cup {NoExchange}]
  BY <1>a, LenProperties DEF Sound, TypeOK, Sessions
<1>1. /\ channel[s] \in Channel /\ channel[s].toMaster \in Direction /\ WindowOf(s) \in Window
      /\ Sent(s) \in Nat
  <2>1. channel[s] \in Channel /\ channel[s].toMaster \in Direction
    BY <1>0, ChannelParts
  <2> QED BY <2>1 DEF Direction, WindowOf, Sent
<1>b. PICK d \in Direction : /\ d = NextNumber(channel[s].toMaster)
                             /\ d.sent = Sent(s) + 1 /\ d.window = WindowOf(s)
  <2>1. \A e \in Direction : /\ NextNumber(e) \in Direction
                             /\ NextNumber(e).sent = e.sent + 1 /\ NextNumber(e).window = e.window
    BY DEF Direction, NextNumber
  <2> QED BY <1>1, <2>1 DEF WindowOf, Sent
<1>2. channel' = [channel EXCEPT ![s].toMaster = d] /\ UNCHANGED <<late, cached, spoiled>>
  BY <1>a, <1>b DEF PushSealed
<1>3. PICK m : m = [kind |-> "sealed", by |-> w, report |-> pushed + 1, session |-> s,
                    seq |-> d.sent]
  OBVIOUS
<1>4. /\ exchange' = [exchange EXCEPT ![w] = m]
      /\ m.kind = "sealed" /\ m.session = s /\ m.seq = Sent(s) + 1
  BY <1>a, <1>b, <1>3 DEF PushSealed, Sends
<1>5. Sessions' = Sessions
  BY <1>0, <1>2, DirectionChanges DEF Sessions
<1>6. ASSUME NEW t \in Sessions
      PROVE  /\ WindowOf(t)' = WindowOf(t)
             /\ Sent(t)' = IF t = s THEN Sent(s) + 1 ELSE Sent(t)
  <2>1. CASE t = s
    <3>1. channel'[t].toMaster = d
      BY <1>0, <1>1, <1>2, <2>1 DEF Channel
    <3> QED BY <1>b, <2>1, <3>1 DEF WindowOf, Sent
  <2>2. CASE t # s
    <3>1. channel'[t] = channel[t]
      BY <1>0, <1>2, <1>6, <2>2 DEF Sessions
    <3> QED BY <2>2, <3>1 DEF WindowOf, Sent
  <2> QED BY <2>1, <2>2
<1>7. \A q \in Envelopes' : q \in Envelopes \/ q = m
  <2>1. \A q \in Requested' : q \in Requested \/ q = m
    BY <1>0, <1>2, <1>4 DEF Requested
  <2> QED BY <2>1 DEF Envelopes
<1>8. \A t \in Sessions : Sent(t) \in Nat
  BY <1>0, ChannelParts DEF Sessions, Sent, Direction
<1>9. ASSUME NEW q \in Envelopes PROVE Numbered(q)' /\ q.seq <= Sent(q.session)
  <2>1. Numbered(q)
    BY DEF OpenInv
  <2>2. q.session \in Sessions /\ q.seq \in 1 .. Sent(q.session)'
    BY <1>6, <1>8, <2>1 DEF Numbered
  <2>3. Opens(q.session, q.seq)'
    BY <1>2, <1>6, <2>1 DEF Numbered, Opens, Displaced, WindowOf
  <2> QED BY <1>5, <1>8, <2>1, <2>2, <2>3 DEF Numbered
<1>10. Numbered(m)'
  <2>1. Opens(s, Sent(s) + 1)
    <3> DEFINE win == WindowOf(s)
               n == Sent(s) + 1
    <3>1. win.max \in Nat /\ win.bits \subseteq 0 .. W - 1 /\ W \in Nat \ {0} /\ n \in Nat \ {0}
      BY <1>1, Constants DEF Window
    <3>2. CASE n > win.max \/ win.max - n >= W \/ win.max - n \notin win.bits
      BY <3>1, <3>2 DEF Opens, Fresh, Displaced, WindowOf
    <3>3. CASE ~(n > win.max) /\ win.max - n \in win.bits
      <4>1. Shown(s)
        BY <1>0 DEF OpenInv
      <4>2. win.max - (win.max - n) = n /\ ~(n <= Sent(s))
        BY <1>1, <3>1
      <4> QED BY <3>3, <4>1, <4>2 DEF Shown, Opens, Displaced, WindowOf
    <3> QED BY <3>2, <3>3
  <2>2. ASSUME NEW n, Opens(s, n) PROVE Opens(s, n)'
    BY <1>2, <1>6, <2>2 DEF Opens, Displaced, WindowOf
  <2>3. m.seq \in 1 .. Sent(s)'
    BY <1>0, <1>1, <1>4, <1>6
  <2> QED BY <1>4, <1>5, <2>1, <2>2, <2>3 DEF Numbered
<1>11. ASSUME NEW q \in Envelopes' PROVE Numbered(q)' /\ Apart(q)'
  <2>1. \A p \in Envelopes : p.session = s => p.seq # m.seq
    <3> SUFFICES ASSUME NEW p \in Envelopes, p.session = s PROVE p.seq # m.seq
      OBVIOUS
    <3>1. Numbered(p)
      BY DEF OpenInv
    <3> QED BY <1>1, <1>4, <3>1 DEF Numbered
  <2>2. Apart(q)'
    <3> SUFFICES ASSUME NEW p \in Envelopes', p.session = q.session, p.seq = q.seq PROVE p = q
      BY DEF Apart
    <3>1. CASE p \in Envelopes /\ q \in Envelopes
      BY <3>1 DEF OpenInv, Apart
    <3>2. CASE p = m \/ q = m
      BY <1>4, <1>7, <2>1, <3>2
    <3> QED BY <1>7, <3>1, <3>2
  <2> QED BY <1>7, <1>9, <1>10, <2>2
<1>12. ASSUME NEW t \in Sessions' PROVE Shown(t)'
  <2>1. Shown(t) /\ t \in Sessions
    BY <1>5 DEF OpenInv
  <2>2. ASSUME NEW e \in WindowOf(t).bits
        PROVE  WindowOf(t).max - e <= Sent(t)' \/ <<t, WindowOf(t).max - e>> \in spoiled'
    <3>1. WindowOf(t) \in Window
      BY <1>0, <2>1, ChannelParts DEF Sessions, WindowOf
    <3>2. WindowOf(t).max - e \in Int
      BY <3>1, Constants DEF Window
    <3>3. Sent(t) \in Nat /\ Sent(t)' \in {Sent(t), Sent(t) + 1}
      BY <1>6, <1>8, <2>1
    <3>4. WindowOf(t).max - e <= Sent(t) \/ <<t, WindowOf(t).max - e>> \in spoiled
      BY <2>1 DEF Shown
    <3> QED BY <1>2, <3>2, <3>3, <3>4
  <2> QED BY <1>6, <2>1, <2>2 DEF Shown
<1> QED BY <1>11, <1>12 DEF OpenInv

\* The controller reads an envelope: what the window forgets or takes for read
\* is displaced.
LEMMA OpenByReceiving ==
  ASSUME Sound, Sound', PushInv, OpenInv, NEW q \in Requested, ReceiveSealed(q)
  PROVE  OpenInv'
<1> DEFINE win == channel[cached].toMaster.window
<1>0. /\ TypeOK /\ cached \in 1 .. Len(channel) /\ cached \in Sessions
      /\ channel \in Seq(Channel) /\ channel \in [1 .. Len(channel) -> Channel]
      /\ q \in Request /\ q.seq \in Nat /\ cached \in Nat
  BY LenProperties, RequestedType, Kinds DEF Sound, TypeOK, ReceiveSealed, Sessions
<1>1. /\ win \in Window /\ channel[cached] \in Channel /\ channel[cached].toMaster \in Direction
  BY <1>0, ChannelParts
<1>2. Envelopes' \subseteq Envelopes \ {q}
  <2>1. CASE HandOver(q, "sealing", cached)
    <3>1. PICK next \in Request : Becomes(q, next) /\ next.kind = "sealing"
      BY <1>0, <2>1, HandedOver DEF InHandler
    <3> QED BY <3>1, EnvelopeRead
  <2>2. CASE Reply(q, "failed")
    <3>1. PICK next \in Answer : Becomes(q, next) /\ next.kind = "failed"
      BY <1>0, <2>2, Replied
    <3> QED BY <3>1, EnvelopeRead
  <2> QED BY <2>1, <2>2 DEF ReceiveSealed
<1>3. CASE ~Fresh(win, q.seq)
  <2>1. channel' = channel /\ spoiled' = spoiled
    BY <1>3 DEF ReceiveSealed
  <2> QED BY <1>2, <2>1, OpenStays DEF Sessions, WindowOf, Sent
<1>4. CASE Fresh(win, q.seq)
  <2> DEFINE new == Noted(win, q.seq)
  <2>1. new \in Window
    BY <1>0, <1>1, <1>4, NotedType
  <2>2. /\ channel' = [channel EXCEPT ![cached].toMaster.window = new]
        /\ spoiled' = IF q.session # cached THEN spoiled \cup {<<cached, q.seq>>} ELSE spoiled
        /\ q.kind = "sealed"
    BY <1>4 DEF ReceiveSealed
  <2> HIDE DEF new
  <2>3. Sessions' = Sessions
    BY <1>0, <2>1, <2>2, WindowChanges DEF Sessions
  <2>4. ASSUME NEW t \in Sessions
        PROVE  WindowOf(t)' = (IF t = cached THEN new ELSE WindowOf(t)) /\ Sent(t)' = Sent(t)
    <3>1. CASE t = cached
      <4>1. channel'[t] = [channel[t] EXCEPT !.toMaster.window = new]
        BY <1>0, <2>2, <3>1
      <4>2. channel'[t].toMaster = [channel[t].toMaster EXCEPT !.window = new]
        BY <1>1, <3>1, <4>1 DEF Channel
      <4> QED BY <1>1, <3>1, <4>2 DEF WindowOf, Sent, Direction
    <3>2. CASE t # cached
      <4>1. channel'[t] = channel[t]
        BY <1>0, <2>2, <2>4, <3>2 DEF Sessions
      <4> QED BY <3>2, <4>1 DEF WindowOf, Sent
    <3> QED BY <3>1, <3>2
  <2>5. ASSUME NEW p \in Envelopes' PROVE Numbered(p)'
    <3>1. p \in Envelopes /\ p # q /\ Numbered(p) /\ Apart(p)
      BY <1>2 DEF OpenInv
    <3>2. p.session \in Sessions' /\ p.seq \in 1 .. Sent(p.session)'
      BY <2>3, <2>4, <3>1 DEF Numbered
    <3>3. Opens(p.session, p.seq)'
      <4>1. CASE p.session # cached
        BY <2>2, <2>4, <3>1, <4>1 DEF Numbered, Opens, Displaced, WindowOf
      <4>2. CASE p.session = cached /\ p.seq = q.seq
        <5>1. q.session # cached
          BY <2>2, <3>1, <4>2 DEF Apart, Envelopes
        <5> QED BY <2>2, <4>2, <5>1 DEF Opens, Displaced
      <4>3. CASE p.session = cached /\ p.seq # q.seq
        <5>1. p.seq \in Nat
          <6>1. Sent(cached) \in Nat
            BY <1>1 DEF Sent, Direction
          <6> QED BY <3>1, <4>3, <6>1 DEF Numbered
        <5>2. /\ Fresh(win, p.seq) => Fresh(new, p.seq) \/ new.max - p.seq >= W
              /\ win.max - p.seq >= W => new.max - p.seq >= W
          BY <1>0, <1>1, <1>4, <4>3, <5>1, NotedElsewhere DEF new
        <5>3. Fresh(win, p.seq) \/ win.max - p.seq >= W \/ <<cached, p.seq>> \in spoiled
          BY <3>1, <4>3 DEF Numbered, Opens, Displaced, WindowOf
        <5>4. WindowOf(p.session)' = new
          BY <1>0, <2>4, <4>3
        <5> QED BY <2>2, <4>3, <5>2, <5>3, <5>4 DEF Opens, Displaced, WindowOf
      <4> QED BY <4>1, <4>2, <4>3
    <3> QED BY <3>2, <3>3 DEF Numbered
  <2>6. ASSUME NEW p \in Envelopes' PROVE Apart(p)'
    BY <1>2 DEF OpenInv, Apart
  <2>7. ASSUME NEW t \in Sessions' PROVE Shown(t)'
    <3>1. t \in Sessions /\ Shown(t)
      BY <2>3 DEF OpenInv
    <3>2. CASE t # cached
      BY <2>2, <2>4, <3>1, <3>2 DEF Shown
    <3>3. CASE t = cached
      <4>1. WindowOf(t)' = new /\ Sent(t)' = Sent(t) /\ WindowOf(t) = win
        BY <2>4, <3>1, <3>3 DEF WindowOf
      <4>2. ASSUME NEW d \in new.bits
            PROVE  new.max - d <= Sent(t) \/ <<t, new.max - d>> \in spoiled'
        <5>1. CASE new.max - d = q.seq /\ q.session = cached
          <6>1. Numbered(q)
            BY <2>2 DEF OpenInv, Envelopes
          <6>2. Sent(cached) \in Nat
            BY <1>1 DEF Sent, Direction
          <6> QED BY <3>3, <5>1, <6>1, <6>2 DEF Numbered
        <5>2. CASE new.max - d = q.seq /\ q.session # cached
          BY <2>2, <3>3, <5>2
        <5>3. CASE \E e \in win.bits : new.max - d = win.max - e
          BY <2>2, <3>1, <4>1, <5>3 DEF Shown
        <5> QED BY <1>0, <1>1, <1>4, <5>1, <5>2, <5>3, NotedShown DEF new
      <4> QED BY <4>1, <4>2 DEF Shown
    <3> QED BY <3>2, <3>3
  <2> QED BY <2>5, <2>6, <2>7 DEF OpenInv
<1> QED BY <1>3, <1>4

\* Every other step of a worker leaves the windows of the controller alone, and
\* sends no envelope.
LEMMA OpenByWorker ==
  ASSUME Sound, Sound', OpenInv, NEW w \in Workers, WorkerStep(w), ~PushSealed(w)
  PROVE  OpenInv'
<1>0. /\ TypeOK /\ SessionsKnown /\ channel \in Seq(Channel)
      /\ exchange \in [Workers -> Request \cup Answer \cup {NoExchange}]
  BY DEF Sound, TypeOK
<1>1. spoiled' = spoiled
  BY DEF WorkerStep, PushPlain, NegotiateFirst, Expired, NegotiateAgain, Agreed, ReadPlain,
     ReadSealed, Failed, GiveUp, history
<1>2. /\ Sessions' = Sessions
      /\ \A s \in Sessions : WindowOf(s)' = WindowOf(s) /\ Sent(s)' = Sent(s)
  <2>1. CASE UNCHANGED channel
    BY <2>1 DEF Sessions, WindowOf, Sent
  <2>2. CASE ~UNCHANGED channel
    <3>1. ReadSealed(w)
      BY <2>2 DEF WorkerStep, PushPlain, NegotiateFirst, Expired, NegotiateAgain, Agreed,
         ReadPlain, Failed, GiveUp
    <3>2. PICK t \in Sessions : t = worker[w].session
      BY <1>0, <3>1 DEF ReadSealed, Answered, SessionsKnown, Carrying
    <3>3. PICK v : channel' = [channel EXCEPT ![t].toAgent.window = v]
      BY <2>2, <3>1, <3>2 DEF ReadSealed
    <3>4. Len(channel') = Len(channel)
      <4>1. channel' = [channel EXCEPT ![t] = [channel[t] EXCEPT !.toAgent.window = v]]
        BY <3>3
      <4>2. DOMAIN channel' = DOMAIN channel
        BY <4>1
      <4>3. channel' \in Seq(Channel)
        BY DEF Sound, TypeOK
      <4> QED BY <1>0, <4>2, <4>3, LenProperties
    <3>5. ASSUME NEW s \in Sessions PROVE channel'[s].toMaster = channel[s].toMaster
      BY <1>0, <3>2, <3>3, OtherDirection DEF Sessions
    <3> QED BY <3>4, <3>5 DEF Sessions, WindowOf, Sent
  <2> QED BY <2>1, <2>2
<1>3. Envelopes' \subseteq Envelopes
  <2>1. CASE GiveUp(w)
    <3>1. \A q \in Requested' : q \in Requested
      <4>1. /\ late' = late \cup ({exchange[w]} \cap Request)
            /\ exchange' = [exchange EXCEPT ![w] = NoExchange]
        BY <2>1 DEF GiveUp, Returns
      <4>2. \A v \in Workers : exchange'[v] \in {exchange[v], NoExchange}
        BY <1>0, <4>1
      <4> QED BY <4>1, <4>2, Disjoint DEF Requested
    <3> QED BY <3>1 DEF Envelopes
  <2>2. CASE ~GiveUp(w)
    <3>1. PICK m : /\ exchange' = [exchange EXCEPT ![w] = m] /\ late' = late
                   /\ m.kind # "sealed"
      <4>1. CASE PushPlain(w) \/ NegotiateFirst(w) \/ NegotiateAgain(w)
        <5>1. ASSUME NEW kind \in {"plain", "keyexchange"}, NEW r, NEW s, NEW n, Sends(w, kind, r, s, n)
              PROVE  \E m : exchange' = [exchange EXCEPT ![w] = m] /\ m.kind # "sealed"
          <6> DEFINE m == [kind |-> kind, by |-> w, report |-> r, session |-> s, seq |-> n]
          <6>1. exchange' = [exchange EXCEPT ![w] = m] /\ m.kind # "sealed"
            BY <5>1 DEF Sends
          <6> HIDE DEF m
          <6> QED BY <6>1
        <5>2. late' = late
          BY <4>1 DEF PushPlain, NegotiateFirst, NegotiateAgain
        <5>3. \/ Sends(w, "plain", pushed + 1, NoSession, 0)
              \/ Sends(w, "keyexchange", pushed + 1, NoSession, 0)
              \/ Sends(w, "keyexchange", worker[w].report, NoSession, 0)
          BY <4>1 DEF PushPlain, NegotiateFirst, NegotiateAgain
        <5> QED BY <5>1, <5>2, <5>3
      <4>2. CASE ~(PushPlain(w) \/ NegotiateFirst(w) \/ NegotiateAgain(w))
        <5>1. exchange' = [exchange EXCEPT ![w] = NoExchange] /\ late' = late
          BY <2>2, <4>2 DEF WorkerStep, Expired, Agreed, ReadPlain, ReadSealed, Failed, Returns
        <5> QED BY <5>1, Kinds
      <4> QED BY <4>1, <4>2
    <3>2. \A q \in Requested' : q \in Requested \/ q = m
      BY <1>0, <3>1 DEF Requested
    <3> QED BY <3>1, <3>2 DEF Envelopes
  <2> QED BY <2>1, <2>2
<1> QED BY <1>1, <1>2, <1>3, OpenStays

\* A key exchange adds a session whose windows are new.
LEMMA OpenByKeyExchange ==
  ASSUME Sound, Sound', PushInv, OpenInv, NEW q \in Requested, ReceiveKeyExchange(q)
  PROVE  OpenInv'
<1> DEFINE n == Len(channel) + 1
           new == [toMaster |-> NewDirection, toAgent |-> NewDirection]
<1>0. /\ TypeOK /\ channel \in Seq(Channel) /\ Len(channel) \in Nat /\ q \in Request
      /\ channel' = Append(channel, new) /\ spoiled' = spoiled
  BY LenProperties, RequestedType DEF Sound, TypeOK, ReceiveKeyExchange
<1>1. new \in Channel /\ new.toMaster.window.bits = {}
  BY NewChannelType DEF NewDirection, NewWindow
<1> HIDE DEF new
<1>2. /\ Len(channel') = n /\ channel'[n] = new
      /\ \A s \in 1 .. Len(channel) : channel'[s] = channel[s]
  BY <1>0, <1>1, AppendProperties
<1>3. Sessions' = Sessions \cup {n} /\ n \notin Sessions
  BY <1>0, <1>2 DEF Sessions
<1>4. \A s \in Sessions : WindowOf(s)' = WindowOf(s) /\ Sent(s)' = Sent(s)
  BY <1>2 DEF Sessions, WindowOf, Sent
<1>5. Envelopes' \subseteq Envelopes
  <2>1. n \in Nat /\ HandOver(q, "agreeing", n) /\ "agreeing" \in InHandler
    BY <1>0 DEF ReceiveKeyExchange, InHandler
  <2>2. PICK next \in Request : Becomes(q, next) /\ next.kind = "agreeing"
    BY <1>0, <2>1, HandedOver
  <2> QED BY <2>2, EnvelopeRead
<1>6. ASSUME NEW p \in Envelopes' PROVE Numbered(p)' /\ Apart(p)'
  <2>1. Numbered(p) /\ Apart(p)
    BY <1>5 DEF OpenInv
  <2>2. Numbered(p)'
    BY <1>0, <1>3, <1>4, <2>1 DEF Numbered, Opens, Displaced, WindowOf
  <2> QED BY <1>5, <2>1, <2>2 DEF Apart
<1>7. ASSUME NEW s \in Sessions' PROVE Shown(s)'
  <2>1. CASE s \in Sessions
    BY <1>0, <1>4, <2>1 DEF OpenInv, Shown
  <2>2. CASE s = n
    <3>1. channel'[s].toMaster.window.bits = {}
      BY <1>1, <1>2, <2>2
    <3> QED BY <3>1 DEF Shown, WindowOf
  <2> QED BY <1>3, <2>1, <2>2
<1> QED BY <1>6, <1>7 DEF OpenInv

\* The rest of the controller touches no window of its own.
LEMMA OpenByController ==
  ASSUME Sound, Sound', PushInv, OpenInv, NEW q \in Requested,
         ReceiveExpired(q) \/ ReceivePlain(q) \/ HandlerReturns(q) \/ HandlerFails(q)
  PROVE  OpenInv'
<1>0. /\ TypeOK /\ SessionsKnown /\ channel \in Seq(Channel) /\ q \in Request /\ spoiled' = spoiled
  BY RequestedType
  DEF Sound, TypeOK, ReceiveExpired, ReceivePlain, HandlerReturns, HandlerFails, history
<1>1. q.kind = "sealing" => q.session \in Sessions
  BY <1>0 DEF Requested, SessionsKnown, InHandler
<1>2. /\ Sessions' = Sessions
      /\ \A s \in Sessions : WindowOf(s)' = WindowOf(s) /\ Sent(s)' = Sent(s)
  <2>1. CASE UNCHANGED channel
    BY <2>1 DEF Sessions, WindowOf, Sent
  <2>2. CASE ~UNCHANGED channel
    <3>1. q.kind = "sealing" /\ HandlerReturns(q)
      BY <2>2 DEF ReceiveExpired, ReceivePlain, HandlerReturns, HandlerFails
    <3>2. q.session \in Sessions
      BY <1>1, <3>1
    <3>3. PICK d : channel' = [channel EXCEPT ![q.session].toAgent = d]
      BY <3>1 DEF HandlerReturns
    <3>4. Len(channel') = Len(channel)
      <4>1. DOMAIN channel' = DOMAIN channel
        BY <3>3
      <4>2. channel' \in Seq(Channel)
        BY DEF Sound, TypeOK
      <4> QED BY <1>0, <4>1, <4>2, LenProperties
    <3>5. ASSUME NEW s \in Sessions PROVE channel'[s].toMaster = channel[s].toMaster
      BY <1>0, <3>2, <3>3, OtherDirection DEF Sessions
    <3> QED BY <3>4, <3>5 DEF Sessions, WindowOf, Sent
  <2> QED BY <2>1, <2>2
<1>3. Envelopes' \subseteq Envelopes
  <2>1. ASSUME NEW kind \in {"answer", "agreed", "expired", "failed"}, Reply(q, kind)
        PROVE  Envelopes' \subseteq Envelopes
    <3>1. PICK next \in Answer : Becomes(q, next) /\ next.kind = kind
      BY <1>0, <2>1, Replied
    <3> QED BY <2>1, <3>1, EnvelopeRead
  <2>2. CASE ReceivePlain(q) /\ ~required
    <3>1. HandOver(q, "answering", NoSession)
      BY <2>2 DEF ReceivePlain
    <3>2. PICK next \in Request : Becomes(q, next) /\ next.kind = "answering"
      BY <1>0, <3>1, HandedOver DEF InHandler, NoSession
    <3> QED BY <3>2, EnvelopeRead
  <2>3. CASE HandlerReturns(q) /\ q.kind = "sealing"
    <3> DEFINE n == NextNumber(channel[q.session].toAgent).sent
    <3>1. n \in Nat
      BY <1>0, <1>1, <2>3, ChannelParts DEF Sessions
    <3>2. Becomes(q, [q EXCEPT !.kind = "opaque", !.seq = n])
      BY <2>3 DEF HandlerReturns
    <3> HIDE DEF n
    <3>3. PICK next \in Answer : Becomes(q, next) /\ next.kind = "opaque"
      BY <1>0, <3>1, <3>2, Sealed
    <3> QED BY <3>3, EnvelopeRead
  <2>4. CASE \/ ReceivePlain(q) /\ required
             \/ HandlerReturns(q) /\ q.kind # "sealing"
             \/ ReceiveExpired(q) \/ HandlerFails(q)
    BY <2>1, <2>4 DEF ReceivePlain, HandlerReturns, ReceiveExpired, HandlerFails
  <2> QED BY <2>2, <2>3, <2>4
<1> QED BY <1>0, <1>2, <1>3, OpenStays

LEMMA OpenByFaults ==
  ASSUME OpenInv, Sound,
         \/ AgentRestart \/ CacheExpires \/ SetRequireEncryption
         \/ \E q \in Requested : LoseLate(q)
         \/ UNCHANGED vars
  PROVE  OpenInv'
<1>1. UNCHANGED <<channel, spoiled>>
  BY DEF AgentRestart, CacheExpires, SetRequireEncryption, LoseLate, vars, history
<1>2. \A q \in Requested' : q \in Requested
  <2>1. CASE AgentRestart
    BY <2>1, Disjoint DEF AgentRestart, Requested
  <2>2. CASE ~AgentRestart
    <3>1. exchange' = exchange /\ late' \subseteq late
      BY <2>2 DEF CacheExpires, SetRequireEncryption, LoseLate, vars
    <3> QED BY <3>1 DEF Requested
  <2> QED BY <2>1, <2>2
<1>3. Envelopes' \subseteq Envelopes
  BY <1>2 DEF Envelopes
<1> QED BY <1>1, <1>3, OpenStays DEF Sessions, WindowOf, Sent

LEMMA OpenPreserved ==
  Sound /\ Sound' /\ PushInv /\ OpenInv /\ [Next]_vars => OpenInv'
<1> SUFFICES ASSUME Sound, Sound', PushInv, OpenInv, [Next]_vars PROVE OpenInv'
  OBVIOUS
<1>1. ASSUME NEW w \in Workers, WorkerStep(w) PROVE OpenInv'
  BY <1>1, OpenBySealing, OpenByWorker
<1>2. ASSUME NEW q \in Requested, ControllerStep(q) PROVE OpenInv'
  BY <1>2, OpenByKeyExchange, OpenByReceiving, OpenByController, OpenByFaults DEF ControllerStep
<1> QED BY <1>1, <1>2, OpenByFaults DEF Next

\* Whatever the goroutines do in between, and whatever restarts and expires, an
\* envelope of the controller's session can be opened, unless its number was
\* used up by another session's or has fallen out of the window.
THEOREM SealedOpens == Spec => []SealedWithCachedOpens
<1>1. Sound /\ OpenInv => SealedWithCachedOpens
  <2> SUFFICES ASSUME Sound, OpenInv, NEW w \in Workers,
                      exchange[w].kind = "sealed", exchange[w].session = cached
               PROVE  \/ Fresh(channel[cached].toMaster.window, exchange[w].seq)
                      \/ Displaced(cached, exchange[w].seq)
    BY DEF SealedWithCachedOpens
  <2>1. exchange[w] \in Request
    BY Kinds DEF Sound, TypeOK
  <2>2. exchange[w] \in Envelopes
    BY <2>1 DEF Envelopes, Requested
  <2> QED BY <2>2 DEF OpenInv, Numbered, Opens, WindowOf
<1> QED BY <1>1, SoundInitially, SoundPreserved, PushInitially, PushInvPreserved,
           OpenInitially, OpenPreserved, PTL DEF Spec

-----------------------------------------------------------------------------
(* Why a lone push heals.  As long as nothing disturbs a worker's push nobody *)
(* else moves, and at each stage the two sides' sessions contradict each      *)
(* other in no way but the one the stage is there to mend.                    *)

AgentWindow(s) == channel[s].toAgent.window
Answers(s)     == channel[s].toAgent.sent

\* Answers are sealed with the session of the push, under numbers given out.
AnswersNumbered ==
  /\ \A s \in Sessions : AgentWindow(s).max <= Answers(s)
  /\ \A w \in Workers : exchange[w].kind \in Carrying =>
       /\ exchange[w].session = worker[w].session
       /\ exchange[w].kind = "opaque" => exchange[w].seq \in 1 .. Answers(exchange[w].session)

LoneWaits(w) ==
  LET m == exchange[w] IN
  /\ m.kind # "failed"
  /\ m.kind \in {"plain", "answering", "answer"} => key # "right"
  /\ m.kind = "plain" => ~required
  /\ m.kind \in {"keyexchange", "agreeing", "agreed"} => httpSession = NoSession
  /\ m.kind \in {"agreeing", "agreed"} => cached \in {m.session, NoSession}
  /\ m.kind = "expired" => cached = NoSession
  /\ m.kind \in Carrying => httpSession = m.session /\ cached \in {m.session, NoSession}
  /\ m.kind = "sealed" /\ cached # NoSession => Fresh(WindowOf(cached), m.seq)
  /\ m.kind = "opaque" => Fresh(AgentWindow(m.session), m.seq)

LoneStage(w) ==
  /\ worker[w].pc = "idle" =>
       /\ worker[w].result # "error"
       /\ worker[w].result = "ok" /\ key = "right" /\ cached # NoSession => httpSession = cached
  /\ worker[w].pc = "renegotiating" => httpSession = NoSession /\ cached = NoSession
  /\ worker[w].pc = "waiting" => LoneWaits(w)

Alone(w) == late = {} /\ \A v \in Workers \ {w} : worker[v].pc = "idle"

LoneInv == \A w \in Workers : ~disturbed[w] => Alone(w) /\ LoneStage(w)

\* What the steps on a channel do to its direction to the agent.
LEMMA AgentDirection ==
  ASSUME NEW chs \in Seq(Channel), NEW t \in 1 .. Len(chs), NEW d, NEW s \in 1 .. Len(chs)
  PROVE  /\ [chs EXCEPT ![t].toMaster = d][s].toAgent = chs[s].toAgent
         /\ [chs EXCEPT ![t].toMaster.window = d][s].toAgent = chs[s].toAgent
         /\ [chs EXCEPT ![t].toAgent = d][s].toAgent = IF s = t THEN d ELSE chs[s].toAgent
         /\ [chs EXCEPT ![t].toAgent.window = d][s].toAgent =
              IF s = t THEN [chs[s].toAgent EXCEPT !.window = d] ELSE chs[s].toAgent
<1>1. chs \in [1 .. Len(chs) -> Channel] /\ chs[s] \in Channel
  BY LenProperties, ElementOfSeq
<1>2. \A e : [chs EXCEPT ![t] = e][s] = IF s = t THEN e ELSE chs[s]
  BY <1>1
<1>3. \A e : /\ [chs[s] EXCEPT !.toMaster = e].toAgent = chs[s].toAgent
             /\ [chs[s] EXCEPT !.toAgent = e].toAgent = e
  BY <1>1 DEF Channel
<1>4. [chs EXCEPT ![t].toMaster = d] = [chs EXCEPT ![t] = [chs[t] EXCEPT !.toMaster = d]]
  OBVIOUS
<1>5. [chs EXCEPT ![t].toMaster.window = d]
        = [chs EXCEPT ![t] = [chs[t] EXCEPT !.toMaster = [chs[t].toMaster EXCEPT !.window = d]]]
  OBVIOUS
<1>6. [chs EXCEPT ![t].toAgent = d] = [chs EXCEPT ![t] = [chs[t] EXCEPT !.toAgent = d]]
  OBVIOUS
<1>7. [chs EXCEPT ![t].toAgent.window = d]
        = [chs EXCEPT ![t] = [chs[t] EXCEPT !.toAgent = [chs[t].toAgent EXCEPT !.window = d]]]
  OBVIOUS
<1> QED BY <1>2, <1>3, <1>4, <1>5, <1>6, <1>7

LEMMA DirectionParts ==
  ASSUME Sound, NEW s \in Sessions
  PROVE  /\ AgentWindow(s) \in Window /\ Answers(s) \in Nat
         /\ NextNumber(channel[s].toAgent).sent = Answers(s) + 1
         /\ NextNumber(channel[s].toAgent).window = AgentWindow(s)
         /\ \A v : /\ [channel[s].toAgent EXCEPT !.window = v].window = v
                   /\ [channel[s].toAgent EXCEPT !.window = v].sent = Answers(s)
<1>1. channel[s].toAgent \in Direction
  BY ChannelParts DEF Sound, TypeOK, Sessions
<1> QED BY <1>1 DEF Direction, NextNumber, AgentWindow, Answers

\* A request's answer, field by field.
LEMMA Fields ==
  ASSUME NEW q \in Request, NEW kind, NEW n
  PROVE  /\ [q EXCEPT !.kind = kind].kind = kind /\ [q EXCEPT !.kind = kind].session = q.session
         /\ [q EXCEPT !.kind = kind, !.session = n].kind = kind
         /\ [q EXCEPT !.kind = kind, !.session = n].session = n
         /\ [q EXCEPT !.kind = kind, !.seq = n].kind = kind
         /\ [q EXCEPT !.kind = kind, !.seq = n].session = q.session
         /\ [q EXCEPT !.kind = kind, !.seq = n].seq = n
  BY DEF Request

LEMMA BecomesExchange ==
  ASSUME Sound, NEW q \in Request, NEW next, Becomes(q, next), NEW w \in Workers
  PROVE  exchange'[w] = exchange[w] \/ (w = q.by /\ exchange[w] = q /\ exchange'[w] = next)
<1>1. q.by \in Workers /\ exchange \in [Workers -> Request \cup Answer \cup {NoExchange}]
  BY Kinds DEF Sound, TypeOK
<1>2. CASE exchange[q.by] = q /\ exchange' = [exchange EXCEPT ![q.by] = next]
  <2>1. CASE w = q.by
    BY <1>1, <1>2, <2>1
  <2>2. CASE w # q.by
    BY <1>1, <1>2, <2>2
  <2> QED BY <2>1, <2>2
<1> QED BY <1>2 DEF Becomes

\* The direction to the agent stays, or is that of a new session.
LEMMA NumberedStays ==
  ASSUME Sound, AnswersNumbered, Sessions \subseteq Sessions',
         \A s \in Sessions : AgentWindow(s)' = AgentWindow(s) /\ Answers(s)' = Answers(s),
         \A s \in Sessions' \ Sessions : AgentWindow(s)'.max <= Answers(s)',
         \A w \in Workers : exchange'[w].kind \in Carrying =>
           /\ exchange'[w].session = worker'[w].session
           /\ exchange'[w].kind = "opaque" => exchange'[w] = exchange[w]
  PROVE  AnswersNumbered'
<1>1. ASSUME NEW w \in Workers, exchange'[w].kind = "opaque"
      PROVE  (exchange[w].seq \in 1 .. Answers(exchange[w].session))'
  <2>1. exchange'[w] = exchange[w] /\ exchange[w].kind = "opaque"
    BY <1>1 DEF Carrying
  <2>2. exchange[w].session \in Sessions
    BY <2>1 DEF AnswersNumbered, Sound, SessionsKnown, Carrying
  <2> QED BY <2>1, <2>2 DEF AnswersNumbered, Carrying
<1> QED BY <1>1 DEF AnswersNumbered

\* What a worker's step does to the exchanges.
LEMMA WorkersExchange ==
  ASSUME Sound, NEW w \in Workers, WorkerStep(w)
  PROVE  /\ \A v \in Workers \ {w} : worker'[v] = worker[v] /\ exchange'[v] = exchange[v]
         /\ \/ exchange'[w].kind \in {"none", "plain", "keyexchange"}
            \/ exchange'[w].kind = "sealed" /\ exchange'[w].session = worker'[w].session
<1>0. /\ worker \in [Workers -> Worker]
      /\ exchange \in [Workers -> Request \cup Answer \cup {NoExchange}]
  BY DEF Sound, TypeOK
<1>1. \A v \in Workers \ {w} : worker'[v] = worker[v] /\ exchange'[v] = exchange[v]
  BY <1>0 DEF WorkerStep, PushPlain, NegotiateFirst, PushSealed, Starts, Sends, Expired,
     NegotiateAgain, Agreed, ReadPlain, ReadSealed, Failed, GiveUp, Returns
<1>2. CASE PushPlain(w) \/ NegotiateFirst(w) \/ NegotiateAgain(w)
  BY <1>0, <1>1, <1>2 DEF PushPlain, NegotiateFirst, NegotiateAgain, Sends
<1>3. CASE PushSealed(w)
  <2>1. worker'[w].session = httpSession
    BY <1>0, <1>3 DEF PushSealed, Starts
  <2>2. exchange'[w].kind = "sealed" /\ exchange'[w].session = httpSession
    BY <1>0, <1>3 DEF PushSealed, Sends
  <2> QED BY <1>1, <2>1, <2>2
<1>4. CASE Expired(w) \/ Agreed(w) \/ ReadPlain(w) \/ ReadSealed(w) \/ Failed(w) \/ GiveUp(w)
  <2>1. exchange' = [exchange EXCEPT ![w] = NoExchange]
    BY <1>4 DEF Expired, Agreed, ReadPlain, ReadSealed, Failed, GiveUp, Returns
  <2> QED BY <1>0, <1>1, <2>1, Kinds
<1> QED BY <1>2, <1>3, <1>4 DEF WorkerStep

\* What the controller's step does to the exchanges.
LEMMA ControllersExchange ==
  ASSUME Sound, NEW q \in Requested, ControllerStep(q), NEW w \in Workers
  PROVE  /\ worker' = worker
         /\ \/ exchange'[w] = exchange[w]
            \/ exchange'[w].kind \notin Carrying
            \/ /\ exchange[w] = q /\ q.kind = "sealed"
               /\ exchange'[w].kind = "sealing" /\ exchange'[w].session = q.session
            \/ /\ exchange[w] = q /\ q.kind = "sealing" /\ HandlerReturns(q)
               /\ exchange'[w].kind = "opaque" /\ exchange'[w].session = q.session
               /\ exchange'[w].seq = NextNumber(channel[q.session].toAgent).sent
<1>0. q \in Request
  BY RequestedType DEF Sound
<1>1. worker' = worker
  BY DEF ControllerStep, ReceiveKeyExchange, ReceiveExpired, ReceiveSealed, ReceivePlain,
     HandlerReturns, HandlerFails, LoseLate
<1>2. ASSUME NEW kind, kind \notin Carrying, Reply(q, kind)
      PROVE  exchange'[w] = exchange[w] \/ exchange'[w].kind \notin Carrying
  <2> DEFINE next == [q EXCEPT !.kind = kind]
  <2>1. next.kind = kind /\ Becomes(q, next)
    BY <1>0, <1>2, Fields DEF Reply
  <2> HIDE DEF next
  <2> QED BY <1>0, <1>2, <2>1, BecomesExchange
<1>3. ASSUME NEW kind, kind \notin Carrying, NEW n, HandOver(q, kind, n)
      PROVE  exchange'[w] = exchange[w] \/ exchange'[w].kind \notin Carrying
  <2> DEFINE next == [q EXCEPT !.kind = kind, !.session = n]
  <2>1. next.kind = kind /\ Becomes(q, next)
    BY <1>0, <1>3, Fields DEF HandOver
  <2> HIDE DEF next
  <2> QED BY <1>0, <1>3, <2>1, BecomesExchange
<1>4. CASE ReceiveSealed(q) /\ HandOver(q, "sealing", cached) /\ q.session = cached
  <2> DEFINE next == [q EXCEPT !.kind = "sealing", !.session = cached]
  <2>1. next.kind = "sealing" /\ next.session = cached /\ Becomes(q, next)
    BY <1>0, <1>4, Fields DEF HandOver
  <2> HIDE DEF next
  <2>2. q.kind = "sealed"
    BY <1>4 DEF ReceiveSealed
  <2> QED BY <1>0, <1>1, <1>4, <2>1, <2>2, BecomesExchange
<1>5. CASE HandlerReturns(q) /\ q.kind = "sealing"
  <2> DEFINE n == NextNumber(channel[q.session].toAgent).sent
             next == [q EXCEPT !.kind = "opaque", !.seq = n]
  <2>1. /\ next.kind = "opaque" /\ next.session = q.session /\ next.seq = n
        /\ Becomes(q, next)
    BY <1>0, <1>5, Fields DEF HandlerReturns
  <2> HIDE DEF next
  <2> QED BY <1>0, <1>1, <1>5, <2>1, BecomesExchange
<1>6. CASE LoseLate(q)
  BY <1>1, <1>6 DEF LoseLate
<1>7. \/ \E kind \in {"expired", "failed", "answer", "agreed"} : Reply(q, kind)
      \/ HandOver(q, "agreeing", Len(channel) + 1) \/ HandOver(q, "answering", NoSession)
      \/ ReceiveSealed(q) /\ HandOver(q, "sealing", cached) /\ q.session = cached
      \/ HandlerReturns(q) /\ q.kind = "sealing"
      \/ LoseLate(q)
  BY DEF ControllerStep, ReceiveKeyExchange, ReceiveExpired, ReceiveSealed, ReceivePlain,
     HandlerReturns, HandlerFails
<1> QED BY <1>1, <1>2, <1>3, <1>4, <1>5, <1>6, <1>7 DEF Carrying

\* Reading an answer notes a number that was given out.
LEMMA NumberedByReading ==
  ASSUME Sound, AnswersNumbered, NEW w \in Workers, ReadSealed(w)
  PROVE  AnswersNumbered'
<1> DEFINE t == worker[w].session
           n == exchange[w].seq
           new == Noted(AgentWindow(t), n)
<1>0. /\ channel \in Seq(Channel) /\ t \in Sessions /\ exchange[w].kind = "opaque"
      /\ exchange[w].session = t /\ n \in 1 .. Answers(t)
      /\ exchange[w] \in Request \cup Answer \cup {NoExchange}
  BY DEF ReadSealed, Answered, Sound, TypeOK, SessionsKnown, AnswersNumbered, Carrying
<1>1. n \in Nat /\ AgentWindow(t) \in Window /\ Answers(t) \in Nat
  BY <1>0, Kinds, DirectionParts
<1>2. /\ \A v \in Workers \ {w} : worker'[v] = worker[v] /\ exchange'[v] = exchange[v]
      /\ exchange'[w].kind \notin Carrying
  <2>1. exchange' = [exchange EXCEPT ![w] = NoExchange]
    BY DEF ReadSealed, Returns
  <2>2. exchange'[w] = NoExchange
    BY <2>1 DEF Sound, TypeOK
  <2> QED BY <2>2, WorkersExchange, Kinds DEF WorkerStep, Carrying
<1>3. CASE ~Fresh(AgentWindow(t), n)
  <2>1. channel' = channel
    BY <1>3 DEF ReadSealed, AgentWindow
  <2> QED BY <1>2, <2>1 DEF AnswersNumbered, AgentWindow, Answers, Sessions
<1>4. CASE Fresh(AgentWindow(t), n)
  <2>1. channel' = [channel EXCEPT ![t].toAgent.window = new]
    BY <1>4 DEF ReadSealed, AgentWindow
  <2>2. new \in Window /\ new.max <= Answers(t)
    <3>1. new.max \in {n, AgentWindow(t).max}
      BY <1>1 DEF Noted, Window
    <3>2. AgentWindow(t).max <= Answers(t)
      BY <1>0 DEF AnswersNumbered
    <3> QED BY <1>0, <1>1, <1>4, <3>1, <3>2, NotedType
  <2> HIDE DEF new
  <2>3. Sessions' = Sessions
    BY <1>0, <2>1, <2>2, WindowChanges DEF Sessions
  <2>4. ASSUME NEW s \in Sessions
        PROVE  /\ AgentWindow(s)' = IF s = t THEN new ELSE AgentWindow(s)
               /\ Answers(s)' = Answers(s)
    <3>1. channel'[s].toAgent = IF s = t THEN [channel[s].toAgent EXCEPT !.window = new]
                                         ELSE channel[s].toAgent
      BY <1>0, <2>1, AgentDirection DEF Sessions
    <3>2. /\ [channel[s].toAgent EXCEPT !.window = new].window = new
          /\ [channel[s].toAgent EXCEPT !.window = new].sent = Answers(s)
      BY DirectionParts
    <3>3. channel'[s].toAgent.window = IF s = t THEN new ELSE channel[s].toAgent.window
      BY <3>1, <3>2
    <3>4. channel'[s].toAgent.sent = channel[s].toAgent.sent
      BY <3>1, <3>2 DEF Answers
    <3> QED BY <3>3, <3>4 DEF AgentWindow, Answers
  <2>5. \A s \in Sessions : AgentWindow(s)'.max <= Answers(s)'
    BY <2>2, <2>4 DEF AnswersNumbered
  <2>6. ASSUME NEW v \in Workers, exchange'[v].kind \in Carrying
        PROVE  /\ exchange'[v].session = worker'[v].session
               /\ exchange'[v].kind = "opaque" =>
                    (exchange[v].seq \in 1 .. Answers(exchange[v].session))'
    <3>1. exchange'[v] = exchange[v] /\ worker'[v] = worker[v] /\ exchange[v].session \in Sessions
      BY <1>2, <2>6 DEF AnswersNumbered, Sound, SessionsKnown
    <3> QED BY <2>4, <2>6, <3>1 DEF AnswersNumbered
  <2> QED BY <2>3, <2>5, <2>6 DEF AnswersNumbered
<1> QED BY <1>3, <1>4

LEMMA NumberedByWorker ==
  ASSUME Sound, AnswersNumbered, NEW w \in Workers, WorkerStep(w)
  PROVE  AnswersNumbered'
<1>1. CASE ReadSealed(w)
  BY <1>1, NumberedByReading
<1>2. CASE ~ReadSealed(w)
  <2>1. /\ Sessions' = Sessions
        /\ \A s \in Sessions : channel'[s].toAgent = channel[s].toAgent
    <3>1. CASE PushSealed(w)
      <4>1. channel \in Seq(Channel) /\ httpSession \in 1 .. Len(channel)
        BY <3>1 DEF PushSealed, Sound, TypeOK, Sessions
      <4>2. PICK d \in Direction : channel' = [channel EXCEPT ![httpSession].toMaster = d]
        BY <3>1, <4>1, ChannelParts DEF PushSealed
      <4>3. Len(channel') = Len(channel)
        BY <4>1, <4>2, DirectionChanges
      <4>4. \A s \in 1 .. Len(channel) : channel'[s].toAgent = channel[s].toAgent
        BY <4>1, <4>2, AgentDirection
      <4> QED BY <4>3, <4>4 DEF Sessions
    <3>2. CASE ~PushSealed(w)
      <4>1. channel' = channel
        BY <1>2, <3>2 DEF WorkerStep, PushPlain, NegotiateFirst, Expired, NegotiateAgain, Agreed,
           ReadPlain, Failed, GiveUp
      <4> QED BY <4>1 DEF Sessions
    <3> QED BY <3>1, <3>2
  <2>2. \A s \in Sessions : AgentWindow(s)' = AgentWindow(s) /\ Answers(s)' = Answers(s)
    BY <2>1 DEF AgentWindow, Answers
  <2>3. ASSUME NEW v \in Workers, exchange'[v].kind \in Carrying
        PROVE  /\ exchange'[v].session = worker'[v].session
               /\ exchange'[v].kind = "opaque" => exchange'[v] = exchange[v]
    <3>1. CASE v # w
      BY <2>3, <3>1, WorkersExchange DEF AnswersNumbered
    <3>2. CASE v = w
      BY <2>3, <3>2, WorkersExchange DEF Carrying
    <3> QED BY <3>1, <3>2
  <2> QED BY <2>1, <2>2, <2>3, NumberedStays
<1> QED BY <1>1, <1>2

\* An answer takes the session's next number.
LEMMA NumberedByAnswering ==
  ASSUME Sound, AnswersNumbered, NEW q \in Requested, HandlerReturns(q), q.kind = "sealing"
  PROVE  AnswersNumbered'
<1> DEFINE t == q.session
           d == NextNumber(channel[t].toAgent)
<1>0. /\ channel \in Seq(Channel) /\ t \in Sessions /\ ControllerStep(q)
      /\ worker' = worker
  BY DEF Sound, TypeOK, SessionsKnown, Requested, ControllerStep, InHandler, HandlerReturns
<1>1. /\ d \in Direction /\ d.sent = Answers(t) + 1 /\ d.window = AgentWindow(t)
      /\ channel' = [channel EXCEPT ![t].toAgent = d]
  BY <1>0, ChannelParts, DirectionParts DEF Sessions, HandlerReturns
<1> HIDE DEF d
<1>2. Sessions' = Sessions
  BY <1>0, <1>1, DirectionChanges DEF Sessions
<1>3. ASSUME NEW s \in Sessions
      PROVE  /\ AgentWindow(s)' = AgentWindow(s)
             /\ Answers(s)' = IF s = t THEN Answers(s) + 1 ELSE Answers(s)
             /\ Answers(s) \in Nat
  <2>1. channel'[s].toAgent = IF s = t THEN d ELSE channel[s].toAgent
    BY <1>0, <1>1, AgentDirection DEF Sessions
  <2>2. channel'[s].toAgent.window = channel[s].toAgent.window
    BY <1>1, <2>1 DEF AgentWindow
  <2>3. channel'[s].toAgent.sent = IF s = t THEN Answers(s) + 1 ELSE channel[s].toAgent.sent
    BY <1>1, <2>1
  <2> QED BY <2>2, <2>3, DirectionParts DEF AgentWindow, Answers
<1>4. \A s \in Sessions : AgentWindow(s)'.max <= Answers(s)'
  <2> SUFFICES ASSUME NEW s \in Sessions PROVE AgentWindow(s)'.max <= Answers(s)'
    OBVIOUS
  <2>1. AgentWindow(s).max <= Answers(s) /\ AgentWindow(s).max \in Nat
    BY DirectionParts DEF AnswersNumbered, Window
  <2> QED BY <1>3, <2>1
<1>5. ASSUME NEW w \in Workers, exchange'[w].kind \in Carrying
      PROVE  /\ exchange'[w].session = worker'[w].session
             /\ exchange'[w].kind = "opaque" =>
                  (exchange[w].seq \in 1 .. Answers(exchange[w].session))'
  <2>1. CASE exchange'[w] = exchange[w]
    <3>1. exchange[w].session \in Sessions /\ exchange[w].session = worker[w].session
      BY <1>5, <2>1 DEF AnswersNumbered, Sound, SessionsKnown
    <3> QED BY <1>0, <1>3, <1>5, <2>1, <3>1 DEF AnswersNumbered
  <2>2. CASE exchange'[w] # exchange[w]
    <3>1. /\ exchange[w] = q /\ exchange'[w].session = t /\ exchange'[w].seq = d.sent
      BY <1>0, <1>5, <2>2, ControllersExchange DEF d
    <3>2. worker[w].session = t
      BY <3>1 DEF AnswersNumbered, Carrying
    <3> QED BY <1>0, <1>1, <1>3, <3>1, <3>2
  <2> QED BY <2>1, <2>2
<1> QED BY <1>2, <1>4, <1>5 DEF AnswersNumbered

LEMMA NumberedByController ==
  ASSUME Sound, AnswersNumbered, NEW q \in Requested, ControllerStep(q)
  PROVE  AnswersNumbered'
<1>0. channel \in Seq(Channel) /\ Len(channel) \in Nat /\ q \in Request
  BY RequestedType, LenProperties DEF Sound, TypeOK
<1>1. CASE HandlerReturns(q) /\ q.kind = "sealing"
  BY <1>1, NumberedByAnswering
<1>2. CASE ~(HandlerReturns(q) /\ q.kind = "sealing")
  <2>1. ASSUME NEW w \in Workers, exchange'[w].kind \in Carrying
        PROVE  /\ exchange'[w].session = worker'[w].session
               /\ exchange'[w].kind = "opaque" => exchange'[w] = exchange[w]
    BY <1>2, <2>1, ControllersExchange DEF AnswersNumbered, Carrying
  <2>2. CASE ReceiveKeyExchange(q)
    <3>1. /\ Sessions' = Sessions \cup {Len(channel) + 1}
          /\ \A s \in Sessions : channel'[s] = channel[s]
          /\ channel'[Len(channel) + 1] = [toMaster |-> NewDirection, toAgent |-> NewDirection]
      BY <1>0, <2>2, NewChannelType, AppendProperties DEF ReceiveKeyExchange, Sessions
    <3>2. \A s \in Sessions' \ Sessions : AgentWindow(s)'.max <= Answers(s)'
      BY <3>1 DEF AgentWindow, Answers, NewDirection, NewWindow
    <3>3. \A s \in Sessions : AgentWindow(s)' = AgentWindow(s) /\ Answers(s)' = Answers(s)
      BY <3>1 DEF AgentWindow, Answers
    <3> QED BY <2>1, <3>1, <3>2, <3>3, NumberedStays
  <2>3. CASE ~ReceiveKeyExchange(q)
    <3>1. /\ Sessions' = Sessions
          /\ \A s \in Sessions : channel'[s].toAgent = channel[s].toAgent
      <4>1. CASE channel' = channel
        BY <4>1 DEF Sessions
      <4>2. CASE ReceiveSealed(q) /\ channel' # channel
        <5> DEFINE win == channel[cached].toMaster.window
        <5>1. cached \in 1 .. Len(channel) /\ Fresh(win, q.seq) /\ q.seq \in Nat
          BY <1>0, <4>2, Kinds DEF ReceiveSealed, Sound, TypeOK, Sessions
        <5>2. Noted(win, q.seq) \in Window
          BY <1>0, <5>1, ChannelParts, NotedType
        <5>3. PICK v \in Window : channel' = [channel EXCEPT ![cached].toMaster.window = v]
          BY <4>2, <5>1, <5>2 DEF ReceiveSealed
        <5>4. Len(channel') = Len(channel)
          BY <1>0, <5>1, <5>3, WindowChanges
        <5>5. \A s \in 1 .. Len(channel) : channel'[s].toAgent = channel[s].toAgent
          BY <1>0, <5>1, <5>3, AgentDirection
        <5> QED BY <5>4, <5>5 DEF Sessions
      <4>3. channel' = channel \/ ReceiveSealed(q)
        BY <1>2, <2>3 DEF ControllerStep, ReceiveExpired, ReceivePlain, HandlerReturns,
           HandlerFails, LoseLate
      <4> QED BY <4>1, <4>2, <4>3
    <3>2. \A s \in Sessions : AgentWindow(s)' = AgentWindow(s) /\ Answers(s)' = Answers(s)
      BY <3>1 DEF AgentWindow, Answers
    <3> QED BY <2>1, <3>1, <3>2, NumberedStays
  <2> QED BY <2>2, <2>3
<1> QED BY <1>1, <1>2

LEMMA NumberedInitially == Init => AnswersNumbered
  BY EmptySeq DEF Init, AnswersNumbered, Sessions, NoExchange, Carrying

LEMMA NumberedPreserved == Sound /\ AnswersNumbered /\ [Next]_vars => AnswersNumbered'
<1> SUFFICES ASSUME Sound, AnswersNumbered, [Next]_vars PROVE AnswersNumbered'
  OBVIOUS
<1>1. ASSUME NEW w \in Workers, WorkerStep(w) PROVE AnswersNumbered'
  BY <1>1, NumberedByWorker
<1>2. ASSUME NEW q \in Requested, ControllerStep(q) PROVE AnswersNumbered'
  BY <1>2, NumberedByController
<1>3. CASE AgentRestart
  <2>1. channel' = channel /\ \A w \in Workers : exchange'[w] = NoExchange
    BY <1>3 DEF AgentRestart
  <2> QED BY <2>1 DEF AnswersNumbered, AgentWindow, Answers, Sessions, NoExchange, Carrying
<1>4. CASE CacheExpires \/ SetRequireEncryption \/ UNCHANGED vars
  <2>1. UNCHANGED <<channel, exchange, worker>>
    BY <1>4 DEF CacheExpires, SetRequireEncryption, vars
  <2> QED BY <2>1 DEF AnswersNumbered, AgentWindow, Answers, Sessions
<1> QED BY <1>1, <1>2, <1>3, <1>4 DEF Next

\* A push that begins when all is quiet and in step.
LEMMA LoneByStart ==
  ASSUME Sound, NEW w \in Workers, PushPlain(w) \/ NegotiateFirst(w) \/ PushSealed(w),
         ~disturbed'[w]
  PROVE  Alone(w)' /\ LoneStage(w)'
<1>0. /\ worker \in [Workers -> Worker] /\ channel \in Seq(Channel)
      /\ exchange \in [Workers -> Request \cup Answer \cup {NoExchange}]
  BY DEF Sound, TypeOK
<1>1. /\ Starts(w) /\ UNCHANGED <<key, required, late, httpSession, cached>>
  BY DEF PushPlain, NegotiateFirst, PushSealed, config
<1>2. Quiet /\ InStep /\ ~(key = "none" /\ required)
  BY <1>1, Zenon DEF Starts
<1>3. Alone(w)' /\ worker'[w].pc = "waiting"
  BY <1>0, <1>1, <1>2 DEF Starts, Quiet, Alone
<1>4. CASE PushPlain(w)
  <2>1. key = "none" /\ exchange'[w].kind = "plain"
    BY <1>0, <1>4 DEF PushPlain, Sends
  <2> QED BY <1>1, <1>2, <1>3, <2>1 DEF LoneStage, LoneWaits, Carrying
<1>5. CASE NegotiateFirst(w)
  <2>1. httpSession = NoSession /\ exchange'[w].kind = "keyexchange"
    BY <1>0, <1>5 DEF NegotiateFirst, Sends
  <2> QED BY <1>1, <1>3, <2>1 DEF LoneStage, LoneWaits, Carrying
<1>6. CASE PushSealed(w)
  <2> DEFINE d == NextNumber(channel[httpSession].toMaster)
  <2>1. /\ httpSession \in 1 .. Len(channel) /\ httpSession # NoSession
        /\ exchange'[w].kind = "sealed" /\ exchange'[w].session = httpSession
        /\ exchange'[w].seq = d.sent
        /\ channel' = [channel EXCEPT ![httpSession].toMaster = d]
    BY <1>0, <1>6 DEF PushSealed, Sends, Sound, TypeOK, Sessions
  <2>2. /\ channel[httpSession] \in Channel
        /\ d.sent = channel[httpSession].toMaster.sent + 1
        /\ d.window = WindowOf(httpSession)
    BY <1>0, <2>1, ChannelParts DEF Direction, NextNumber, WindowOf
  <2> HIDE DEF d
  <2>3. WindowOf(httpSession)' = WindowOf(httpSession)
    <3>1. channel'[httpSession] = [channel[httpSession] EXCEPT !.toMaster = d]
      BY <1>0, <2>1, LenProperties
    <3>2. channel'[httpSession].toMaster = d
      BY <2>2, <3>1 DEF Channel
    <3> QED BY <1>1, <2>2, <3>2 DEF WindowOf
  <2>4. cached # NoSession =>
          /\ cached = httpSession
          /\ Fresh(WindowOf(httpSession), exchange'[w].seq)
    BY <1>2, <2>1, <2>2 DEF InStep, WindowOf
  <2> QED BY <1>1, <1>3, <2>1, <2>3, <2>4 DEF LoneStage, LoneWaits, Carrying
<1> QED BY <1>4, <1>5, <1>6

\* The worker reads what it can read, and never an error.
LEMMA LoneByWorker ==
  ASSUME Sound, AnswersNumbered, NEW w \in Workers, Alone(w), LoneStage(w),
         \/ Expired(w) \/ NegotiateAgain(w) \/ Agreed(w) \/ ReadPlain(w) \/ ReadSealed(w)
         \/ Failed(w)
  PROVE  Alone(w)' /\ LoneStage(w)'
<1>0. /\ worker \in [Workers -> Worker] /\ worker[w] \in Worker
      /\ exchange \in [Workers -> Request \cup Answer \cup {NoExchange}]
      /\ UNCHANGED <<key, required, late, cached>>
  BY DEF Sound, TypeOK, Expired, NegotiateAgain, Agreed, ReadPlain, ReadSealed, Failed, config
<1>1. Alone(w)'
  BY <1>0, WorkersExchange DEF Alone, WorkerStep
<1>2. ASSUME NEW result, Returns(w, result)
      PROVE  worker'[w].pc = "idle" /\ worker'[w].result = result
  BY <1>0, <1>2 DEF Returns, Worker
<1>3. CASE Expired(w)
  <2>1. worker'[w].pc = "renegotiating" /\ httpSession' = NoSession
    BY <1>0, <1>3 DEF Expired, Worker
  <2>2. cached = NoSession
    BY <1>3 DEF Expired, Answered, LoneStage, LoneWaits
  <2> QED BY <1>0, <1>1, <2>1, <2>2 DEF LoneStage
<1>4. CASE NegotiateAgain(w)
  <2>1. worker'[w].pc = "waiting" /\ exchange'[w].kind = "keyexchange"
    BY <1>0, <1>4 DEF NegotiateAgain, Sends, Worker
  <2>2. httpSession' = NoSession
    BY <1>4 DEF NegotiateAgain, LoneStage
  <2> QED BY <1>1, <2>1, <2>2 DEF LoneStage, LoneWaits, Carrying
<1>5. CASE Agreed(w)
  <2>1. worker'[w].pc = "idle" /\ worker'[w].result = "ok"
    BY <1>2, <1>5 DEF Agreed
  <2>2. key = "right" => httpSession' = exchange[w].session
    BY <1>5 DEF Agreed
  <2>3. cached \in {exchange[w].session, NoSession}
    BY <1>5 DEF Agreed, Answered, LoneStage, LoneWaits
  <2> QED BY <1>0, <1>1, <2>1, <2>2, <2>3 DEF LoneStage
<1>6. CASE ReadPlain(w)
  <2>1. worker'[w].pc = "idle" /\ worker'[w].result = "ok"
    BY <1>2, <1>6 DEF ReadPlain
  <2>2. key # "right"
    BY <1>6 DEF ReadPlain, Answered, LoneStage, LoneWaits
  <2> QED BY <1>0, <1>1, <2>1, <2>2 DEF LoneStage
<1>7. CASE ReadSealed(w)
  <2>1. /\ exchange[w].kind = "opaque" /\ exchange[w].session = worker[w].session
        /\ LoneWaits(w) /\ httpSession' = httpSession
    BY <1>7 DEF ReadSealed, Answered, LoneStage, AnswersNumbered, Carrying
  <2>2. /\ Fresh(channel[worker[w].session].toAgent.window, exchange[w].seq)
        /\ httpSession = exchange[w].session /\ cached \in {exchange[w].session, NoSession}
    BY <2>1 DEF LoneWaits, AgentWindow, Carrying
  <2>3. Returns(w, "ok")
    BY <1>7, <2>1, <2>2 DEF ReadSealed
  <2>4. worker'[w].pc = "idle" /\ worker'[w].result = "ok"
    BY <1>2, <2>3
  <2> QED BY <1>0, <1>1, <2>1, <2>2, <2>4 DEF LoneStage
<1>8. ~Failed(w)
  BY DEF Failed, Answered, LoneStage, LoneWaits
<1> QED BY <1>3, <1>4, <1>5, <1>6, <1>7, <1>8

\* The controller serves the lone push and no other request.
LEMMA LoneByController ==
  ASSUME Sound, AnswersNumbered, NEW w \in Workers, Alone(w), LoneStage(w),
         NEW q \in Requested, ControllerStep(q), ~HandlerFails(q)
  PROVE  Alone(w)' /\ LoneStage(w)'
<1>0. /\ q \in Request /\ q # NoExchange /\ channel \in Seq(Channel) /\ Len(channel) \in Nat
      /\ exchange \in [Workers -> Request \cup Answer \cup {NoExchange}]
  BY RequestedType, Disjoint, LenProperties DEF Sound, TypeOK
<1>1. late = {} /\ exchange[w] = q /\ q.by = w /\ worker[w].pc = "waiting"
  BY <1>0 DEF Alone, Requested, Sound, SessionsKnown
<1>2. /\ LoneWaits(w)
      /\ UNCHANGED <<key, required, worker, httpSession>>
      /\ ~LoseLate(q)
  BY <1>1 DEF LoneStage, ControllerStep, ReceiveKeyExchange, ReceiveExpired, ReceiveSealed,
     ReceivePlain, HandlerReturns, LoseLate, config
<1>3. ASSUME NEW next, Becomes(q, next) PROVE exchange'[w] = next /\ Alone(w)'
  BY <1>0, <1>1, <1>2, <1>3 DEF Becomes, Alone
<1>4. ASSUME NEW kind, Reply(q, kind)
      PROVE  exchange'[w].kind = kind /\ exchange'[w].session = q.session /\ Alone(w)'
  <2> DEFINE next == [q EXCEPT !.kind = kind]
  <2>1. next.kind = kind /\ next.session = q.session /\ Becomes(q, next)
    BY <1>0, <1>4, Fields DEF Reply
  <2> HIDE DEF next
  <2> QED BY <1>3, <2>1
<1>5. ASSUME NEW kind, NEW n, HandOver(q, kind, n)
      PROVE  exchange'[w].kind = kind /\ exchange'[w].session = n /\ Alone(w)'
  <2> DEFINE next == [q EXCEPT !.kind = kind, !.session = n]
  <2>1. next.kind = kind /\ next.session = n /\ Becomes(q, next)
    BY <1>0, <1>5, Fields DEF HandOver
  <2> HIDE DEF next
  <2> QED BY <1>3, <2>1
<1>6. SUFFICES Alone(w)' /\ LoneWaits(w)'
  BY <1>1, <1>2 DEF LoneStage
<1>7. CASE ReceiveKeyExchange(q)
  <2>1. /\ exchange'[w].kind = "agreeing" /\ exchange'[w].session = Len(channel) + 1
        /\ cached' = Len(channel) + 1 /\ Alone(w)'
    BY <1>5, <1>7 DEF ReceiveKeyExchange
  <2>2. httpSession = NoSession
    BY <1>1, <1>2, <1>7 DEF ReceiveKeyExchange, LoneWaits
  <2> QED BY <1>2, <2>1, <2>2 DEF LoneWaits, Carrying
<1>8. CASE ReceiveExpired(q)
  BY <1>2, <1>4, <1>8 DEF ReceiveExpired, LoneWaits, Carrying
<1>9. CASE ReceiveSealed(q)
  <2>1. /\ q.kind = "sealed" /\ cached # NoSession /\ cached' = cached
        /\ Fresh(WindowOf(cached), q.seq) /\ q.session = cached /\ httpSession = q.session
    BY <1>1, <1>2, <1>9 DEF ReceiveSealed, LoneWaits, Carrying
  <2>2. HandOver(q, "sealing", cached)
    BY <1>9, <2>1 DEF ReceiveSealed, WindowOf
  <2>3. exchange'[w].kind = "sealing" /\ exchange'[w].session = cached /\ Alone(w)'
    BY <1>5, <2>2
  <2> QED BY <1>2, <2>1, <2>3 DEF LoneWaits, Carrying
<1>10. CASE ReceivePlain(q)
  <2>1. q.kind = "plain" /\ key # "right" /\ ~required /\ HandOver(q, "answering", NoSession)
    BY <1>1, <1>2, <1>10 DEF ReceivePlain, LoneWaits
  <2>2. exchange'[w].kind = "answering" /\ Alone(w)'
    BY <1>5, <2>1
  <2> QED BY <1>2, <2>1, <2>2 DEF LoneWaits, Carrying
<1>11. CASE HandlerReturns(q) /\ q.kind = "answering"
  <2>1. Reply(q, "answer") /\ key # "right"
    BY <1>1, <1>2, <1>11 DEF HandlerReturns, LoneWaits
  <2> QED BY <1>2, <1>4, <2>1 DEF LoneWaits, Carrying
<1>12. CASE HandlerReturns(q) /\ q.kind = "agreeing"
  <2>1. Reply(q, "agreed") /\ httpSession = NoSession /\ cached \in {q.session, NoSession}
        /\ cached' = cached
    BY <1>1, <1>2, <1>12 DEF HandlerReturns, LoneWaits
  <2> QED BY <1>2, <1>4, <2>1 DEF LoneWaits, Carrying
<1>13. CASE HandlerReturns(q) /\ q.kind = "sealing"
  <2> DEFINE t == q.session
             d == NextNumber(channel[t].toAgent)
             next == [q EXCEPT !.kind = "opaque", !.seq = d.sent]
  <2>1. /\ httpSession = t /\ cached \in {t, NoSession} /\ cached' = cached
        /\ channel' = [channel EXCEPT ![t].toAgent = d] /\ Becomes(q, next)
    BY <1>1, <1>2, <1>13 DEF HandlerReturns, LoneWaits, Carrying
  <2>2. t \in Sessions
    BY <1>1, <1>13 DEF Sound, SessionsKnown, Carrying
  <2>3. /\ d.sent = Answers(t) + 1 /\ d.window = AgentWindow(t) /\ Answers(t) \in Nat
        /\ AgentWindow(t) \in Window /\ AgentWindow(t).max <= Answers(t)
    BY <2>2, DirectionParts DEF AnswersNumbered
  <2>4. next.kind = "opaque" /\ next.session = t /\ next.seq = d.sent
    BY <1>0, Fields
  <2> HIDE DEF next
  <2>5. exchange'[w] = next /\ Alone(w)'
    BY <1>3, <2>1
  <2> HIDE DEF d
  <2>6. AgentWindow(t)' = AgentWindow(t)
    <3>1. channel'[t].toAgent = d
      BY <1>0, <2>1, <2>2, AgentDirection DEF Sessions
    <3> QED BY <1>2, <2>3, <3>1 DEF AgentWindow
  <2>7. Fresh(AgentWindow(t), d.sent)
    BY <2>3 DEF Fresh, Window
  <2> QED BY <1>2, <2>1, <2>4, <2>5, <2>6, <2>7 DEF LoneWaits, Carrying
<1> QED BY <1>2, <1>7, <1>8, <1>9, <1>10, <1>11, <1>12, <1>13 DEF ControllerStep, HandlerReturns

LEMMA LoneInitially == Init => LoneInv
  BY DEF Init, LoneInv, Alone, LoneStage, Idle

LEMMA LonePreserved == Sound /\ Sound' /\ AnswersNumbered /\ LoneInv /\ [Next]_vars => LoneInv'
<1> SUFFICES ASSUME Sound, Sound', AnswersNumbered, LoneInv, [Next]_vars,
                    NEW w \in Workers, ~disturbed'[w]
             PROVE  Alone(w)' /\ LoneStage(w)'
  BY DEF LoneInv
<1>1. ASSUME NEW v \in Workers, PushPlain(v) \/ NegotiateFirst(v) \/ PushSealed(v)
      PROVE  Alone(w)' /\ LoneStage(w)'
  <2>1. Starts(v)
    BY <1>1 DEF PushPlain, NegotiateFirst, PushSealed
  <2>2. v = w
    BY <2>1, Zenon DEF Starts
  <2> QED BY <1>1, <2>2, LoneByStart
<1>2. ~DisturbAll
  BY DEF DisturbAll
<1>3. ASSUME NEW v \in Workers, WorkerStep(v),
             ~(PushPlain(v) \/ NegotiateFirst(v) \/ PushSealed(v))
      PROVE  Alone(w)' /\ LoneStage(w)'
  <2>1. \/ Expired(v) \/ NegotiateAgain(v) \/ Agreed(v) \/ ReadPlain(v) \/ ReadSealed(v)
        \/ Failed(v)
    BY <1>2, <1>3 DEF WorkerStep, GiveUp
  <2>2. disturbed' = disturbed /\ worker[v].pc # "idle"
    BY <2>1 DEF Expired, NegotiateAgain, Agreed, ReadPlain, ReadSealed, Failed, Answered, history
  <2>3. Alone(w) /\ LoneStage(w)
    BY <2>2 DEF LoneInv
  <2>4. v = w
    BY <2>2, <2>3 DEF Alone
  <2> QED BY <2>1, <2>3, <2>4, LoneByWorker
<1>4. ASSUME NEW q \in Requested, ControllerStep(q) PROVE Alone(w)' /\ LoneStage(w)'
  <2>1. ~HandlerFails(q)
    BY <1>2 DEF HandlerFails
  <2>2. disturbed' = disturbed
    BY <1>4, <2>1 DEF ControllerStep, ReceiveKeyExchange, ReceiveExpired, ReceiveSealed,
       ReceivePlain, HandOver, HandlerReturns, LoseLate, history
  <2> QED BY <1>4, <2>1, <2>2, LoneByController DEF LoneInv
<1>5. CASE CacheExpires \/ UNCHANGED vars
  <2>1. /\ UNCHANGED <<key, required, worker, exchange, late, httpSession, channel, disturbed>>
        /\ cached' \in {cached, NoSession}
    BY <1>5 DEF CacheExpires, vars, config, history
  <2>2. Alone(w) /\ LoneStage(w)
    BY <2>1 DEF LoneInv
  <2>3. LoneStage(w)'
    BY <2>1, <2>2 DEF LoneStage, LoneWaits, WindowOf, AgentWindow
  <2> QED BY <2>1, <2>2, <2>3 DEF Alone
<1> QED BY <1>1, <1>2, <1>3, <1>4, <1>5 DEF Next, AgentRestart, SetRequireEncryption

\* Whatever the controller's cache loses and when, for any number of workers and
\* pushes: a push that nothing else disturbs succeeds, and leaves the two sides
\* with one session.
THEOREM LoneHeals == Spec => []LonePushHeals
<1>1. LoneInv => LonePushHeals
  BY DEF LoneInv, LoneStage, LonePushHeals
<1> QED BY <1>1, SoundInitially, SoundPreserved, NumberedInitially, NumberedPreserved,
           LoneInitially, LonePreserved, PTL DEF Spec

-----------------------------------------------------------------------------
(***************************************************************************)
(* The safety half of PushesEnd.  What a push has still to do: a sealed    *)
(* one reads its answer, and when its session has expired negotiates and   *)
(* reads the answer to that.                                               *)
(***************************************************************************)

MayExpire(w) == exchange[w].kind \in {"sealed", "expired"}

Effort(w) ==
  CASE worker[w].pc = "idle"          -> 0
    [] worker[w].pc = "renegotiating" -> 2
    [] OTHER                          -> IF MayExpire(w) THEN 3 ELSE 1

\* Until it ends, no step of anybody gives a push more to do, and each of its
\* worker's leaves less.
EffortFalls ==
  \A w \in Workers : worker[w].pc # "idle" =>
    /\ Effort(w)' <= Effort(w)
    /\ WorkerStep(w) => Effort(w)' < Effort(w)

\* The answer to a key exchange or a plain report is never that it has expired.
LEMMA OnlySealedExpires ==
  ASSUME Sound, NEW q \in Requested, ControllerStep(q), NEW w \in Workers, MayExpire(w)'
  PROVE  MayExpire(w)
<1>0. q \in Request
  BY RequestedType DEF Sound
<1>1. ASSUME NEW kind \in {"failed", "answer", "agreed"}, Reply(q, kind) PROVE MayExpire(w)
  <2> DEFINE next == [q EXCEPT !.kind = kind]
  <2>1. next.kind = kind /\ Becomes(q, next)
    BY <1>0, <1>1, Fields DEF Reply
  <2> HIDE DEF next
  <2> QED BY <1>0, <1>1, <2>1, BecomesExchange DEF MayExpire
<1>2. ASSUME NEW kind \in InHandler, NEW n, HandOver(q, kind, n) PROVE MayExpire(w)
  <2> DEFINE next == [q EXCEPT !.kind = kind, !.session = n]
  <2>1. next.kind = kind /\ Becomes(q, next)
    BY <1>0, <1>2, Fields DEF HandOver
  <2> HIDE DEF next
  <2> QED BY <1>0, <1>2, <2>1, BecomesExchange DEF MayExpire, InHandler
<1>3. CASE HandlerReturns(q) /\ q.kind = "sealing"
  <2> DEFINE n == NextNumber(channel[q.session].toAgent).sent
             next == [q EXCEPT !.kind = "opaque", !.seq = n]
  <2>1. next.kind = "opaque" /\ Becomes(q, next)
    BY <1>0, <1>3, Fields DEF HandlerReturns
  <2> HIDE DEF next
  <2> QED BY <1>0, <2>1, BecomesExchange DEF MayExpire
<1>4. CASE q.kind = "sealed" /\ Reply(q, "expired")
  <2> DEFINE next == [q EXCEPT !.kind = "expired"]
  <2>1. next.kind = "expired" /\ Becomes(q, next)
    BY <1>0, <1>4, Fields DEF Reply
  <2> HIDE DEF next
  <2> QED BY <1>0, <1>4, <2>1, BecomesExchange DEF MayExpire
<1>5. CASE LoseLate(q)
  BY <1>5 DEF LoseLate, MayExpire
<1>6. \/ \E kind \in {"failed", "answer", "agreed"} : Reply(q, kind)
      \/ \E kind \in InHandler, n \in {Len(channel) + 1, cached, NoSession} : HandOver(q, kind, n)
      \/ HandlerReturns(q) /\ q.kind = "sealing"
      \/ q.kind = "sealed" /\ Reply(q, "expired")
      \/ LoseLate(q)
  BY DEF ControllerStep, ReceiveKeyExchange, ReceiveExpired, ReceiveSealed, ReceivePlain,
     HandlerReturns, HandlerFails, InHandler
<1> QED BY <1>1, <1>2, <1>3, <1>4, <1>5, <1>6

LEMMA EffortByWorker ==
  ASSUME Sound, NEW w \in Workers, WorkerStep(w), worker[w].pc # "idle"
  PROVE  Effort(w)' < Effort(w)
<1>0. /\ worker \in [Workers -> Worker] /\ worker[w] \in Worker
      /\ exchange \in [Workers -> Request \cup Answer \cup {NoExchange}]
  BY DEF Sound, TypeOK
<1>1. ~PushPlain(w) /\ ~NegotiateFirst(w) /\ ~PushSealed(w)
  BY DEF PushPlain, NegotiateFirst, PushSealed, Starts
<1>2. CASE Expired(w)
  <2>1. worker[w].pc = "waiting" /\ MayExpire(w)
    BY <1>2 DEF Expired, Answered, MayExpire
  <2>2. worker'[w].pc = "renegotiating"
    BY <1>0, <1>2 DEF Expired, Worker
  <2> QED BY <2>1, <2>2 DEF Effort
<1>3. CASE NegotiateAgain(w)
  <2>1. worker[w].pc = "renegotiating" /\ worker'[w].pc = "waiting"
    BY <1>0, <1>3 DEF NegotiateAgain, Worker
  <2>2. ~MayExpire(w)'
    BY <1>0, <1>3 DEF NegotiateAgain, Sends, MayExpire
  <2> QED BY <2>1, <2>2 DEF Effort
<1>4. CASE Agreed(w) \/ ReadPlain(w) \/ ReadSealed(w) \/ Failed(w) \/ GiveUp(w)
  <2>1. \E result : worker' = [worker EXCEPT ![w] = [worker[w] EXCEPT !.pc = "idle", !.result = result]]
    BY <1>4 DEF Agreed, ReadPlain, ReadSealed, Failed, GiveUp, Returns
  <2>2. worker'[w].pc = "idle"
    BY <1>0, <2>1 DEF Worker
  <2>3. Effort(w)' = 0 /\ Effort(w) \in {1, 2, 3}
    BY <2>2 DEF Effort
  <2> QED BY <2>3
<1> QED BY <1>1, <1>2, <1>3, <1>4 DEF WorkerStep

LEMMA EffortStep == Sound /\ [Next]_vars => [EffortFalls]_vars
<1> SUFFICES ASSUME Sound, [Next]_vars, NEW w \in Workers, worker[w].pc # "idle"
             PROVE  Effort(w)' <= Effort(w) /\ (WorkerStep(w) => Effort(w)' < Effort(w))
  BY DEF EffortFalls
<1>0. Effort(w) \in 0 .. 3 /\ Effort(w)' \in 0 .. 3
  BY DEF Effort
<1>1. ASSUME worker'[w] = worker[w], MayExpire(w)' => MayExpire(w)
      PROVE  Effort(w)' <= Effort(w)
  BY <1>1 DEF Effort
<1>2. WorkerStep(w) => Effort(w)' < Effort(w) /\ Effort(w)' <= Effort(w)
  BY <1>0, EffortByWorker
<1>3. ASSUME NEW v \in Workers, WorkerStep(v), v # w PROVE Effort(w)' <= Effort(w)
  BY <1>1, <1>3, WorkersExchange DEF MayExpire
<1>4. ASSUME NEW q \in Requested, ControllerStep(q) PROVE Effort(w)' <= Effort(w)
  BY <1>1, <1>4, ControllersExchange, OnlySealedExpires
<1>5. ASSUME AgentRestart PROVE Effort(w)' <= Effort(w)
  <2>1. worker'[w].pc = "idle"
    BY <1>5 DEF AgentRestart, Idle
  <2>2. Effort(w)' = 0
    BY <2>1 DEF Effort
  <2> QED BY <1>0, <2>2
<1>6. ASSUME CacheExpires \/ SetRequireEncryption \/ UNCHANGED vars
      PROVE  Effort(w)' <= Effort(w)
  <2>1. worker' = worker /\ exchange' = exchange
    BY <1>6 DEF CacheExpires, SetRequireEncryption, vars
  <2> QED BY <1>1, <2>1 DEF MayExpire
<1> QED BY <1>2, <1>3, <1>4, <1>5, <1>6 DEF Next

\* A push sends at most twice, and a second negotiation never follows the first:
\* three steps of its worker end it, and nothing the controller, the network or
\* the other worker does gives it more of them.
THEOREM PushesShrink ==
  Spec => /\ []\A w \in Workers : /\ Effort(w) \in 0 .. 3
                                  /\ Effort(w) = 0 <=> worker[w].pc = "idle"
          /\ [][EffortFalls]_vars
<1>1. \A w \in Workers : /\ Effort(w) \in 0 .. 3
                         /\ Effort(w) = 0 <=> worker[w].pc = "idle"
  BY DEF Effort
<1> QED BY <1>1, SoundInitially, SoundPreserved, EffortStep, PTL DEF Spec
=============================================================================
