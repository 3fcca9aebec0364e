------------------------ MODULE RemoteCommandProofs ------------------------
(***************************************************************************)
(* Commands from the controller to one agent, for any number of concurrent *)
(* calls, of addresses and of sessions, and every window size.             *)
(***************************************************************************)
EXTENDS RemoteCommand, ReplayWindowProofs, SequenceTheorems

LEMMA Constants == /\ Candidates \in Nat \ {0} /\ 1 \in 1 .. Candidates
                   /\ MaxExpiries \in Nat /\ W \in Nat \ {0}
  BY CommandAssumption, WindowAssumption

(* Messages: a kind tells requests from answers. *)

LEMMA Kinds ==
  /\ \A q \in Request : /\ q.kind \in {"keyexchange", "sealed", "agreeing", "sealing"}
                        /\ q.by \in Calls /\ q.session \in Nat /\ q.seq \in Nat
  /\ \A a \in Answer : /\ a.kind \in {"agreed", "refused", "answer"}
                       /\ a.outcome \in Outcomes /\ a.session \in Nat /\ a.seq \in Nat
  /\ NoExchange.kind = "none"
  BY DEF Request, Answer, NoExchange

LEMMA Disjoint == \A a \in Answer \cup {NoExchange} : a \notin Request
  BY Kinds

LEMMA RefusalType == Refusal \in Answer /\ Refusal.kind = "refused" /\ Refusal.outcome = "error"
  BY DEF Refusal, Answer, Outcomes, NoSession

(* Channels. *)

LEMMA NewChannelType == [toAgent |-> NewDirection, toMaster |-> NewDirection] \in Channel
  BY DEF Channel, NewDirection, NewWindow, Direction, Window

LEMMA ChannelParts ==
  ASSUME NEW chs \in Seq(Channel), NEW s \in 1 .. Len(chs)
  PROVE  /\ chs[s] \in Channel
         /\ chs[s].toAgent.sent \in Nat /\ chs[s].toMaster.sent \in Nat
         /\ chs[s].toAgent.window \in Window /\ chs[s].toMaster.window \in Window
<1>1. chs[s] \in Channel
  BY ElementOfSeq
<1> QED BY <1>1 DEF Channel, Direction

LEMMA SentChanges ==
  ASSUME NEW chs \in Seq(Channel), NEW s \in 1 .. Len(chs), NEW n \in Nat,
         NEW new, \/ new = [chs EXCEPT ![s].toAgent.sent = n]
                  \/ new = [chs EXCEPT ![s].toMaster.sent = n]
  PROVE  new \in Seq(Channel) /\ Len(new) = Len(chs)
<1>1. chs[s] \in Channel
  BY ElementOfSeq
<1>2. /\ [chs[s] EXCEPT !.toAgent.sent = n] \in Channel
      /\ [chs[s] EXCEPT !.toMaster.sent = n] \in Channel
  BY <1>1 DEF Channel, Direction
<1>3. \A e \in Channel : /\ [chs EXCEPT ![s] = e] \in Seq(Channel)
                         /\ Len([chs EXCEPT ![s] = e]) = Len(chs)
  BY ExceptSeq
<1>4. PICK e \in Channel : new = [chs EXCEPT ![s] = e]
  <2>1. CASE new = [chs EXCEPT ![s].toAgent.sent = n]
    BY <1>2, <2>1
  <2>2. CASE new = [chs EXCEPT ![s].toMaster.sent = n]
    BY <1>2, <2>2
  <2> QED BY <2>1, <2>2
<1> QED BY <1>3, <1>4

LEMMA WindowChanges ==
  ASSUME NEW chs \in Seq(Channel), NEW s \in 1 .. Len(chs), NEW w \in Window,
         NEW new, \/ new = [chs EXCEPT ![s].toAgent.window = w]
                  \/ new = [chs EXCEPT ![s].toMaster.window = w]
  PROVE  new \in Seq(Channel) /\ Len(new) = Len(chs)
<1>1. chs[s] \in Channel
  BY ElementOfSeq
<1>2. /\ [chs[s] EXCEPT !.toAgent.window = w] \in Channel
      /\ [chs[s] EXCEPT !.toMaster.window = w] \in Channel
  BY <1>1 DEF Channel, Direction
<1>3. \A e \in Channel : /\ [chs EXCEPT ![s] = e] \in Seq(Channel)
                         /\ Len([chs EXCEPT ![s] = e]) = Len(chs)
  BY ExceptSeq
<1>4. PICK e \in Channel : new = [chs EXCEPT ![s] = e]
  <2>1. CASE new = [chs EXCEPT ![s].toAgent.window = w]
    BY <1>2, <2>1
  <2>2. CASE new = [chs EXCEPT ![s].toMaster.window = w]
    BY <1>2, <2>2
  <2> QED BY <2>1, <2>2
<1> QED BY <1>3, <1>4

-----------------------------------------------------------------------------
(* Types, and that the sessions messages name have been negotiated.           *)

Carrying == {"sealed", "sealing", "answer"}

SessionsKnown ==
  /\ \A c \in Calls :
       /\ exchange[c].kind \in Carrying \cup {"agreeing", "agreed"} => exchange[c].session \in Sessions
       /\ exchange[c].kind \in Carrying => call[c].session \in Sessions
       /\ exchange[c] \in Request => exchange[c].by = c
  /\ \A q \in stray : q.kind # "keyexchange" => q.session \in Sessions

Sound == TypeOK /\ SessionsKnown

LEMMA RequestedType == ASSUME TypeOK PROVE Requested \subseteq Request
  BY DEF Requested, TypeOK

LEMMA SessionsGrow ==
  ASSUME TypeOK, channel' \in Seq(Channel), Len(channel') >= Len(channel)
  PROVE  Sessions \subseteq Sessions' /\ NoSession \notin Sessions
<1>1. Len(channel) \in Nat /\ Len(channel') \in Nat
  BY LenProperties DEF TypeOK
<1> QED BY <1>1 DEF Sessions, NoSession

\* What a step of the controller does to a call's exchange.
LEMMA ExchangeReplaced ==
  ASSUME Sound, NEW c \in Calls, NEW next \in Request \cup Answer \cup {NoExchange},
         exchange' = [exchange EXCEPT ![c] = next],
         next \in Request => next.by = c,
         next.kind \in Carrying \cup {"agreeing", "agreed"} => next.session \in Sessions',
         next.kind \in Carrying => call'[c].session \in Sessions',
         \A d \in Calls \ {c} : call'[d] = call[d],
         Sessions \subseteq Sessions',
         \A q \in stray' : q.kind # "keyexchange" => q.session \in Sessions'
  PROVE  /\ exchange' \in [Calls -> Request \cup Answer \cup {NoExchange}]
         /\ SessionsKnown'
<1>1. /\ exchange' \in [Calls -> Request \cup Answer \cup {NoExchange}]
      /\ exchange'[c] = next /\ \A d \in Calls \ {c} : exchange'[d] = exchange[d]
  BY DEF Sound, TypeOK
<1>2. ASSUME NEW d \in Calls
      PROVE  /\ exchange'[d].kind \in Carrying \cup {"agreeing", "agreed"}
                  => exchange'[d].session \in Sessions'
             /\ exchange'[d].kind \in Carrying => call'[d].session \in Sessions'
             /\ exchange'[d] \in Request => exchange'[d].by = d
  <2>1. CASE d = c
    BY <1>1, <2>1
  <2>2. CASE d # c
    BY <1>1, <2>2 DEF Sound, SessionsKnown
  <2> QED BY <2>1, <2>2
<1> QED BY <1>1, <1>2 DEF SessionsKnown

\* What a step of the agent does to a request.
LEMMA BecomesSound ==
  ASSUME Sound, NEW q \in Request, NEW next \in Request \cup Answer, Becomes(q, next),
         next \in Request => next.by = q.by /\ next.kind # "keyexchange",
         next.kind \in Carrying \cup {"agreeing", "agreed"} => next.session \in Sessions',
         next.kind \in Carrying => q.kind \in Carrying,
         call' = call, Sessions \subseteq Sessions'
  PROVE  /\ exchange' \in [Calls -> Request \cup Answer \cup {NoExchange}]
         /\ stray' \subseteq Request /\ SessionsKnown'
<1>1. CASE exchange[q.by] = q /\ exchange' = [exchange EXCEPT ![q.by] = next] /\ UNCHANGED stray
  <2>1. q.by \in Calls
    BY Kinds
  <2>2. next.kind \in Carrying => call[q.by].session \in Sessions
    BY <1>1, <2>1 DEF Sound, SessionsKnown
  <2>3. \A m \in stray' : m.kind # "keyexchange" => m.session \in Sessions'
    BY <1>1 DEF Sound, SessionsKnown
  <2>4. /\ exchange' \in [Calls -> Request \cup Answer \cup {NoExchange}]
        /\ SessionsKnown'
    BY <1>1, <2>1, <2>2, <2>3, ExchangeReplaced
  <2> QED BY <1>1, <2>4 DEF Sound, TypeOK
<1>2. CASE /\ q \in stray /\ stray' = (stray \ {q}) \cup ({next} \cap Request)
           /\ UNCHANGED exchange
  <2>1. stray' \subseteq Request
    BY <1>2 DEF Sound, TypeOK
  <2>2. ASSUME NEW m \in stray', m.kind # "keyexchange" PROVE m.session \in Sessions'
    <3>1. CASE m \in stray
      BY <3>1, <2>2 DEF Sound, SessionsKnown
    <3>2. CASE m = next /\ next \in Request
      BY <3>2, <2>2, Kinds DEF Carrying
    <3> QED BY <1>2, <3>1, <3>2
  <2>3. SessionsKnown'
    BY <1>2, <2>2 DEF Sound, SessionsKnown
  <2> QED BY <1>2, <2>1, <2>3 DEF Sound, TypeOK
<1> QED BY <1>1, <1>2 DEF Becomes

LEMMA NextCandidateType ==
  ASSUME TypeOK, NEW c \in Calls, NextCandidate(c)
  PROVE  /\ call' \in [Calls -> Call] /\ \A d \in Calls \ {c} : call'[d] = call[d]
         /\ call'[c].pc \in {"http", "failed"}
<1>1. call \in [Calls -> Call] /\ call[c] \in Call /\ call[c].candidate \in 1 .. Candidates
  BY DEF TypeOK, Call
<1>2. CASE call[c].candidate < Candidates
  <2>1. call[c].candidate + 1 \in 1 .. Candidates
    BY <1>1, <1>2, Constants
  <2>2. [call[c] EXCEPT !.pc = "http", !.candidate = @ + 1] \in Call
    BY <1>1, <2>1 DEF Call
  <2> QED BY <1>1, <1>2, <2>2 DEF NextCandidate, Call
<1>3. CASE ~(call[c].candidate < Candidates)
  BY <1>1, <1>3 DEF NextCandidate, Call
<1> QED BY <1>2, <1>3

LEMMA RenegotiateType ==
  ASSUME TypeOK, NEW c \in Calls, Renegotiate(c)
  PROVE  /\ call' \in [Calls -> Call] /\ \A d \in Calls \ {c} : call'[d] = call[d]
         /\ pullSession' = NoSession
         /\ exchange' = [exchange EXCEPT ![c] = KeyExchange(c)]
         /\ call'[c].pc = call[c].pc
  BY DEF Renegotiate, TypeOK, Call, NoSession

LEMMA KeyExchangeType ==
  ASSUME TypeOK, NEW c \in Calls
  PROVE  /\ KeyExchange(c) \in Request /\ KeyExchange(c).by = c
         /\ KeyExchange(c).kind = "keyexchange"
  BY DEF KeyExchange, Request, TypeOK, Call, NoSession

\* The answer under way names a session of the call's, whose window is moved.
LEMMA NoteAnswerType ==
  ASSUME Sound, NEW c \in Calls, Answered(c, {"answer"}), NoteAnswer(c)
  PROVE  /\ channel' \in Seq(Channel) /\ Len(channel') = Len(channel) /\ Sessions' = Sessions
         /\ spoiled' \subseteq Sessions \X Nat
<1>1. /\ channel \in Seq(Channel) /\ call[c].session \in 1 .. Len(channel)
  BY DEF Sound, SessionsKnown, Carrying, Answered, TypeOK, Sessions
<1>2. exchange[c].seq \in Nat
  <2>1. exchange[c] \in Request \cup Answer \cup {NoExchange} /\ exchange[c].kind = "answer"
    BY DEF Sound, TypeOK, Answered
  <2> QED BY <2>1, Kinds
<1> DEFINE s == call[c].session
           w == channel[s].toMaster.window
<1>3. w \in Window
  BY <1>1, ChannelParts
<1>4. spoiled' \subseteq Sessions \X Nat
  BY <1>1, <1>2 DEF NoteAnswer, Sound, TypeOK, Sessions
<1>5. CASE Fresh(w, exchange[c].seq)
  <2>1. Noted(w, exchange[c].seq) \in Window
    BY <1>2, <1>3, <1>5, NotedType
  <2>2. channel' = [channel EXCEPT ![s].toMaster.window = Noted(w, exchange[c].seq)]
    BY <1>5 DEF NoteAnswer
  <2>3. channel' \in Seq(Channel) /\ Len(channel') = Len(channel)
    BY <1>1, <2>1, <2>2, WindowChanges
  <2> QED BY <1>4, <2>3 DEF Sessions
<1>6. CASE ~Fresh(w, exchange[c].seq)
  BY <1>1, <1>6, <1>4 DEF NoteAnswer, Sessions
<1> QED BY <1>5, <1>6

LEMMA SoundInitially == Init => Sound
<1> SUFFICES ASSUME Init PROVE Sound
  OBVIOUS
<1>1. TypeOK
  <2> <<>> \in Seq(Channel) /\ Len(<<>>) = 0
    BY EmptySeq
  <2> QED BY Constants DEF Init, TypeOK, Call, NoSession, Sessions
<1>2. SessionsKnown
  BY Kinds DEF Init, SessionsKnown, Carrying, NoExchange
<1> QED BY <1>1, <1>2 DEF Sound

LEMMA SoundByRPC ==
  ASSUME Sound, NEW c \in Calls,
         \/ SendRPC(c) \/ NoRPC(c) \/ AgentRunsRPC(c) \/ LoseRPC(c)
         \/ RouteRPCReply(c) \/ RPCUnavailable(c) \/ NotConnected(c)
  PROVE  Sound'
<1>1. /\ UNCHANGED <<exchange, stray, pullSession, agent, spoiled>>
  BY DEF SendRPC, NoRPC, AgentRunsRPC, LoseRPC, RouteRPCReply, RPCUnavailable, NotConnected,
     history
<1>2. /\ call' \in [Calls -> Call]
      /\ \A d \in Calls : call'[d].session = call[d].session
  <2>1. call \in [Calls -> Call]
    BY DEF Sound, TypeOK
  <2>2. CASE UNCHANGED call
    BY <2>1, <2>2
  <2>3. ASSUME NEW p \in {"rpc", "http", "ok", "failed"}, call' = [call EXCEPT ![c].pc = p]
        PROVE  /\ call' \in [Calls -> Call]
               /\ \A d \in Calls : call'[d].session = call[d].session
    <3>1. [call[c] EXCEPT !.pc = p] \in Call /\ [call[c] EXCEPT !.pc = p].session = call[c].session
      BY <2>1 DEF Call
    <3> QED BY <2>1, <2>3, <3>1
  <2>4. \/ UNCHANGED call
        \/ \E p \in {"rpc", "http", "ok", "failed"} : call' = [call EXCEPT ![c].pc = p]
    <3>1. CASE RouteRPCReply(c)
      <4>1. CASE rpc[c] = "ok"
        BY <3>1, <4>1 DEF RouteRPCReply
      <4>2. CASE rpc[c] # "ok"
        BY <3>1, <4>2 DEF RouteRPCReply
      <4> QED BY <4>1, <4>2
    <3>2. CASE ~RouteRPCReply(c)
      BY <3>2 DEF SendRPC, NoRPC, AgentRunsRPC, LoseRPC, RPCUnavailable, NotConnected
    <3> QED BY <3>1, <3>2
  <2> QED BY <2>2, <2>3, <2>4
<1>3. /\ rpc' \in [Calls -> {"none", "sent", "ok", "error"}]
      /\ applied' \in [Calls -> Nat] /\ unread' \in [Calls -> BOOLEAN]
  <2>1. CASE SendRPC(c) \/ NoRPC(c) \/ LoseRPC(c) \/ RouteRPCReply(c) \/ NotConnected(c)
    BY <2>1 DEF Sound, TypeOK, SendRPC, NoRPC, LoseRPC, RouteRPCReply, NotConnected, history
  <2>2. CASE RPCUnavailable(c)
    BY <2>2 DEF Sound, TypeOK, RPCUnavailable
  <2>3. CASE AgentRunsRPC(c)
    BY <2>3 DEF Sound, TypeOK, AgentRunsRPC
  <2> QED BY <2>1, <2>2, <2>3
<1>4. TypeOK'
  BY <1>1, <1>2, <1>3 DEF Sound, TypeOK, agent, Sessions
<1>5. SessionsKnown'
  BY <1>1, <1>2 DEF Sound, SessionsKnown, agent, Sessions
<1> QED BY <1>4, <1>5 DEF Sound

LEMMA SoundBySending ==
  ASSUME Sound, NEW c \in Calls, NegotiateFirst(c) \/ SendSealed(c)
  PROVE  Sound'
<1>0. TypeOK /\ channel \in Seq(Channel) /\ Len(channel) \in Nat
  BY LenProperties DEF Sound, TypeOK
<1>1. CASE NegotiateFirst(c)
  <2>1. /\ call' \in [Calls -> Call] /\ \A d \in Calls \ {c} : call'[d] = call[d]
        /\ exchange' = [exchange EXCEPT ![c] = KeyExchange(c)]
        /\ UNCHANGED <<rpc, stray, pullSession, agent, history>>
    BY <1>1 DEF NegotiateFirst, Sound, TypeOK, Call, NoSession
  <2>2. Sessions' = Sessions /\ \A q \in stray' : q.kind # "keyexchange" => q.session \in Sessions'
    BY <2>1 DEF agent, Sessions, Sound, SessionsKnown
  <2>3. exchange' \in [Calls -> Request \cup Answer \cup {NoExchange}] /\ SessionsKnown'
    BY <1>0, <2>1, <2>2, KeyExchangeType, ExchangeReplaced DEF Carrying
  <2>4. TypeOK'
    BY <2>1, <2>2, <2>3 DEF Sound, TypeOK, agent, history
  <2> QED BY <2>3, <2>4 DEF Sound
<1>2. CASE SendSealed(c)
  <2> DEFINE seq == IF c \in WithBody THEN channel[pullSession].toAgent.sent + 1 ELSE 0
             next == [kind |-> "sealed", by |-> c, to |-> call[c].candidate,
                      session |-> pullSession, seq |-> seq]
  <2>1. pullSession \in 1 .. Len(channel) /\ pullSession \in Sessions
    BY <1>2 DEF SendSealed, Sound, TypeOK, Sessions
  <2>2. seq \in Nat
    BY <1>0, <2>1, ChannelParts
  <2>3. channel' \in Seq(Channel) /\ Len(channel') = Len(channel)
    <3>1. CASE c \in WithBody
      <4>1. PICK n \in Nat : channel' = [channel EXCEPT ![pullSession].toAgent.sent = n]
        BY <1>2, <2>2, <3>1 DEF SendSealed
      <4> QED BY <1>0, <2>1, <4>1, SentChanges
    <3>2. CASE c \notin WithBody
      BY <1>0, <1>2, <3>2 DEF SendSealed
    <3> QED BY <3>1, <3>2
  <2>4. /\ call' \in [Calls -> Call] /\ \A d \in Calls \ {c} : call'[d] = call[d]
        /\ call'[c].session = pullSession
        /\ exchange' = [exchange EXCEPT ![c] = next]
        /\ UNCHANGED <<rpc, stray, pullSession, cached, expiries, history>>
    <3>1. [call[c] EXCEPT !.pc = "waiting", !.session = pullSession] \in Call
      <4>1. call[c] \in Call /\ pullSession \in Nat
        BY <1>0, <2>1 DEF TypeOK
      <4> HIDE DEF next, seq
      <4> QED BY <4>1 DEF Call
    <3>2. /\ call' = [call EXCEPT ![c] = [call[c] EXCEPT !.pc = "waiting", !.session = pullSession]]
          /\ exchange' = [exchange EXCEPT ![c] = next]
          /\ UNCHANGED <<rpc, stray, pullSession, cached, expiries, history>>
      BY <1>2 DEF SendSealed
    <3> HIDE DEF next, seq
    <3>3. call' \in [Calls -> Call] /\ \A d \in Calls \ {c} : call'[d] = call[d]
      BY <1>0, <3>1, <3>2 DEF TypeOK
    <3>4. call'[c].session = pullSession
      <4>1. call'[c] = [call[c] EXCEPT !.pc = "waiting", !.session = pullSession]
        BY <1>0, <3>2 DEF TypeOK
      <4> QED BY <1>0, <4>1 DEF TypeOK, Call
    <3> QED BY <3>2, <3>3, <3>4
  <2>5. Sessions' = Sessions /\ \A q \in stray' : q.kind # "keyexchange" => q.session \in Sessions'
    BY <2>3, <2>4 DEF Sessions, Sound, SessionsKnown
  <2>6. next \in Request /\ next.by = c /\ next.session = pullSession
    BY <1>0, <2>1, <2>2 DEF Request, Sound, TypeOK, Call
  <2> HIDE DEF next, seq
  <2>7. exchange' \in [Calls -> Request \cup Answer \cup {NoExchange}] /\ SessionsKnown'
    BY <2>1, <2>4, <2>5, <2>6, ExchangeReplaced
  <2>8. TypeOK'
    BY <2>3, <2>4, <2>5, <2>7 DEF Sound, TypeOK, history
  <2> QED BY <2>7, <2>8 DEF Sound
<1> QED BY <1>1, <1>2

\* Steps that end a call's exchange without an answer to be sealed.
LEMMA SoundByAnswer ==
  ASSUME Sound, NEW c \in Calls, Agreed(c) \/ Refused(c) \/ ReadAnswer(c) \/ MisreadAnswer(c)
  PROVE  Sound'
<1>0. TypeOK /\ channel \in Seq(Channel) /\ Len(channel) \in Nat
  BY LenProperties DEF Sound, TypeOK
<1>1. /\ channel' \in Seq(Channel) /\ Len(channel') = Len(channel) /\ Sessions' = Sessions
      /\ spoiled' \subseteq Sessions \X Nat
  <2>1. CASE Agreed(c) \/ Refused(c)
    BY <1>0, <2>1 DEF Agreed, Refused, agent, history, Sessions, TypeOK
  <2>2. CASE ReadAnswer(c) \/ MisreadAnswer(c)
    BY <2>2, NoteAnswerType DEF ReadAnswer, MisreadAnswer
  <2> QED BY <2>1, <2>2
<1>2. UNCHANGED <<rpc, stray, cached, expiries, applied>>
  BY DEF Agreed, Refused, ReadAnswer, MisreadAnswer, agent, history
<1>3. unread' \in [Calls -> BOOLEAN]
  BY DEF Sound, TypeOK, Agreed, Refused, ReadAnswer, MisreadAnswer, history
<1>4. \A q \in stray' : q.kind # "keyexchange" => q.session \in Sessions'
  BY <1>1, <1>2 DEF Sound, SessionsKnown
<1>5. CASE Agreed(c) \/ ReadAnswer(c)
  <2>1. /\ call' \in [Calls -> Call] /\ \A d \in Calls \ {c} : call'[d] = call[d]
    <3>1. CASE NextCandidate(c)
      BY <1>0, <3>1, NextCandidateType
    <3>2. CASE call' = [call EXCEPT ![c].pc = "ok"]
      BY <3>2 DEF Sound, TypeOK, Call
    <3> QED BY <1>5, <3>1, <3>2 DEF Agreed, ReadAnswer
  <2>2. exchange' = [exchange EXCEPT ![c] = NoExchange]
    BY <1>5 DEF Agreed, ReadAnswer
  <2>3. pullSession' \in Sessions \cup {NoSession}
    <3>1. CASE Agreed(c)
      BY <3>1 DEF Agreed, Answered, Sound, SessionsKnown, Carrying, TypeOK
    <3>2. CASE ReadAnswer(c)
      BY <3>2 DEF ReadAnswer, Sound, TypeOK
    <3> QED BY <1>5, <3>1, <3>2
  <2>4. exchange' \in [Calls -> Request \cup Answer \cup {NoExchange}] /\ SessionsKnown'
    BY <1>1, <1>4, <2>1, <2>2, Kinds, Disjoint, ExchangeReplaced DEF Carrying
  <2>5. TypeOK'
    BY <1>1, <1>2, <1>3, <2>1, <2>3, <2>4 DEF Sound, TypeOK
  <2> QED BY <2>4, <2>5 DEF Sound
<1>6. CASE Refused(c) \/ MisreadAnswer(c)
  <2>1. /\ call' \in [Calls -> Call] /\ \A d \in Calls \ {c} : call'[d] = call[d]
        /\ pullSession' = NoSession
        /\ exchange' = [exchange EXCEPT ![c] = KeyExchange(c)]
    BY <1>0, <1>6, RenegotiateType DEF Refused, MisreadAnswer
  <2>2. exchange' \in [Calls -> Request \cup Answer \cup {NoExchange}] /\ SessionsKnown'
    BY <1>0, <1>1, <1>4, <2>1, KeyExchangeType, ExchangeReplaced DEF Carrying
  <2>3. TypeOK'
    BY <1>1, <1>2, <1>3, <2>1, <2>2 DEF Sound, TypeOK
  <2> QED BY <2>2, <2>3 DEF Sound
<1> QED BY <1>5, <1>6

LEMMA SoundByFailure ==
  ASSUME Sound, NEW c \in Calls, RequestFails(c)
  PROVE  Sound'
<1>0. TypeOK
  BY DEF Sound
<1>1. /\ UNCHANGED <<rpc, pullSession, agent, applied, spoiled>>
      /\ exchange' = [exchange EXCEPT ![c] = NoExchange]
      /\ unread' \in [Calls -> BOOLEAN]
  BY DEF RequestFails, Sound, TypeOK
<1>2. /\ call' \in [Calls -> Call] /\ \A d \in Calls \ {c} : call'[d] = call[d]
  BY <1>0, NextCandidateType DEF RequestFails
<1>3. Sessions' = Sessions
  BY <1>1 DEF agent, Sessions
<1>4. /\ stray' \subseteq Request
      /\ \A q \in stray' : q.kind # "keyexchange" => q.session \in Sessions
  <2>1. CASE UNCHANGED stray
    BY <2>1 DEF Sound, TypeOK, SessionsKnown
  <2>2. CASE exchange[c] \in Request /\ stray' = stray \cup {exchange[c]}
    <3>1. exchange[c].kind # "keyexchange" => exchange[c].session \in Sessions
      BY <2>2, Kinds DEF Sound, SessionsKnown, Carrying
    <3> QED BY <2>2, <3>1 DEF Sound, TypeOK, SessionsKnown
  <2> QED BY <2>1, <2>2 DEF RequestFails
<1>5. exchange' \in [Calls -> Request \cup Answer \cup {NoExchange}] /\ SessionsKnown'
  BY <1>1, <1>2, <1>3, <1>4, Kinds, Disjoint, ExchangeReplaced DEF Carrying
<1>6. TypeOK'
  BY <1>1, <1>2, <1>3, <1>4, <1>5 DEF Sound, TypeOK, agent
<1> QED BY <1>5, <1>6 DEF Sound

\* A handler's start is a request still, its answer is none.
LEMMA StartedType ==
  ASSUME NEW q \in Request, NEW kind \in {"agreeing", "sealing"}, NEW n \in Nat
  PROVE  LET m == [kind |-> kind, by |-> q.by, to |-> q.to, session |-> n, seq |-> 0] IN
         m \in Request /\ m.by = q.by /\ m.kind = kind /\ m.session = n
  BY DEF Request

LEMMA AnswerType ==
  ASSUME NEW kind \in {"agreed", "answer"}, NEW outcome \in Outcomes, NEW s \in Nat, NEW n \in Nat
  PROVE  LET m == [kind |-> kind, outcome |-> outcome, session |-> s, seq |-> n] IN
         m \in Answer /\ m.kind = kind /\ m.session = s /\ m.outcome = outcome
  BY DEF Answer

LEMMA SoundByKeyExchange ==
  ASSUME Sound, NEW q \in Request, AgentKeyExchange(q)
  PROVE  Sound'
<1>0. TypeOK /\ channel \in Seq(Channel) /\ Len(channel) \in Nat
  BY LenProperties DEF Sound, TypeOK
<1>1. channel' \in Seq(Channel) /\ Len(channel') = Len(channel) + 1
  BY <1>0, NewChannelType, AppendProperties DEF AgentKeyExchange
<1>2. /\ Sessions \subseteq Sessions' /\ Len(channel) + 1 \in Sessions' /\ NoSession \notin Sessions
  BY <1>0, <1>1, SessionsGrow DEF Sessions
<1>3. PICK next \in Request :
        /\ Becomes(q, next) /\ next.by = q.by /\ next.kind = "agreeing"
        /\ next.session = Len(channel) + 1
  BY <1>0, StartedType DEF AgentKeyExchange, Run
<1>4. /\ call' = call /\ cached' = Len(channel) + 1
      /\ UNCHANGED <<rpc, pullSession, expiries, applied, unread, spoiled>>
  BY DEF AgentKeyExchange, history
<1>5. /\ exchange' \in [Calls -> Request \cup Answer \cup {NoExchange}]
      /\ stray' \subseteq Request /\ SessionsKnown'
  BY <1>2, <1>3, <1>4, BecomesSound DEF Carrying
<1>6. TypeOK'
  BY <1>0, <1>1, <1>2, <1>4, <1>5 DEF TypeOK
<1> QED BY <1>5, <1>6 DEF Sound

LEMMA RefuseSound ==
  ASSUME Sound, NEW q \in Request, Becomes(q, Refusal), call' = call, Sessions \subseteq Sessions'
  PROVE  /\ exchange' \in [Calls -> Request \cup Answer \cup {NoExchange}]
         /\ stray' \subseteq Request /\ SessionsKnown'
  BY RefusalType, Disjoint, BecomesSound DEF Carrying

LEMMA SoundByReading ==
  ASSUME Sound, NEW q \in Request,
         AgentNoSession(q) \/ AgentDecrypts(q) \/ AgentRunsBodyless(q)
  PROVE  Sound'
<1>0. TypeOK /\ channel \in Seq(Channel) /\ Len(channel) \in Nat
  BY LenProperties DEF Sound, TypeOK
<1>1. /\ call' = call /\ UNCHANGED <<rpc, pullSession, cached, expiries, unread>>
      /\ applied' = applied /\ spoiled' = spoiled /\ q.kind = "sealed"
  BY <1>0 DEF AgentNoSession, AgentDecrypts, AgentRunsBodyless, Refuse, agent, history, TypeOK
<1>2. channel' \in Seq(Channel) /\ Len(channel') = Len(channel)
  <2>1. CASE AgentNoSession(q) \/ AgentRunsBodyless(q)
    BY <1>0, <2>1 DEF AgentNoSession, AgentRunsBodyless, agent
  <2>2. CASE AgentDecrypts(q)
    <3>1. cached \in 1 .. Len(channel)
      BY <1>0, <2>2 DEF AgentDecrypts, TypeOK, Sessions
    <3> DEFINE w == channel[cached].toAgent.window
    <3>2. w \in Window /\ q.seq \in Nat
      BY <1>0, <3>1, ChannelParts, Kinds
    <3>3. CASE Fresh(w, q.seq)
      <4>1. Noted(w, q.seq) \in Window
        BY <3>2, <3>3, NotedType
      <4>2. PICK new \in Window : channel' = [channel EXCEPT ![cached].toAgent.window = new]
        BY <2>2, <3>3, <4>1 DEF AgentDecrypts
      <4>3. channel \in Seq(Channel) /\ cached \in 1 .. Len(channel)
        BY <1>0, <3>1
      <4>4. \/ channel' = [channel EXCEPT ![cached].toAgent.window = new]
            \/ channel' = [channel EXCEPT ![cached].toMaster.window = new]
        BY <4>2
      <4> QED BY ONLY <4>3, <4>4, new \in Window, WindowChanges
    <3>4. CASE ~Fresh(w, q.seq)
      BY <1>0, <2>2, <3>4 DEF AgentDecrypts
    <3> QED BY <3>3, <3>4
  <2> QED BY <2>1, <2>2
<1>3. Sessions' = Sessions
  BY <1>2 DEF Sessions
<1>4. CASE Becomes(q, Refusal)
  <2>1. /\ exchange' \in [Calls -> Request \cup Answer \cup {NoExchange}]
        /\ stray' \subseteq Request /\ SessionsKnown'
    BY <1>1, <1>3, <1>4, RefuseSound
  <2>2. TypeOK'
    BY <1>0, <1>1, <1>2, <1>3, <2>1 DEF TypeOK
  <2> QED BY <2>1, <2>2 DEF Sound
<1>5. CASE Run(q, "sealing", cached) /\ cached # NoSession
  <2>1. cached \in Nat /\ cached \in Sessions
    BY <1>0, <1>5 DEF TypeOK, Sessions
  <2>2. PICK next \in Request :
          /\ Becomes(q, next) /\ next.by = q.by /\ next.kind = "sealing" /\ next.session = cached
    BY <1>5, <2>1, StartedType DEF Run
  <2>3. /\ exchange' \in [Calls -> Request \cup Answer \cup {NoExchange}]
        /\ stray' \subseteq Request /\ SessionsKnown'
    BY <1>1, <1>3, <2>1, <2>2, BecomesSound DEF Carrying
  <2>4. TypeOK'
    BY <1>0, <1>1, <1>2, <1>3, <2>3 DEF TypeOK
  <2> QED BY <2>3, <2>4 DEF Sound
<1>6. \/ Becomes(q, Refusal)
      \/ Run(q, "sealing", cached) /\ cached # NoSession
  BY DEF AgentNoSession, AgentDecrypts, AgentRunsBodyless, Refuse
<1> QED BY <1>4, <1>5, <1>6

LEMMA RequestSession ==
  ASSUME Sound, NEW q \in Requested, q.kind # "keyexchange"
  PROVE  q.session \in Sessions
<1>1. CASE q \in stray
  BY <1>1 DEF Sound, SessionsKnown
<1>2. CASE q \notin stray
  <2>1. PICK c \in Calls : q = exchange[c] /\ q \in Request
    BY <1>2 DEF Requested
  <2>2. q.kind \in Carrying \cup {"agreeing", "agreed"}
    BY <2>1, Kinds DEF Carrying
  <2> QED BY <2>1, <2>2 DEF Sound, SessionsKnown
<1> QED BY <1>1, <1>2

LEMMA SoundByAnswering ==
  ASSUME Sound, NEW q \in Requested, AgentAnswers(q)
  PROVE  Sound'
<1>0. /\ TypeOK /\ channel \in Seq(Channel) /\ Len(channel) \in Nat /\ q \in Request
      /\ q.session \in Nat /\ q.session \in 1 .. Len(channel)
  BY LenProperties, RequestedType, RequestSession DEF Sound, TypeOK, AgentAnswers, Sessions
<1> DEFINE s == q.session
           seq == IF q.kind = "sealing" THEN channel[s].toMaster.sent + 1 ELSE 0
           kind == IF q.kind = "sealing" THEN "answer" ELSE "agreed"
<1>1. seq \in Nat
  BY <1>0, ChannelParts
<1>2. channel' \in Seq(Channel) /\ Len(channel') = Len(channel)
  <2>1. CASE q.kind = "sealing"
    <3>1. PICK n \in Nat : channel' = [channel EXCEPT ![s].toMaster.sent = n]
      BY <1>1, <2>1 DEF AgentAnswers, SealWith
    <3> QED BY <1>0, <3>1, SentChanges
  <2>2. CASE q.kind # "sealing"
    BY <1>0, <2>2 DEF AgentAnswers
  <2> QED BY <2>1, <2>2
<1>3. PICK outcome \in Outcomes :
        /\ applied' = [applied EXCEPT ![q.by] = IF outcome = "ok" THEN @ + 1 ELSE @]
        /\ Becomes(q, [kind |-> kind, outcome |-> outcome, session |-> s, seq |-> seq])
  BY DEF AgentAnswers, SealWith
<1>4. /\ call' = call /\ q.kind \in {"agreeing", "sealing"}
      /\ UNCHANGED <<rpc, pullSession, cached, expiries, unread, spoiled>>
  BY DEF AgentAnswers
<1>5. Sessions' = Sessions /\ s \in Sessions
  BY <1>0, <1>2 DEF Sessions
<1>6. PICK next \in Answer : Becomes(q, next) /\ next.kind = kind /\ next.session = s
  <2> HIDE DEF s, seq
  <2> kind \in {"agreed", "answer"} /\ s \in Nat
    BY <1>0 DEF s
  <2> HIDE DEF kind
  <2> QED BY <1>1, <1>3, AnswerType
<1>7. /\ next.kind \in Carrying => q.kind \in Carrying
      /\ next \notin Request
  BY <1>6, Disjoint DEF Carrying
<1>8. /\ exchange' \in [Calls -> Request \cup Answer \cup {NoExchange}]
      /\ stray' \subseteq Request /\ SessionsKnown'
  BY <1>0, <1>4, <1>5, <1>6, <1>7, BecomesSound
<1>9. applied' \in [Calls -> Nat]
  <2> q.by \in Calls /\ applied \in [Calls -> Nat]
    BY <1>0, Kinds DEF TypeOK
  <2>1. CASE applied' = [applied EXCEPT ![q.by] = @ + 1]
    BY <2>1
  <2>2. CASE applied' = [applied EXCEPT ![q.by] = @]
    BY <2>2
  <2> QED BY <1>3, <2>1, <2>2
<1>10. TypeOK'
  BY <1>0, <1>2, <1>4, <1>5, <1>8, <1>9 DEF TypeOK
<1> QED BY <1>8, <1>10 DEF Sound

LEMMA SoundPreserved == Sound /\ [Next]_vars => Sound'
<1> SUFFICES ASSUME Sound, [Next]_vars PROVE Sound'
  OBVIOUS
<1>1. CASE UNCHANGED vars
  BY <1>1 DEF vars, agent, history, Sound, TypeOK, SessionsKnown, Sessions
<1>2. ASSUME NEW c \in Calls, ControllerStep(c) \/ AgentRunsRPC(c) \/ LoseRPC(c)
      PROVE  Sound'
  BY <1>2, SoundByRPC, SoundBySending, SoundByAnswer, SoundByFailure DEF ControllerStep
<1>3. ASSUME NEW q \in Requested, AgentStep(q)
      PROVE  Sound'
  <2>1. q \in Request
    BY RequestedType DEF Sound
  <2> QED BY <1>3, <2>1, SoundByKeyExchange, SoundByReading, SoundByAnswering DEF AgentStep
<1>4. CASE CacheExpires
  BY <1>4 DEF CacheExpires, history, Sound, TypeOK, SessionsKnown, Sessions
<1> QED BY <1>1, <1>2, <1>3, <1>4 DEF Next

\* Types, and every session a message or a side names has been negotiated, for
\* any number of calls, addresses and key exchanges.
THEOREM CommandTypeCorrect == Spec => []TypeOK
<1>1. Sound => TypeOK
  BY DEF Sound
<1> QED BY <1>1, SoundInitially, SoundPreserved, PTL DEF Spec
-----------------------------------------------------------------------------
(* At most one execution.  What may still have the command carried out is the  *)
(* call on the WebSocket, the exchange under way or a request its caller gave  *)
(* up, never two of them, unless an answer was given up.                       *)

Waits(c) ==
  /\ exchange[c].kind # "none" => call[c].pc = "waiting"
  /\ exchange[c].kind = "refused" => exchange[c].outcome # "ok"

Strays(c) == {q \in stray : q.by = c}

OnceFor(c) ==
  /\ applied[c] <= 1
  /\ call[c].pc \in {"start", "http"} => applied[c] = 0
  /\ rpc[c] = "sent" => applied[c] = 0
  /\ rpc[c] # "none" => call[c].pc = "rpc"
  /\ exchange[c] \in Request => applied[c] = 0
  /\ exchange[c] \in Answer /\ exchange[c].outcome # "ok" => applied[c] = 0
  /\ Strays(c) # {} => call[c].pc = "failed" /\ applied[c] = 0
  /\ \A q, m \in Strays(c) : q = m

OnceAt(c) == Waits(c) /\ (~unread[c] => OnceFor(c))
Once == \A c \in Calls : OnceAt(c)

\* The calls a step is not about.
LEMMA OnceElsewhere ==
  ASSUME NEW d \in Calls, OnceAt(d), call'[d] = call[d], rpc'[d] = rpc[d],
         exchange'[d] = exchange[d], applied'[d] = applied[d], unread'[d] = unread[d],
         Strays(d)' = Strays(d)
  PROVE  OnceAt(d)'
  BY DEF OnceAt, Waits, OnceFor

LEMMA OnceByRPC ==
  ASSUME Sound, Once, NEW c \in Calls,
         \/ SendRPC(c) \/ NoRPC(c) \/ AgentRunsRPC(c) \/ LoseRPC(c)
         \/ RouteRPCReply(c) \/ RPCUnavailable(c) \/ NotConnected(c)
  PROVE  Once'
<1>0. /\ call \in [Calls -> Call] /\ rpc \in [Calls -> {"none", "sent", "ok", "error"}]
      /\ applied \in [Calls -> Nat] /\ unread \in [Calls -> BOOLEAN]
  BY DEF Sound, TypeOK
<1>1. UNCHANGED <<exchange, stray>>
  BY DEF SendRPC, NoRPC, AgentRunsRPC, LoseRPC, RouteRPCReply, RPCUnavailable, NotConnected
<1>2. \A d \in Calls : Strays(d)' = Strays(d)
  BY <1>1 DEF Strays
<1>3. ASSUME NEW d \in Calls, d # c PROVE OnceAt(d)'
  <2>1. call'[d] = call[d] /\ rpc'[d] = rpc[d] /\ applied'[d] = applied[d] /\ unread'[d] = unread[d]
    <3>1. CASE SendRPC(c) \/ NoRPC(c) \/ LoseRPC(c) \/ RouteRPCReply(c) \/ NotConnected(c)
      BY <1>0, <1>3, <3>1 DEF SendRPC, NoRPC, LoseRPC, RouteRPCReply, NotConnected, history
    <3>2. CASE AgentRunsRPC(c)
      BY <1>0, <1>3, <3>2 DEF AgentRunsRPC
    <3>3. CASE RPCUnavailable(c)
      BY <1>0, <1>3, <3>3 DEF RPCUnavailable
    <3> QED BY <3>1, <3>2, <3>3
  <2> QED BY <1>1, <1>2, <1>3, <2>1, OnceElsewhere DEF Once
<1>4. OnceAt(c)'
  <2>0. OnceAt(c) /\ call[c] \in Call
    BY <1>0 DEF Once
  <2>1. CASE SendRPC(c) \/ NoRPC(c) \/ NotConnected(c)
    <3>1. /\ call[c].pc \in {"start", "http"} /\ call'[c].pc \in {"rpc", "http", "failed"}
          /\ call[c].pc = "start" \/ call'[c].pc = "failed"
          /\ rpc'[c] # "none" => call'[c].pc = "rpc" \/ rpc'[c] = rpc[c]
          /\ applied'[c] = applied[c] /\ unread'[c] = unread[c]
      BY <1>0, <2>0, <2>1 DEF SendRPC, NoRPC, NotConnected, history, Call
    <3> QED BY <1>1, <1>2, <2>0, <3>1 DEF OnceAt, Waits, OnceFor
  <2>2. CASE RPCUnavailable(c)
    BY <1>0, <1>1, <2>0, <2>2 DEF RPCUnavailable, OnceAt, Waits
  <2>3. CASE LoseRPC(c)
    <3>1. call'[c] = call[c] /\ rpc'[c] = "none" /\ applied'[c] = applied[c] /\ unread'[c] = unread[c]
      BY <1>0, <2>3 DEF LoseRPC, history
    <3> QED BY <1>1, <1>2, <2>0, <3>1 DEF OnceAt, Waits, OnceFor
  <2>4. CASE RouteRPCReply(c)
    <3>1. /\ call[c].pc = "rpc" /\ call'[c].pc \in {"ok", "failed"} /\ rpc'[c] = "none"
          /\ applied'[c] = applied[c] /\ unread'[c] = unread[c]
      BY <1>0, <2>0, <2>4 DEF RouteRPCReply, history, Call
    <3> QED BY <1>1, <1>2, <2>0, <3>1 DEF OnceAt, Waits, OnceFor
  <2>5. CASE AgentRunsRPC(c)
    <3>1. /\ call'[c] = call[c] /\ rpc[c] = "sent" /\ rpc'[c] \in {"ok", "error"}
          /\ applied'[c] \in {applied[c], applied[c] + 1} /\ unread'[c] = unread[c]
      BY <1>0, <2>5 DEF AgentRunsRPC
    <3>2. ~unread[c] => applied[c] = 0 /\ call[c].pc = "rpc"
      BY <2>0, <3>1 DEF OnceAt, OnceFor
    <3>3. ~unread[c] => exchange[c] \notin Request /\ exchange[c] \notin Answer
      BY <2>0, <3>2, Kinds DEF OnceAt, Waits
    <3> QED BY <1>1, <1>2, <2>0, <3>1, <3>2, <3>3 DEF OnceAt, Waits, OnceFor
  <2> QED BY <2>1, <2>2, <2>3, <2>4, <2>5
<1> QED BY <1>3, <1>4 DEF Once

\* Sending and reading: the command is sent again only after an answer that
\* says it has not been carried out.
LEMMA OnceByHTTP ==
  ASSUME Sound, Sound', Once, NEW c \in Calls,
         \/ NegotiateFirst(c) \/ SendSealed(c)
         \/ Agreed(c) \/ Refused(c) \/ ReadAnswer(c) \/ MisreadAnswer(c)
  PROVE  Once'
<1>0. /\ TypeOK /\ TypeOK' /\ call[c] \in Call /\ OnceAt(c)
      /\ call \in [Calls -> Call] /\ exchange \in [Calls -> Request \cup Answer \cup {NoExchange}]
      /\ applied \in [Calls -> Nat] /\ unread \in [Calls -> BOOLEAN]
  BY DEF Sound, TypeOK, Once
<1>1. UNCHANGED <<rpc, stray, applied>>
  BY DEF NegotiateFirst, SendSealed, Agreed, Refused, ReadAnswer, MisreadAnswer, history
<1>2. \A d \in Calls : Strays(d)' = Strays(d)
  BY <1>1 DEF Strays
<1>3. ASSUME NEW d \in Calls, d # c PROVE OnceAt(d)'
  <2>1. call'[d] = call[d] /\ exchange'[d] = exchange[d] /\ unread'[d] = unread[d]
    <3>1. CASE NegotiateFirst(c) \/ SendSealed(c)
      BY <1>0, <1>3, <3>1 DEF NegotiateFirst, SendSealed, history
    <3>2. CASE Agreed(c) \/ ReadAnswer(c)
      <4>1. call'[d] = call[d]
        BY <1>0, <1>3, <3>2, NextCandidateType DEF Agreed, ReadAnswer
      <4> QED BY <1>0, <1>3, <3>2, <4>1 DEF Agreed, ReadAnswer, history
    <3>3. CASE Refused(c) \/ MisreadAnswer(c)
      <4>1. call'[d] = call[d] /\ exchange'[d] = exchange[d]
        BY <1>0, <1>3, <3>3, RenegotiateType DEF Refused, MisreadAnswer
      <4> QED BY <1>0, <1>3, <3>3, <4>1 DEF Refused, MisreadAnswer, history
    <3> QED BY <3>1, <3>2, <3>3
  <2> QED BY <1>1, <1>2, <1>3, <2>1, OnceElsewhere DEF Once
<1>4. OnceAt(c)'
  <2>1. CASE NegotiateFirst(c) \/ SendSealed(c)
    <3>1. /\ call[c].pc = "http" /\ call'[c].pc = "waiting" /\ unread'[c] = unread[c]
          /\ exchange'[c].kind \in {"keyexchange", "sealed"}
      BY <1>0, <2>1 DEF NegotiateFirst, SendSealed, KeyExchange, Call, history
    <3>2. exchange'[c] \notin Answer
      BY <3>1, Kinds
    <3> QED BY <1>0, <1>1, <1>2, <3>1, <3>2 DEF OnceAt, Waits, OnceFor
  <2>2. CASE Agreed(c) \/ ReadAnswer(c)
    <3>1. /\ call[c].pc = "waiting" /\ exchange[c].kind \in {"agreed", "answer"}
          /\ exchange'[c] = NoExchange /\ unread'[c] = unread[c]
      BY <1>0, <2>2 DEF Agreed, ReadAnswer, Answered, history
    <3>2. exchange[c] \in Answer /\ exchange'[c] \notin Request /\ exchange'[c] \notin Answer
          /\ exchange'[c].kind = "none"
      BY <1>0, <3>1, Kinds, Disjoint
    <3>3. CASE exchange[c].outcome = "ok"
      <4>1. call'[c].pc = "ok"
        BY <1>0, <2>2, <3>3 DEF Agreed, ReadAnswer, Call
      <4> QED BY <1>0, <1>1, <1>2, <3>1, <3>2, <4>1 DEF OnceAt, Waits, OnceFor
    <3>4. CASE exchange[c].outcome # "ok"
      <4>1. call'[c].pc \in {"http", "failed"}
        BY <1>0, <2>2, <3>4, NextCandidateType DEF Agreed, ReadAnswer
      <4>2. ~unread[c] => applied[c] = 0
        BY <1>0, <3>2, <3>4 DEF OnceAt, OnceFor
      <4> QED BY <1>0, <1>1, <1>2, <3>1, <3>2, <4>1, <4>2 DEF OnceAt, Waits, OnceFor
    <3> QED BY <3>3, <3>4
  <2>3. CASE Refused(c) \/ MisreadAnswer(c)
    <3>1. /\ call[c].pc = "waiting" /\ call'[c].pc = "waiting"
          /\ exchange[c].kind \in {"refused", "answer"}
          /\ exchange'[c] = KeyExchange(c)
      BY <1>0, <2>3, RenegotiateType DEF Refused, MisreadAnswer, Answered
    <3>2. exchange[c] \in Answer /\ exchange'[c] \in Request /\ exchange'[c].kind = "keyexchange"
          /\ exchange'[c] \notin Answer
      BY <1>0, <3>1, KeyExchangeType, Kinds
    <3>3. ~unread'[c] => ~unread[c] /\ exchange[c].outcome # "ok"
      <4>1. CASE Refused(c)
        BY <1>0, <4>1 DEF Refused, Answered, history, OnceAt, Waits
      <4>2. CASE MisreadAnswer(c)
        BY <1>0, <4>2, Zenon DEF MisreadAnswer
      <4> QED BY <2>3, <4>1, <4>2
    <3>4. ~unread'[c] => applied[c] = 0 /\ rpc[c] = "none"
      BY <1>0, <3>1, <3>2, <3>3 DEF OnceAt, OnceFor
    <3> QED BY <1>0, <1>1, <1>2, <3>1, <3>2, <3>3, <3>4 DEF OnceAt, Waits, OnceFor
  <2> QED BY <2>1, <2>2, <2>3
<1> QED BY <1>3, <1>4 DEF Once

\* A call that gives its last answer up leaves one request behind at most.
LEMMA OnceByFailure ==
  ASSUME Sound, Sound', Once, NEW c \in Calls, RequestFails(c)
  PROVE  Once'
<1>0. /\ TypeOK /\ call[c] \in Call /\ OnceAt(c)
      /\ call \in [Calls -> Call] /\ exchange \in [Calls -> Request \cup Answer \cup {NoExchange}]
      /\ unread \in [Calls -> BOOLEAN]
  BY DEF Sound, TypeOK, Once
<1>1. /\ UNCHANGED <<rpc, applied>> /\ exchange' = [exchange EXCEPT ![c] = NoExchange]
      /\ call[c].pc = "waiting" /\ NextCandidate(c)
      /\ \/ UNCHANGED stray
         \/ exchange[c] \in Request /\ stray' = stray \cup {exchange[c]}
  BY DEF RequestFails
<1>2. \A d \in Calls \ {c} : unread'[d] = unread[d]
  BY <1>0 DEF RequestFails
<1>3. ASSUME NEW d \in Calls, d # c PROVE OnceAt(d)'
  <2>1. call'[d] = call[d] /\ exchange'[d] = exchange[d]
    BY <1>0, <1>1, <1>3, NextCandidateType
  <2>2. exchange[c] \in Request => exchange[c].by # d
    BY <1>3 DEF Sound, SessionsKnown
  <2>3. Strays(d)' = Strays(d)
    BY <1>1, <2>2 DEF Strays
  <2> QED BY <1>1, <1>2, <1>3, <2>1, <2>3, OnceElsewhere DEF Once
<1>4. OnceAt(c)'
  <2>1. /\ exchange'[c] = NoExchange /\ exchange'[c].kind = "none"
        /\ exchange'[c] \notin Request /\ exchange'[c] \notin Answer
    BY <1>0, <1>1, Kinds, Disjoint
  <2>2. Waits(c)'
    BY <2>1 DEF Waits
  <2>3. ASSUME ~unread'[c] PROVE OnceFor(c)'
    <3>1. ~unread[c] /\ ~(call[c].candidate < Candidates)
      BY <1>0, <2>3, Zenon DEF RequestFails
    <3>2. call'[c].pc = "failed"
      BY <1>0, <1>1, <3>1 DEF NextCandidate, Call
    <3>3. OnceFor(c)
      BY <1>0, <3>1 DEF OnceAt
    <3>4. Strays(c) = {}
      BY <1>1, <3>3 DEF OnceFor
    <3>5. /\ Strays(c)' # {} => applied[c] = 0
          /\ \A q, m \in Strays(c)' : q = m
      <4>1. CASE UNCHANGED stray
        <5> Strays(c)' = Strays(c)
          BY <4>1 DEF Strays
        <5> QED BY <3>4
      <4>2. CASE exchange[c] \in Request /\ stray' = stray \cup {exchange[c]}
        <5>1. applied[c] = 0
          BY <3>3, <4>2 DEF OnceFor
        <5>2. Strays(c)' \subseteq {exchange[c]}
          BY <3>4, <4>2 DEF Strays
        <5> QED BY <5>1, <5>2
      <4> QED BY <1>1, <4>1, <4>2
    <3>6. rpc[c] = "none"
      BY <1>1, <3>3 DEF OnceFor
    <3> QED BY <1>1, <2>1, <3>2, <3>3, <3>5, <3>6 DEF OnceFor
  <2> QED BY <2>2, <2>3 DEF OnceAt
<1> QED BY <1>3, <1>4 DEF Once

\* The agent starts, refuses or answers a request; only an answer that says ok
\* carries the command out.
LEMMA OnceByBecomes ==
  ASSUME Sound, Sound', Once, NEW q \in Request, NEW next \in Request \cup Answer,
         Becomes(q, next), call' = call, rpc' = rpc, unread' = unread,
         next \in Request => next.by = q.by,
         next.kind = "refused" => next.outcome # "ok",
         \A d \in Calls \ {q.by} : applied'[d] = applied[d],
         \/ applied'[q.by] = applied[q.by]
         \/ next \in Answer /\ next.outcome = "ok" /\ applied'[q.by] = applied[q.by] + 1
  PROVE  Once'
<1> DEFINE c == q.by
<1>0. /\ TypeOK /\ c \in Calls /\ OnceAt(c) /\ q.kind # "none" /\ next.kind # "none"
      /\ exchange \in [Calls -> Request \cup Answer \cup {NoExchange}]
      /\ applied[c] \in Nat
      /\ next \in Answer => next \notin Request
  BY Kinds, Disjoint DEF Sound, TypeOK, Once
<1>1. CASE exchange[c] = q /\ exchange' = [exchange EXCEPT ![c] = next] /\ UNCHANGED stray
  <2>1. \A d \in Calls : Strays(d)' = Strays(d)
    BY <1>1 DEF Strays
  <2>2. exchange'[c] = next /\ \A d \in Calls \ {c} : exchange'[d] = exchange[d]
    BY <1>0, <1>1
  <2>3. ASSUME NEW d \in Calls, d # c PROVE OnceAt(d)'
    BY <2>1, <2>2, <2>3, OnceElsewhere DEF Once
  <2>4. OnceAt(c)'
    <3>1. Waits(c)' /\ call[c].pc = "waiting"
      BY <1>0, <1>1, <2>2 DEF OnceAt, Waits
    <3>2. ASSUME ~unread[c] PROVE OnceFor(c)'
      <4>1. applied[c] = 0 /\ rpc[c] = "none" /\ Strays(c) = {}
        BY <1>0, <1>1, <3>1, <3>2 DEF OnceAt, OnceFor
      <4> QED BY <1>0, <2>1, <2>2, <3>1, <4>1 DEF OnceFor
    <3> QED BY <3>1, <3>2 DEF OnceAt
  <2> QED BY <2>3, <2>4 DEF Once
<1>2. CASE /\ q \in stray /\ stray' = (stray \ {q}) \cup ({next} \cap Request)
           /\ UNCHANGED exchange
  <2>1. ASSUME NEW d \in Calls, d # c PROVE OnceAt(d)'
    <3>1. Strays(d)' = Strays(d)
      BY <1>2, <2>1 DEF Strays
    <3> QED BY <1>2, <2>1, <3>1, OnceElsewhere DEF Once
  <2>2. OnceAt(c)'
    <3>1. Waits(c)'
      BY <1>0, <1>2 DEF OnceAt, Waits
    <3>2. ASSUME ~unread[c] PROVE OnceFor(c)'
      <4>1. q \in Strays(c) /\ OnceFor(c)
        BY <1>0, <1>2, <3>2 DEF Strays, OnceAt
      <4>2. applied[c] = 0 /\ call[c].pc = "failed" /\ rpc[c] = "none"
        BY <4>1 DEF OnceFor
      <4>3. Strays(c) \subseteq {q}
        BY <4>1 DEF OnceFor
      <4>4. Strays(c)' \subseteq {next} \cap Request
        BY <1>2, <4>3 DEF Strays
      <4>5. exchange[c].kind = "none"
        BY <1>0, <4>2 DEF OnceAt, Waits
      <4>6. exchange[c] \notin Request /\ exchange[c] \notin Answer
        BY <4>5, Kinds
      <4>7. applied'[c] <= 1 /\ (next \in Request => applied'[c] = 0)
        BY <1>0, <4>2
      <4> HIDE DEF c
      <4> QED BY <1>2, <4>2, <4>4, <4>6, <4>7 DEF OnceFor
    <3> QED BY <3>1, <3>2 DEF OnceAt
  <2> QED BY <2>1, <2>2 DEF Once
<1> QED BY <1>1, <1>2 DEF Becomes

LEMMA OnceByAgent ==
  ASSUME Sound, Sound', Once, NEW q \in Requested, AgentStep(q)
  PROVE  Once'
<1>0. q \in Request /\ q.by \in Calls /\ q.session \in Nat /\ applied \in [Calls -> Nat]
      /\ TypeOK /\ TypeOK'
  BY RequestedType, Kinds DEF Sound, TypeOK
<1>1. call' = call /\ rpc' = rpc /\ unread' = unread
  BY DEF AgentStep, AgentKeyExchange, AgentNoSession, AgentDecrypts, AgentRunsBodyless,
     AgentAnswers, history
<1>2. CASE AgentAnswers(q)
  <2> DEFINE seq == IF q.kind = "sealing" THEN channel[q.session].toMaster.sent + 1 ELSE 0
             kind == IF q.kind = "sealing" THEN "answer" ELSE "agreed"
  <2>1. PICK outcome \in Outcomes :
          /\ applied' = [applied EXCEPT ![q.by] = IF outcome = "ok" THEN @ + 1 ELSE @]
          /\ Becomes(q, [kind |-> kind, outcome |-> outcome, session |-> q.session, seq |-> seq])
    BY <1>2 DEF AgentAnswers, SealWith
  <2>2. q.session \in 1 .. Len(channel) /\ channel \in Seq(Channel)
    BY <1>2, RequestSession DEF AgentAnswers, Sessions, Sound, TypeOK
  <2>3. seq \in Nat
    BY <2>2, ChannelParts
  <2> HIDE DEF seq
  <2>4. kind \in {"agreed", "answer"}
    OBVIOUS
  <2> HIDE DEF kind
  <2>5. PICK next \in Answer :
          /\ Becomes(q, next) /\ next.outcome = outcome /\ next.kind \in {"agreed", "answer"}
    BY <1>0, <2>1, <2>3, <2>4, AnswerType
  <2>6. /\ \A d \in Calls \ {q.by} : applied'[d] = applied[d]
        /\ applied'[q.by] = IF outcome = "ok" THEN applied[q.by] + 1 ELSE applied[q.by]
    BY <1>0, <2>1
  <2> QED BY <1>0, <1>1, <2>5, <2>6, Disjoint, OnceByBecomes
<1>3. CASE ~AgentAnswers(q)
  <2>1. applied' = applied
    BY <1>3 DEF AgentStep, AgentKeyExchange, AgentNoSession, AgentDecrypts, AgentRunsBodyless,
       Refuse, history
  <2>2. CASE Becomes(q, Refusal)
    BY <1>0, <1>1, <2>1, <2>2, RefusalType, Disjoint, OnceByBecomes
  <2>3. ASSUME NEW kind \in {"agreeing", "sealing"}, NEW n \in Nat, Run(q, kind, n) PROVE Once'
    <3>1. PICK next \in Request : Becomes(q, next) /\ next.by = q.by /\ next.kind = kind
      BY <1>0, <2>3, StartedType DEF Run
    <3> QED BY <1>0, <1>1, <2>1, <3>1, OnceByBecomes
  <2>4. \/ Becomes(q, Refusal)
        \/ \E kind \in {"agreeing", "sealing"}, n \in Nat : Run(q, kind, n)
    <3>1. cached \in Nat /\ Len(channel) + 1 \in Nat
      BY <1>0, LenProperties DEF TypeOK, Sessions, NoSession
    <3> QED BY <1>3, <3>1 DEF AgentStep, AgentKeyExchange, AgentNoSession, AgentDecrypts,
           AgentRunsBodyless, Refuse
  <2> QED BY <2>2, <2>3, <2>4
<1> QED BY <1>2, <1>3

LEMMA OnceInitially == Init => Once
  BY Kinds, Disjoint DEF Init, Once, OnceAt, Waits, OnceFor, Strays, NoExchange

LEMMA OncePreserved == Sound /\ Sound' /\ Once /\ [Next]_vars => Once'
<1> SUFFICES ASSUME Sound, Sound', Once, [Next]_vars PROVE Once'
  OBVIOUS
<1>1. CASE UNCHANGED vars \/ CacheExpires
  <2>1. UNCHANGED <<call, rpc, exchange, stray, applied, unread>>
    BY <1>1 DEF vars, agent, history, CacheExpires
  <2>2. \A d \in Calls : Strays(d)' = Strays(d)
    BY <2>1 DEF Strays
  <2> QED BY <2>1, <2>2, OnceElsewhere DEF Once
<1>2. ASSUME NEW c \in Calls, ControllerStep(c) \/ AgentRunsRPC(c) \/ LoseRPC(c)
      PROVE  Once'
  BY <1>2, OnceByRPC, OnceByHTTP, OnceByFailure DEF ControllerStep
<1>3. ASSUME NEW q \in Requested, AgentStep(q)
      PROVE  Once'
  BY <1>3, OnceByAgent
<1> QED BY <1>1, <1>2, <1>3 DEF Next

\* What the agent refuses it has not run, and what a call has read an answer to
\* it sends again only if the answer says that nothing was done: the command is
\* carried out twice only if the call gave up on an answer.
THEOREM CommandOnce == Spec => []TwiceOnlyIfUnread
<1>1. Once => TwiceOnlyIfUnread
  BY DEF Once, OnceAt, OnceFor, TwiceOnlyIfUnread
<1> QED BY <1>1, SoundInitially, SoundPreserved, OnceInitially, OncePreserved, PTL DEF Spec

-----------------------------------------------------------------------------
(* Why the answer to a body opens.  The body was read with the session it was  *)
(* sealed with, and so is the answer.  Its number has not been received: the   *)
(* window shows only numbers that were given out, and whose answers have been  *)
(* read, or that an answer of another session has used up.                     *)

WindowOf(s) == channel[s].toMaster.window
Given(s)    == channel[s].toMaster.sent

SameSession(c) ==
  c \in WithBody /\ exchange[c].kind \in Carrying => exchange[c].session = call[c].session

Answering(c, s) == exchange[c].kind = "answer" /\ exchange[c].session = s

Numbered(c) == \A s \in Sessions : Answering(c, s) => exchange[c].seq \in 1 .. Given(s)

Apart(c) ==
  \A d \in Calls, s \in Sessions :
    Answering(c, s) /\ Answering(d, s) /\ exchange[c].seq = exchange[d].seq => c = d

Shown(s) ==
  \A n \in Nat : Holds(WindowOf(s), n) =>
    \/ <<s, n>> \in spoiled
    \/ n <= Given(s) /\ \A c \in Calls : ~(Answering(c, s) /\ exchange[c].seq = n)

OpenInv ==
  /\ \A c \in Calls : SameSession(c) /\ Numbered(c) /\ Apart(c)
  /\ \A s \in Sessions : Shown(s)

\* Nothing is answered, and no window moved; sessions may be added and numbers
\* given out.
LEMMA OpenStays ==
  ASSUME Sound, OpenInv, Sessions \subseteq Sessions', spoiled' = spoiled,
         \A c \in Calls : SameSession(c)',
         \A c \in Calls : exchange'[c].kind = "answer" => exchange'[c] = exchange[c],
         \A s \in Sessions : WindowOf(s)' = WindowOf(s) /\ Given(s) <= Given(s)',
         \A s \in Sessions : Given(s) \in Nat /\ Given(s)' \in Nat,
         \A s \in Sessions' \ Sessions : WindowOf(s)'.bits = {}
  PROVE  OpenInv'
<1>1. ASSUME NEW c \in Calls, exchange'[c].kind = "answer"
      PROVE  exchange'[c] = exchange[c] /\ exchange[c].session \in Sessions
  BY <1>1 DEF Sound, SessionsKnown, Carrying
<1>2. ASSUME NEW c \in Calls PROVE Numbered(c)' /\ Apart(c)'
  BY <1>1 DEF OpenInv, Numbered, Apart, Answering
<1>3. ASSUME NEW s \in Sessions' PROVE Shown(s)'
  <2>1. CASE s \in Sessions
    BY <1>1, <2>1 DEF OpenInv, Shown, Answering
  <2>2. CASE s \notin Sessions
    BY <2>2 DEF Shown, Holds
  <2> QED BY <2>1, <2>2
<1> QED BY <1>2, <1>3 DEF OpenInv

\* What the steps on a channel do to its direction to the controller.
LEMMA ToMaster ==
  ASSUME NEW chs \in Seq(Channel), NEW t \in 1 .. Len(chs), NEW v, NEW s \in 1 .. Len(chs)
  PROVE  /\ [chs EXCEPT ![t].toAgent.sent = v][s].toMaster = chs[s].toMaster
         /\ [chs EXCEPT ![t].toAgent.window = v][s].toMaster = chs[s].toMaster
         /\ [chs EXCEPT ![t].toMaster.sent = v][s].toMaster =
              IF s = t THEN [chs[s].toMaster EXCEPT !.sent = v] ELSE chs[s].toMaster
         /\ [chs EXCEPT ![t].toMaster.window = v][s].toMaster =
              IF s = t THEN [chs[s].toMaster EXCEPT !.window = v] ELSE chs[s].toMaster
<1>1. chs \in [1 .. Len(chs) -> Channel] /\ chs[s] \in Channel
  BY LenProperties, ElementOfSeq
<1>2. \A e : [chs EXCEPT ![t] = e][s] = IF s = t THEN e ELSE chs[s]
  BY <1>1
<1>3. \A e : /\ [chs[s] EXCEPT !.toAgent = e].toMaster = chs[s].toMaster
             /\ [chs[s] EXCEPT !.toMaster = e].toMaster = e
  BY <1>1 DEF Channel
<1>4. [chs EXCEPT ![t].toAgent.sent = v]
        = [chs EXCEPT ![t] = [chs[t] EXCEPT !.toAgent = [chs[t].toAgent EXCEPT !.sent = v]]]
  OBVIOUS
<1>5. [chs EXCEPT ![t].toAgent.window = v]
        = [chs EXCEPT ![t] = [chs[t] EXCEPT !.toAgent = [chs[t].toAgent EXCEPT !.window = v]]]
  OBVIOUS
<1>6. [chs EXCEPT ![t].toMaster.sent = v]
        = [chs EXCEPT ![t] = [chs[t] EXCEPT !.toMaster = [chs[t].toMaster EXCEPT !.sent = v]]]
  OBVIOUS
<1>7. [chs EXCEPT ![t].toMaster.window = v]
        = [chs EXCEPT ![t] = [chs[t] EXCEPT !.toMaster = [chs[t].toMaster EXCEPT !.window = v]]]
  OBVIOUS
<1> QED BY <1>2, <1>3, <1>4, <1>5, <1>6, <1>7

LEMMA ToMasterParts ==
  ASSUME Sound, NEW s \in Sessions
  PROVE  /\ WindowOf(s) \in Window /\ Given(s) \in Nat
         /\ \A v : /\ [channel[s].toMaster EXCEPT !.sent = v].sent = v
                   /\ [channel[s].toMaster EXCEPT !.sent = v].window = WindowOf(s)
                   /\ [channel[s].toMaster EXCEPT !.window = v].window = v
                   /\ [channel[s].toMaster EXCEPT !.window = v].sent = Given(s)
<1>1. channel[s] \in Channel /\ channel[s].toMaster \in Direction
  BY ChannelParts DEF Sound, TypeOK, Sessions, Channel
<1> QED BY <1>1 DEF WindowOf, Given, Direction

\* What a call's step does to the exchanges: a new one has the call's session.
LEMMA CallsExchange ==
  ASSUME Sound, NEW c \in Calls, ControllerStep(c) \/ AgentRunsRPC(c) \/ LoseRPC(c)
  PROVE  /\ \A d \in Calls \ {c} : exchange'[d] = exchange[d] /\ call'[d] = call[d]
         /\ \/ exchange'[c] = exchange[c] /\ call'[c].session = call[c].session
            \/ exchange'[c].kind \in {"none", "keyexchange"}
            \/ exchange'[c].kind = "sealed" /\ exchange'[c].session = call'[c].session
<1>0. /\ TypeOK /\ call \in [Calls -> Call] /\ call[c] \in Call
      /\ exchange \in [Calls -> Request \cup Answer \cup {NoExchange}]
  BY DEF Sound, TypeOK
<1>1. CASE \/ SendRPC(c) \/ NoRPC(c) \/ AgentRunsRPC(c) \/ LoseRPC(c)
           \/ RouteRPCReply(c) \/ RPCUnavailable(c) \/ NotConnected(c)
  <2>1. exchange' = exchange
    BY <1>1 DEF SendRPC, NoRPC, AgentRunsRPC, LoseRPC, RouteRPCReply, RPCUnavailable, NotConnected
  <2>2. call' = call \/ \E p : call' = [call EXCEPT ![c].pc = p]
    BY <1>1 DEF SendRPC, NoRPC, AgentRunsRPC, LoseRPC, RouteRPCReply, RPCUnavailable, NotConnected
  <2>3. ASSUME NEW p, call' = [call EXCEPT ![c].pc = p]
        PROVE  call'[c].session = call[c].session /\ \A d \in Calls \ {c} : call'[d] = call[d]
    <3>1. call' = [call EXCEPT ![c] = [call[c] EXCEPT !.pc = p]]
      BY <2>3
    <3>2. [call[c] EXCEPT !.pc = p].session = call[c].session
      BY <1>0 DEF Call
    <3> QED BY <1>0, <3>1, <3>2
  <2> QED BY <2>1, <2>2, <2>3
<1>2. CASE NegotiateFirst(c)
  BY <1>0, <1>2 DEF NegotiateFirst, KeyExchange
<1>3. CASE SendSealed(c)
  <2>1. /\ call' = [call EXCEPT ![c] = [call[c] EXCEPT !.pc = "waiting", !.session = pullSession]]
        /\ [call[c] EXCEPT !.pc = "waiting", !.session = pullSession].session = pullSession
    BY <1>0, <1>3 DEF SendSealed, Call
  <2>2. call'[c].session = pullSession /\ \A d \in Calls \ {c} : call'[d] = call[d]
    BY <1>0, <2>1
  <2>3. /\ exchange'[c].kind = "sealed" /\ exchange'[c].session = pullSession
        /\ \A d \in Calls \ {c} : exchange'[d] = exchange[d]
    BY <1>0, <1>3 DEF SendSealed
  <2> QED BY <2>2, <2>3
<1>4. CASE Refused(c) \/ MisreadAnswer(c)
  BY <1>0, <1>4, RenegotiateType, KeyExchangeType DEF Refused, MisreadAnswer
<1>5. CASE Agreed(c) \/ ReadAnswer(c) \/ RequestFails(c)
  <2>1. \A d \in Calls \ {c} : call'[d] = call[d]
    BY <1>0, <1>5, NextCandidateType DEF Agreed, ReadAnswer, RequestFails
  <2>2. exchange' = [exchange EXCEPT ![c] = NoExchange]
    BY <1>5 DEF Agreed, ReadAnswer, RequestFails
  <2> QED BY <1>0, <2>1, <2>2, Kinds
<1> QED BY <1>1, <1>2, <1>3, <1>4, <1>5 DEF ControllerStep

LEMMA SameSessionByCall ==
  ASSUME Sound, \A c \in Calls : SameSession(c),
         NEW c \in Calls, ControllerStep(c) \/ AgentRunsRPC(c) \/ LoseRPC(c)
  PROVE  \A d \in Calls : SameSession(d)'
  BY CallsExchange DEF SameSession, Carrying

LEMMA BecomesExchange ==
  ASSUME Sound, NEW q \in Request, NEW next, Becomes(q, next), NEW c \in Calls
  PROVE  exchange'[c] = exchange[c] \/ (c = q.by /\ exchange[c] = q /\ exchange'[c] = next)
<1>1. q.by \in Calls /\ exchange \in [Calls -> Request \cup Answer \cup {NoExchange}]
  BY Kinds DEF Sound, TypeOK
<1>2. CASE exchange[q.by] = q /\ exchange' = [exchange EXCEPT ![q.by] = next]
  <2>1. CASE c = q.by
    BY <1>1, <1>2, <2>1
  <2>2. CASE c # q.by
    BY <1>1, <1>2, <2>2
  <2> QED BY <2>1, <2>2
<1> QED BY <1>2 DEF Becomes

\* What the agent's step does to the exchanges: only a command without a body
\* changes its session.
LEMMA AgentsExchange ==
  ASSUME Sound, NEW q \in Requested, AgentStep(q), NEW c \in Calls
  PROVE  /\ call' = call
         /\ \/ exchange'[c] = exchange[c]
            \/ exchange'[c].kind \in {"refused", "agreeing", "agreed"}
            \/ /\ exchange'[c].kind \in {"sealing", "answer"} /\ exchange[c].kind \in Carrying
               /\ c \in WithBody => exchange'[c].session = exchange[c].session
<1>0. q \in Request
  BY RequestedType DEF Sound
<1>1. call' = call
  BY DEF AgentStep, AgentKeyExchange, AgentNoSession, AgentDecrypts, AgentRunsBodyless,
     AgentAnswers
<1>2. CASE AgentKeyExchange(q)
  BY <1>0, <1>1, <1>2, BecomesExchange DEF AgentKeyExchange, Run
<1>3. CASE Becomes(q, Refusal)
  BY <1>0, <1>1, <1>3, BecomesExchange, RefusalType
<1>4. CASE Run(q, "sealing", cached) /\ q.kind = "sealed" /\ (q.by \in WithBody => q.session = cached)
  BY <1>0, <1>1, <1>4, BecomesExchange DEF Run, Carrying
<1>5. CASE AgentAnswers(q)
  BY <1>0, <1>1, <1>5, BecomesExchange DEF AgentAnswers, SealWith, Carrying
<1>6. \/ AgentKeyExchange(q) \/ Becomes(q, Refusal) \/ AgentAnswers(q)
      \/ Run(q, "sealing", cached) /\ q.kind = "sealed" /\ (q.by \in WithBody => q.session = cached)
  BY DEF AgentStep, AgentNoSession, AgentDecrypts, AgentRunsBodyless, Refuse
<1> QED BY <1>2, <1>3, <1>4, <1>5, <1>6

LEMMA SameSessionByAgent ==
  ASSUME Sound, \A c \in Calls : SameSession(c), NEW q \in Requested, AgentStep(q)
  PROVE  \A c \in Calls : SameSession(c)'
  BY AgentsExchange DEF SameSession, Carrying

LEMMA OpenByCall ==
  ASSUME Sound, OpenInv, NEW c \in Calls,
         ControllerStep(c) \/ AgentRunsRPC(c) \/ LoseRPC(c), ~ReadAnswer(c), ~MisreadAnswer(c)
  PROVE  OpenInv'
<1>0. TypeOK /\ \A d \in Calls : SameSession(d)'
  BY SameSessionByCall DEF Sound, OpenInv
<1>1. \A d \in Calls : exchange'[d].kind = "answer" => exchange'[d] = exchange[d]
  BY CallsExchange
<1>2. spoiled' = spoiled
  BY DEF ControllerStep, SendRPC, NoRPC, AgentRunsRPC, LoseRPC, RouteRPCReply, RPCUnavailable,
     NotConnected, NegotiateFirst, SendSealed, Agreed, Refused, RequestFails, history
<1>3. /\ Sessions' = Sessions
      /\ \A s \in Sessions : WindowOf(s)' = WindowOf(s) /\ Given(s)' = Given(s)
  <2>1. CASE SendSealed(c) /\ c \in WithBody
    <3>1. pullSession \in 1 .. Len(channel) /\ channel \in Seq(Channel)
      BY <1>0, <2>1 DEF SendSealed, TypeOK, Sessions
    <3>2. PICK n \in Nat : channel' = [channel EXCEPT ![pullSession].toAgent.sent = n]
      <4>1. channel[pullSession].toAgent.sent + 1 \in Nat
        BY <3>1, ChannelParts
      <4> QED BY <2>1, <4>1 DEF SendSealed
    <3>3. Len(channel') = Len(channel)
      BY <3>1, <3>2, SentChanges
    <3>4. \A s \in 1 .. Len(channel) : channel'[s].toMaster = channel[s].toMaster
      BY <3>1, <3>2, ToMaster
    <3> QED BY <3>3, <3>4 DEF WindowOf, Given, Sessions
  <2>2. CASE ~(SendSealed(c) /\ c \in WithBody)
    <3>1. channel' = channel
      BY <2>2 DEF ControllerStep, SendRPC, NoRPC, AgentRunsRPC, LoseRPC, RouteRPCReply,
         RPCUnavailable, NotConnected, NegotiateFirst, SendSealed, Agreed, Refused, RequestFails,
         agent
    <3> QED BY <3>1 DEF WindowOf, Given, Sessions
  <2> QED BY <2>1, <2>2
<1>4. \A s \in Sessions : Given(s) \in Nat
  BY ToMasterParts
<1> QED BY <1>0, <1>1, <1>2, <1>3, <1>4, OpenStays

\* An answer is read: its number is shown, or was of another session.
LEMMA OpenByReading ==
  ASSUME Sound, OpenInv, NEW c \in Calls, ReadAnswer(c) \/ MisreadAnswer(c)
  PROVE  OpenInv'
<1> DEFINE t == call[c].session
           m == exchange[c].seq
<1>0. /\ TypeOK /\ exchange[c].kind = "answer" /\ NoteAnswer(c) /\ Answered(c, {"answer"})
      /\ t \in Sessions /\ channel \in Seq(Channel) /\ exchange[c].session \in Sessions
  BY DEF ReadAnswer, MisreadAnswer, Answered, Sound, TypeOK, SessionsKnown, Carrying
<1>1. m \in Nat
  BY <1>0, Kinds DEF TypeOK
<1>2. /\ exchange'[c].kind # "answer"
      /\ \A d \in Calls \ {c} : exchange'[d] = exchange[d] /\ call'[d] = call[d]
  <2>1. CASE ReadAnswer(c)
    BY <1>0, <2>1, NextCandidateType, Kinds, CallsExchange DEF ReadAnswer, ControllerStep, TypeOK
  <2>2. CASE MisreadAnswer(c)
    BY <1>0, <2>2, RenegotiateType, KeyExchangeType, CallsExchange
    DEF MisreadAnswer, ControllerStep, TypeOK
  <2> QED BY <2>1, <2>2
<1>3. Sessions' = Sessions /\ \A d \in Calls : SameSession(d)'
  BY <1>0, NoteAnswerType, SameSessionByCall DEF ControllerStep, OpenInv
<1>4. \A s \in Sessions :
        /\ Given(s)' = Given(s)
        /\ \/ WindowOf(s)' = WindowOf(s)
           \/ s = t /\ Fresh(WindowOf(t), m) /\ WindowOf(s)' = Noted(WindowOf(t), m)
  <2>1. CASE Fresh(WindowOf(t), m)
    <3>1. channel' = [channel EXCEPT ![t].toMaster.window = Noted(WindowOf(t), m)]
      BY <1>0, <2>1 DEF NoteAnswer, WindowOf
    <3>2. ASSUME NEW s \in Sessions
          PROVE  channel'[s].toMaster = IF s = t
                   THEN [channel[s].toMaster EXCEPT !.window = Noted(WindowOf(t), m)]
                   ELSE channel[s].toMaster
      BY <1>0, <3>1, ToMaster DEF Sessions
    <3>3. ASSUME NEW s \in Sessions
          PROVE  /\ Given(s)' = Given(s)
                 /\ WindowOf(s)' = IF s = t THEN Noted(WindowOf(t), m) ELSE WindowOf(s)
      <4> DEFINE v == Noted(WindowOf(t), m)
      <4>1. /\ [channel[s].toMaster EXCEPT !.window = v].window = v
            /\ [channel[s].toMaster EXCEPT !.window = v].sent = Given(s)
        BY ToMasterParts
      <4>2. channel'[s].toMaster = IF s = t THEN [channel[s].toMaster EXCEPT !.window = v]
                                            ELSE channel[s].toMaster
        BY <3>2
      <4> HIDE DEF v
      <4>3. channel'[s].toMaster.window = IF s = t THEN v ELSE channel[s].toMaster.window
        BY <4>1, <4>2
      <4>4. channel'[s].toMaster.sent = channel[s].toMaster.sent
        BY <4>1, <4>2 DEF Given
      <4> QED BY <4>3, <4>4 DEF v, WindowOf, Given
    <3> QED BY <2>1, <3>3
  <2>2. CASE ~Fresh(WindowOf(t), m)
    BY <1>0, <2>2 DEF NoteAnswer, WindowOf, Given
  <2> QED BY <2>1, <2>2
<1>5. /\ spoiled \subseteq spoiled'
      /\ Fresh(WindowOf(t), m) => <<t, m>> \in spoiled' \/ Answering(c, t)
  BY <1>0 DEF NoteAnswer, WindowOf, Answering
<1>6. ASSUME NEW d \in Calls PROVE Numbered(d)' /\ Apart(d)'
  BY <1>2, <1>3, <1>4 DEF OpenInv, Numbered, Apart, Answering
<1>7. ASSUME NEW s \in Sessions PROVE Shown(s)'
  <2> SUFFICES ASSUME NEW n \in Nat, Holds(WindowOf(s)', n), <<s, n>> \notin spoiled'
               PROVE  n <= Given(s) /\ \A d \in Calls \ {c} : ~(Answering(d, s) /\ exchange[d].seq = n)
    BY <1>2, <1>4 DEF Shown, Answering, Holds
  <2>1. CASE Holds(WindowOf(s), n)
    BY <1>5, <2>1 DEF OpenInv, Shown
  <2>2. CASE ~Holds(WindowOf(s), n)
    <3>1. s = t /\ n = m /\ Fresh(WindowOf(t), m)
      BY <1>0, <1>1, <1>4, <2>2, ToMasterParts, NotedHolds
    <3>2. Answering(c, s)
      BY <1>5, <3>1
    <3>3. n \in 1 .. Given(s)
      BY <3>1, <3>2 DEF OpenInv, Numbered
    <3> QED BY <3>1, <3>2, <3>3, ToMasterParts DEF OpenInv, Apart
  <2> QED BY <2>1, <2>2
<1> QED BY <1>3, <1>6, <1>7 DEF OpenInv


\* An answer is given the session's next number, which no other answer has.
LEMMA OpenByAnswering ==
  ASSUME Sound, OpenInv, NEW q \in Requested, AgentAnswers(q), q.kind = "sealing"
  PROVE  OpenInv'
<1> DEFINE t == q.session
           n == Given(t) + 1
<1>0. /\ TypeOK /\ q \in Request /\ t \in Sessions /\ channel \in Seq(Channel)
      /\ \A s \in Sessions : WindowOf(s) \in Window /\ Given(s) \in Nat
  BY RequestedType, RequestSession, ToMasterParts DEF Sound, TypeOK
<1>1. channel' = [channel EXCEPT ![t].toMaster.sent = n]
  BY DEF AgentAnswers, SealWith, Given
<1>2. Sessions' = Sessions
  <2>1. PICK k \in Nat : channel' = [channel EXCEPT ![t].toMaster.sent = k]
    <3> n \in Nat
      BY <1>0
    <3> QED BY <1>1
  <2> QED BY <1>0, <2>1, SentChanges DEF Sessions
<1>3. ASSUME NEW s \in Sessions
      PROVE  WindowOf(s)' = WindowOf(s) /\ Given(s)' = IF s = t THEN n ELSE Given(s)
  <2>1. channel'[s].toMaster = IF s = t THEN [channel[s].toMaster EXCEPT !.sent = n]
                                        ELSE channel[s].toMaster
    BY <1>0, <1>1, ToMaster DEF Sessions
  <2>2. /\ [channel[s].toMaster EXCEPT !.sent = n].sent = n
        /\ [channel[s].toMaster EXCEPT !.sent = n].window = WindowOf(s)
    BY ToMasterParts
  <2> HIDE DEF n
  <2>3. channel'[s].toMaster.sent = IF s = t THEN n ELSE channel[s].toMaster.sent
    BY <2>1, <2>2
  <2>4. channel'[s].toMaster.window = channel[s].toMaster.window
    BY <2>1, <2>2 DEF WindowOf
  <2> QED BY <2>3, <2>4 DEF WindowOf, Given
<1>4. PICK next : next.session = t /\ next.seq = n /\ Becomes(q, next)
  BY DEF AgentAnswers, SealWith, Given
<1>5. \A c \in Calls : exchange'[c] = exchange[c] \/ (c = q.by /\ exchange'[c] = next)
  BY <1>0, <1>4, BecomesExchange
<1>6. spoiled' = spoiled /\ \A c \in Calls : SameSession(c)'
  BY SameSessionByAgent DEF AgentAnswers, AgentStep, OpenInv
<1> HIDE DEF n
<1>7. n = Given(t) + 1
  BY DEF n
<1>8. ASSUME NEW c \in Calls, NEW s \in Sessions, Answering(c, s)'
      PROVE  \/ exchange'[c] = exchange[c] /\ Answering(c, s) /\ exchange[c].seq \in 1 .. Given(s)
             \/ c = q.by /\ s = t /\ exchange'[c].seq = n
  BY <1>4, <1>5, <1>8 DEF Answering, OpenInv, Numbered
<1>9. ASSUME NEW c \in Calls PROVE Numbered(c)'
  BY <1>0, <1>2, <1>3, <1>7, <1>8 DEF Numbered
<1>10. ASSUME NEW c \in Calls PROVE Apart(c)'
  <2> SUFFICES ASSUME NEW d \in Calls, NEW s \in Sessions, Answering(c, s)', Answering(d, s)',
                      exchange'[c].seq = exchange'[d].seq
               PROVE  c = d
    BY <1>2 DEF Apart
  <2> QED BY <1>0, <1>7, <1>8 DEF OpenInv, Apart
<1>11. ASSUME NEW s \in Sessions PROVE Shown(s)'
  <2> SUFFICES ASSUME NEW k \in Nat, Holds(WindowOf(s), k), <<s, k>> \notin spoiled
               PROVE  k <= Given(s)' /\ \A c \in Calls : ~(Answering(c, s)' /\ exchange'[c].seq = k)
    BY <1>3, <1>6 DEF Shown, Holds
  <2>1. k <= Given(s) /\ \A c \in Calls : ~(Answering(c, s) /\ exchange[c].seq = k)
    BY DEF OpenInv, Shown
  <2> QED BY <1>0, <1>3, <1>7, <1>8, <2>1
<1> QED BY <1>2, <1>6, <1>9, <1>10, <1>11 DEF OpenInv

LEMMA OpenByAgent ==
  ASSUME Sound, Sound', OpenInv, NEW q \in Requested, AgentStep(q)
  PROVE  OpenInv'
<1>0. /\ TypeOK /\ TypeOK' /\ q \in Request /\ channel \in Seq(Channel) /\ Len(channel) \in Nat
      /\ \A c \in Calls : SameSession(c)'
      /\ \A s \in Sessions : Given(s) \in Nat
  BY RequestedType, SameSessionByAgent, ToMasterParts, LenProperties DEF Sound, TypeOK, OpenInv
<1>1. CASE AgentAnswers(q) /\ q.kind = "sealing"
  BY <1>1, OpenByAnswering
<1>2. CASE AgentKeyExchange(q)
  <2>1. /\ Sessions' = Sessions \cup {Len(channel) + 1}
        /\ \A s \in Sessions : channel'[s] = channel[s]
        /\ channel'[Len(channel) + 1] = [toAgent |-> NewDirection, toMaster |-> NewDirection]
    BY <1>0, <1>2, NewChannelType, AppendProperties DEF AgentKeyExchange, Sessions
  <2>2. \A s \in Sessions' \ Sessions : WindowOf(s)'.bits = {}
    BY <2>1 DEF WindowOf, NewDirection, NewWindow
  <2>3. \A c \in Calls : exchange'[c].kind = "answer" => exchange'[c] = exchange[c]
    BY <1>0, <1>2, BecomesExchange DEF AgentKeyExchange, Run
  <2>4. \A s \in Sessions : WindowOf(s)' = WindowOf(s) /\ Given(s)' = Given(s)
    BY <2>1 DEF WindowOf, Given
  <2>5. spoiled' = spoiled /\ Sessions \subseteq Sessions'
    BY <1>2, <2>1 DEF AgentKeyExchange, history
  <2> QED BY <1>0, <2>2, <2>3, <2>4, <2>5, OpenStays
<1>3. CASE ~AgentKeyExchange(q) /\ ~(AgentAnswers(q) /\ q.kind = "sealing")
  <2>1. \A c \in Calls : exchange'[c].kind = "answer" => exchange'[c] = exchange[c]
    <3>1. CASE Becomes(q, Refusal)
      BY <1>0, <3>1, RefusalType, BecomesExchange
    <3>2. CASE Run(q, "sealing", cached)
      BY <1>0, <3>2, BecomesExchange DEF Run
    <3>3. CASE AgentAnswers(q) /\ q.kind # "sealing"
      BY <1>0, <3>3, BecomesExchange DEF AgentAnswers
    <3> QED BY <1>3, <3>1, <3>2, <3>3
            DEF AgentStep, AgentNoSession, AgentDecrypts, AgentRunsBodyless, Refuse
  <2>2. spoiled' = spoiled
    BY <1>3 DEF AgentStep, AgentNoSession, AgentDecrypts, AgentRunsBodyless, AgentAnswers, history
  <2>3. /\ Sessions' = Sessions
        /\ \A s \in Sessions : channel'[s].toMaster = channel[s].toMaster
    <3>1. CASE channel' = channel
      BY <3>1 DEF Sessions
    <3>2. CASE AgentDecrypts(q) /\ channel' # channel
      <4> DEFINE w == channel[cached].toAgent.window
      <4>1. cached \in 1 .. Len(channel) /\ Fresh(w, q.seq) /\ q.seq \in Nat
        BY <1>0, <3>2, Kinds DEF AgentDecrypts, TypeOK, Sessions
      <4>2. w \in Window
        BY <1>0, <4>1, ChannelParts
      <4>3. Noted(w, q.seq) \in Window
        BY <4>1, <4>2, NotedType
      <4>4. PICK v \in Window : channel' = [channel EXCEPT ![cached].toAgent.window = v]
        BY <3>2, <4>1, <4>3 DEF AgentDecrypts
      <4>5. Len(channel') = Len(channel)
        BY <1>0, <4>1, <4>4, WindowChanges
      <4>6. \A s \in 1 .. Len(channel) : channel'[s].toMaster = channel[s].toMaster
        BY <1>0, <4>1, <4>4, ToMaster
      <4> QED BY <4>5, <4>6 DEF Sessions
    <3>3. channel' = channel \/ AgentDecrypts(q)
      BY <1>3 DEF AgentStep, AgentNoSession, AgentRunsBodyless, AgentAnswers, agent
    <3> QED BY <3>1, <3>2, <3>3
  <2>4. \A s \in Sessions : WindowOf(s)' = WindowOf(s) /\ Given(s)' = Given(s)
    BY <2>3 DEF WindowOf, Given
  <2> QED BY <1>0, <2>1, <2>2, <2>3, <2>4, OpenStays
<1> QED BY <1>1, <1>2, <1>3

LEMMA OpenInitially == Init => OpenInv
  BY EmptySeq DEF Init, OpenInv, SameSession, Numbered, Apart, Answering, Carrying, NoExchange, Sessions

LEMMA OpenPreserved == Sound /\ Sound' /\ OpenInv /\ [Next]_vars => OpenInv'
<1> SUFFICES ASSUME Sound, Sound', OpenInv, [Next]_vars PROVE OpenInv'
  OBVIOUS
<1>1. CASE UNCHANGED <<call, exchange, channel, spoiled>>
  BY <1>1 DEF OpenInv, SameSession, Numbered, Apart, Shown, Answering, WindowOf, Given, Holds,
     Sessions
<1>2. ASSUME NEW c \in Calls, ControllerStep(c) \/ AgentRunsRPC(c) \/ LoseRPC(c)
      PROVE  OpenInv'
  BY <1>2, OpenByReading, OpenByCall
<1>3. ASSUME NEW q \in Requested, AgentStep(q) PROVE OpenInv'
  BY <1>3, OpenByAgent
<1>4. CacheExpires \/ UNCHANGED vars => UNCHANGED <<call, exchange, channel, spoiled>>
  BY DEF CacheExpires, vars, agent, history
<1> QED BY <1>1, <1>2, <1>3, <1>4 DEF Next

\* However many calls share the session, and whatever key exchanges come between:
\* the answer to a body is sealed with the caller's session and opens, unless an
\* answer of another session has used its number up or W later ones passed it.
THEOREM BodiesOpen == Spec => []AnswersToBodiesOpen
<1>1. Sound /\ OpenInv => AnswersToBodiesOpen
  <2> SUFFICES ASSUME Sound, OpenInv, NEW c \in WithBody, Answered(c, {"answer"})
               PROVE  /\ exchange[c].session = call[c].session
                      /\ Opens(c) \/ Displaced(call[c].session, exchange[c].seq)
    BY DEF AnswersToBodiesOpen
  <2> DEFINE s == call[c].session
             n == exchange[c].seq
  <2>1. c \in Calls /\ exchange[c].kind = "answer"
    BY CommandAssumption DEF Answered
  <2>2. exchange[c].session = s /\ s \in Sessions /\ Answering(c, s)
    BY <2>1 DEF OpenInv, SameSession, Carrying, Sound, SessionsKnown, Answering
  <2>3. n \in Nat \ {0} /\ WindowOf(s) \in Window
    BY <2>1, <2>2, ToMasterParts DEF OpenInv, Numbered
  <2>4. Holds(WindowOf(s), n) => <<s, n>> \in spoiled
    BY <2>1, <2>2, <2>3 DEF OpenInv, Shown
  <2>5. ~Holds(WindowOf(s), n) => Fresh(WindowOf(s), n) \/ WindowOf(s).max - n >= W
    BY <2>3, NotShown
  <2> QED BY <2>2, <2>4, <2>5 DEF Opens, Displaced, WindowOf
<1> QED BY <1>1, SoundInitially, SoundPreserved, OpenInitially, OpenPreserved, PTL DEF Spec

-----------------------------------------------------------------------------
(***************************************************************************)
(* The safety half of EveryCallEnds.  What the controller still has to do  *)
(* for a call: it counts the addresses left, and at each of them sending,  *)
(* reading an answer, and reading that of a key exchange after it.         *)
(***************************************************************************)

Effort(c) ==
  LET left == 3 * (Candidates - call[c].candidate) IN
  CASE call[c].pc = "start"   -> 3 * Candidates + 2
    [] call[c].pc = "rpc"     -> 3 * Candidates + 1
    [] call[c].pc = "http"    -> left + 3
    [] call[c].pc = "waiting" -> left + (IF call[c].session = NoSession THEN 1 ELSE 2)
    [] OTHER                  -> 0

\* Only a sealed request is refused: a call is not refused twice at an address.
RefusedSealed == \A c \in Calls : exchange[c].kind = "refused" => call[c].session # NoSession

\* No step of anybody gives a call more to do, and each of its own leaves less.
EffortFalls ==
  \A c \in Calls : /\ Effort(c)' <= Effort(c)
                   /\ ControllerStep(c) => Effort(c)' < Effort(c)

LEMMA SessionsAreNone == ASSUME Sound PROVE NoSession \notin Sessions
<1>1. Len(channel) \in Nat
  BY LenProperties DEF Sound, TypeOK
<1> QED BY <1>1 DEF Sessions, NoSession

LEMMA RefusedByAgent ==
  ASSUME Sound, RefusedSealed, NEW q \in Requested, AgentStep(q)
  PROVE  RefusedSealed' /\ call' = call
<1>0. /\ q \in Request /\ call' = call
      /\ \A c \in Calls : exchange[c].kind \in Carrying => call[c].session # NoSession
  BY RequestedType, AgentsExchange, SessionsAreNone DEF Sound, SessionsKnown, AgentStep, AgentKeyExchange,
     AgentNoSession, AgentDecrypts, AgentRunsBodyless, AgentAnswers
<1>1. CASE Becomes(q, Refusal) /\ q.kind = "sealed"
  BY <1>0, <1>1, BecomesExchange, RefusalType DEF RefusedSealed, Carrying
<1>2. CASE Run(q, "agreeing", Len(channel) + 1) \/ Run(q, "sealing", cached)
  BY <1>0, <1>2, BecomesExchange DEF RefusedSealed, Run
<1>3. CASE AgentAnswers(q)
  BY <1>0, <1>3, BecomesExchange DEF RefusedSealed, AgentAnswers
<1> QED BY <1>0, <1>1, <1>2, <1>3
        DEF AgentStep, AgentKeyExchange, AgentNoSession, AgentDecrypts, AgentRunsBodyless, Refuse

LEMMA RefusedPreserved == Sound /\ RefusedSealed /\ [Next]_vars => RefusedSealed'
<1> SUFFICES ASSUME Sound, RefusedSealed, [Next]_vars PROVE RefusedSealed'
  OBVIOUS
<1>1. CASE UNCHANGED <<call, exchange>>
  BY <1>1 DEF RefusedSealed
<1>2. ASSUME NEW c \in Calls, ControllerStep(c) \/ AgentRunsRPC(c) \/ LoseRPC(c)
      PROVE  RefusedSealed'
  BY <1>2, CallsExchange DEF RefusedSealed
<1>3. ASSUME NEW q \in Requested, AgentStep(q) PROVE RefusedSealed'
  BY <1>3, RefusedByAgent
<1>4. CacheExpires \/ UNCHANGED vars => UNCHANGED <<call, exchange>>
  BY DEF CacheExpires, vars, agent, history
<1> QED BY <1>1, <1>2, <1>3, <1>4 DEF Next

LEMMA EffortType ==
  ASSUME TypeOK, NEW c \in Calls
  PROVE  /\ Effort(c) \in 0 .. 3 * Candidates + 2
         /\ Effort(c) = 0 <=> call[c].pc \in {"ok", "failed"}
<1>1. call[c] \in Call /\ call[c].candidate \in 1 .. Candidates
  BY DEF TypeOK, Call
<1>2. call[c].pc \in {"start", "rpc", "http", "waiting", "ok", "failed"}
  BY <1>1 DEF Call
<1> QED BY <1>1, <1>2, Constants DEF Effort

LEMMA EffortAtNext ==
  ASSUME TypeOK, NEW c \in Calls, call[c].pc = "waiting", NextCandidate(c)
  PROVE  Effort(c)' < Effort(c)
<1> DEFINE k == call[c].candidate
<1>1. call \in [Calls -> Call] /\ call[c] \in Call /\ k \in 1 .. Candidates
  BY DEF TypeOK, Call
<1>2. Effort(c) \in {3 * (Candidates - k) + 1, 3 * (Candidates - k) + 2}
  BY <1>1, Constants DEF Effort
<1>3. CASE k < Candidates
  <2>1. call' = [call EXCEPT ![c] = [call[c] EXCEPT !.pc = "http", !.candidate = @ + 1]]
    BY <1>3 DEF NextCandidate
  <2>2. call'[c].pc = "http" /\ call'[c].candidate = k + 1
    BY <1>1, <2>1 DEF Call
  <2>3. Effort(c)' = 3 * (Candidates - (k + 1)) + 3
    BY <2>2 DEF Effort
  <2> QED BY <1>1, <1>2, <2>3, Constants
<1>4. CASE ~(k < Candidates)
  <2>1. call'[c].pc = "failed"
    BY <1>1, <1>4 DEF NextCandidate, Call
  <2>2. Effort(c)' = 0
    BY <2>1 DEF Effort
  <2> QED BY <1>1, <1>2, <2>2, Constants
<1> QED BY <1>3, <1>4

LEMMA EffortByController ==
  ASSUME Sound, RefusedSealed, NEW c \in Calls, ControllerStep(c)
  PROVE  Effort(c)' < Effort(c)
<1> DEFINE k == call[c].candidate
<1>0. /\ TypeOK /\ call \in [Calls -> Call] /\ call[c] \in Call
      /\ k \in 1 .. Candidates /\ Candidates \in Nat
      /\ exchange[c].kind = "answer" => call[c].session # NoSession
  BY Constants, SessionsAreNone DEF Sound, TypeOK, Call, SessionsKnown, Carrying
<1>1. CASE SendRPC(c) \/ NoRPC(c) \/ RPCUnavailable(c) \/ NotConnected(c) \/ RouteRPCReply(c)
  <2>1. PICK p \in {"rpc", "http", "ok", "failed"} :
          /\ call' = [call EXCEPT ![c] = [call[c] EXCEPT !.pc = p]]
          /\ \/ call[c].pc = "start" /\ p \in {"rpc", "http"}
             \/ call[c].pc = "rpc" /\ p # "rpc"
             \/ call[c].pc = "http" /\ p = "failed"
    BY <1>1 DEF SendRPC, NoRPC, RPCUnavailable, NotConnected, RouteRPCReply
  <2>2. call'[c].pc = p /\ call'[c].candidate = k
    BY <1>0, <2>1 DEF Call
  <2> QED BY <1>0, <2>1, <2>2 DEF Effort
<1>2. CASE NegotiateFirst(c) \/ SendSealed(c)
  <2>1. PICK s : call' = [call EXCEPT ![c] = [call[c] EXCEPT !.pc = "waiting", !.session = s]]
    BY <1>2 DEF NegotiateFirst, SendSealed
  <2>2. call'[c].pc = "waiting" /\ call'[c].candidate = k /\ call[c].pc = "http"
    BY <1>0, <1>2, <2>1 DEF Call, NegotiateFirst, SendSealed
  <2> QED BY <1>0, <2>2 DEF Effort
<1>3. CASE (Agreed(c) \/ ReadAnswer(c)) /\ ~NextCandidate(c)
  <2>1. call[c].pc = "waiting" /\ call' = [call EXCEPT ![c] = [call[c] EXCEPT !.pc = "ok"]]
    BY <1>3 DEF Agreed, ReadAnswer, Answered
  <2>2. call'[c].pc = "ok"
    BY <1>0, <2>1 DEF Call
  <2> QED BY <1>0, <2>1, <2>2 DEF Effort
<1>4. CASE (Agreed(c) \/ ReadAnswer(c) \/ RequestFails(c)) /\ NextCandidate(c)
  BY <1>0, <1>4, EffortAtNext DEF Agreed, ReadAnswer, RequestFails, Answered
<1>5. CASE Refused(c) \/ MisreadAnswer(c)
  <2>1. /\ call[c].pc = "waiting" /\ call[c].session # NoSession
        /\ call' = [call EXCEPT ![c] = [call[c] EXCEPT !.session = NoSession]]
    BY <1>0, <1>5 DEF Refused, MisreadAnswer, Answered, Renegotiate, RefusedSealed
  <2>2. call'[c].pc = "waiting" /\ call'[c].candidate = k /\ call'[c].session = NoSession
    BY <1>0, <2>1 DEF Call
  <2> QED BY <1>0, <2>1, <2>2 DEF Effort
<1>6. RequestFails(c) => NextCandidate(c)
  BY DEF RequestFails
<1> QED BY <1>1, <1>2, <1>3, <1>4, <1>5, <1>6 DEF ControllerStep

LEMMA EffortStep == Sound /\ RefusedSealed /\ [Next]_vars => [EffortFalls]_vars
<1> SUFFICES ASSUME Sound, RefusedSealed, [Next]_vars PROVE EffortFalls
  OBVIOUS
<1>0. TypeOK /\ \A c \in Calls : Effort(c) \in Int
  BY EffortType, Constants DEF Sound
<1>1. ASSUME call' = call, NEW c \in Calls PROVE Effort(c)' <= Effort(c)
  BY <1>0, <1>1 DEF Effort
<1>2. ASSUME NEW c \in Calls PROVE Effort(c)' \in Int
  <2>1. call'[c] \in Call /\ call'[c].candidate \in 1 .. Candidates
    BY SoundPreserved DEF Sound, TypeOK, Call
  <2> QED BY <2>1, Constants DEF Effort
<1>3. ASSUME NEW d \in Calls, ControllerStep(d) PROVE \A c \in Calls : Effort(c)' <= Effort(c)
  <2> SUFFICES ASSUME NEW c \in Calls PROVE Effort(c)' <= Effort(c)
    OBVIOUS
  <2>1. CASE c = d
    <3>1. Effort(c)' < Effort(c) /\ Effort(c)' \in Int
      BY <1>2, <1>3, <2>1, EffortByController
    <3> QED BY <1>0, <3>1
  <2>2. CASE c # d
    BY <1>0, <1>3, <2>2, CallsExchange DEF Effort
  <2> QED BY <2>1, <2>2
<1>4. \/ \E d \in Calls : ControllerStep(d)
      \/ call' = call
  BY RefusedByAgent DEF Next, vars, AgentRunsRPC, LoseRPC, CacheExpires
<1> QED BY <1>1, <1>3, <1>4, EffortByController DEF EffortFalls

LEMMA RefusedInitially == Init => RefusedSealed
  BY DEF Init, RefusedSealed, NoExchange

\* Each address of the agent is tried once, with at most one key exchange after a
\* refusal: a call is over after 3 * Candidates + 2 steps of the controller, and
\* nothing the agent, the network or another call does gives it more of them.
THEOREM CallsShrink ==
  Spec => /\ []\A c \in Calls : /\ Effort(c) \in 0 .. 3 * Candidates + 2
                                /\ Effort(c) = 0 <=> call[c].pc \in {"ok", "failed"}
          /\ [][EffortFalls]_vars
<1>1. Sound => \A c \in Calls : /\ Effort(c) \in 0 .. 3 * Candidates + 2
                                /\ Effort(c) = 0 <=> call[c].pc \in {"ok", "failed"}
  BY EffortType DEF Sound
<1> QED BY <1>1, SoundInitially, SoundPreserved, RefusedInitially, RefusedPreserved, EffortStep,
           PTL DEF Spec

NothingSpoiled == WithBody = Calls => spoiled = {}

\* Where every command has a body, no answer uses up a number of another session.
THEOREM BodiesSpoilNothing == Spec => []NothingSpoiled
<1>1. Init => NothingSpoiled
  BY DEF Init, NothingSpoiled
<1>2. Sound /\ OpenInv /\ NothingSpoiled /\ [Next]_vars => NothingSpoiled'
  <2> SUFFICES ASSUME Sound, OpenInv, WithBody = Calls, spoiled = {}, [Next]_vars
               PROVE  spoiled' = {}
    BY DEF NothingSpoiled
  <2>1. ASSUME NEW c \in Calls, ReadAnswer(c) \/ MisreadAnswer(c) PROVE spoiled' = {}
    <3>1. exchange[c].session = call[c].session
      BY <2>1 DEF ReadAnswer, MisreadAnswer, Answered, OpenInv, SameSession, Carrying
    <3> QED BY <2>1, <3>1 DEF ReadAnswer, MisreadAnswer, NoteAnswer
  <2>2. ASSUME NEW c \in Calls, ControllerStep(c), ~ReadAnswer(c), ~MisreadAnswer(c)
        PROVE  spoiled' = spoiled
    BY <2>2 DEF ControllerStep, SendRPC, NoRPC, RouteRPCReply, RPCUnavailable, NotConnected,
       NegotiateFirst, SendSealed, Agreed, Refused, RequestFails, history
  <2>3. ASSUME NEW q \in Requested, AgentStep(q) PROVE spoiled' = spoiled
    <3>1. CASE AgentKeyExchange(q) \/ AgentRunsBodyless(q)
      BY <3>1 DEF AgentKeyExchange, AgentRunsBodyless, history
    <3>2. CASE AgentNoSession(q) \/ AgentDecrypts(q) \/ AgentAnswers(q)
      BY <3>2, Zenon DEF AgentNoSession, AgentDecrypts, AgentAnswers
    <3> QED BY <2>3, <3>1, <3>2 DEF AgentStep
  <2>4. ASSUME NEW c \in Calls, AgentRunsRPC(c) \/ LoseRPC(c) PROVE spoiled' = spoiled
    BY <2>4 DEF AgentRunsRPC, LoseRPC, history
  <2>5. CacheExpires \/ UNCHANGED vars => spoiled' = spoiled
    BY DEF CacheExpires, vars, history
  <2>6. ASSUME NEW c \in Calls, ControllerStep(c) \/ AgentRunsRPC(c) \/ LoseRPC(c)
        PROVE  spoiled' = {}
    BY <2>1, <2>2, <2>4, <2>6
  <2>7. ASSUME spoiled' = spoiled PROVE spoiled' = {}
    BY <2>7
  <2> QED BY <2>3, <2>5, <2>6, <2>7, Zenon DEF Next
<1> QED BY <1>1, <1>2, SoundInitially, SoundPreserved, OpenInitially, OpenPreserved, PTL DEF Spec
=============================================================================
