------------------------ MODULE StreamingCallProofs ------------------------
(* Theorems of StreamingCall, for every value of the constants. *)
EXTENDS StreamingCall, SequenceTheorems, TLAPS

LEMMA Zero == 0 \in Runs /\ 1 \in 1 .. Frames /\ Frames \in Nat /\ Runs \subseteq Nat
  BY StreamAssumption DEF Runs

LEMMA DataTypes ==
  /\ \A r \in Runs, n \in 1 .. Frames :
       Data(r, n) \in DataFrames /\ Data(r, n).kind = "data"
       /\ Data(r, n).run = r /\ Data(r, n).n = n
  /\ \A f \in DataFrames : f.kind = "data" /\ f.n \in 1 .. Frames /\ f.run \in Runs
                             /\ f = Data(f.run, f.n)
  BY DEF DataFrames, Data

LEMMA EndTypes ==
  /\ \A kind \in {"ok", "refused", "timeout"} : End(kind) \in EndFrames /\ End(kind).kind = kind
  /\ \A f \in EndFrames : f.kind \in {"ok", "refused", "timeout"}
  BY DEF EndFrames, End

\* A message's kind tells data from end frames.
LEMMA Kinds ==
  \A m \in Messages : /\ m.kind = "data" <=> m \in DataFrames
                      /\ m.kind # "data" => m \in EndFrames
  BY DataTypes, EndTypes DEF Messages

\* What the sequences of a call keep when their ends move.
LEMMA Queues ==
  ASSUME NEW S, NEW q \in Seq(S), NEW e \in S
  PROVE  /\ Append(q, e) \in Seq(S) /\ Len(Append(q, e)) = Len(q) + 1
         /\ q # <<>> => Head(q) \in S /\ Tail(q) \in Seq(S) /\ Len(Tail(q)) = Len(q) - 1
         /\ <<>> \in Seq(S)
  OBVIOUS

LEMMA OneOrTwo ==
  ASSUME NEW S, NEW a \in S, NEW b \in S
  PROVE  /\ <<a>> \in Seq(S) /\ <<a, b>> \in Seq(S)
         /\ Len(<<a>>) = 1 /\ Len(<<a, b>>) = 2
         /\ <<a>>[1] = a /\ <<a, b>>[1] = a /\ <<a, b>>[2] = b
  OBVIOUS

LEMMA TransmitType ==
  ASSUME NEW frames \in Seq(Messages), wire \in Seq(Messages), Transmit(frames)
  PROVE  wire' \in Seq(Messages)
  BY ConcatProperties DEF Transmit

-----------------------------------------------------------------------------
(* Types. *)

LEMMA TypeInitially == Init => TypeOK
  BY Zero, StreamAssumption DEF Init, TypeOK, Run, NoRun

LEMMA TypeOfCaller == ASSUME TypeOK, Caller PROVE TypeOK'
<1> USE DEF TypeOK
<1>1. CASE Unavailable
  BY <1>1 DEF Unavailable, front, socket, agent, http
<1>2. CASE SendCall
  BY <1>2 DEF SendCall, front, agent, http
<1>3. CASE Deadline
  BY <1>3 DEF Deadline, GivesUp, Returns, front, socket, agent, http
<1>4. CASE CtxDone
  BY <1>4 DEF CtxDone, GivesUp, Returns, front, socket, agent, http
<1>5. CASE TakeData
  <2>1. Head(channel) \in DataFrames /\ Tail(channel) \in Seq(Messages)
        /\ Len(Tail(channel)) = Len(channel) - 1
    BY <1>5, Kinds, Queues DEF TakeData
  <2>2. out' \in Seq(DataFrames) /\ channel' \in Seq(Messages) /\ Len(channel') <= Buffer
    BY <1>5, <2>1, StreamAssumption, Queues DEF TakeData
  <2> QED BY <1>5, <2>2 DEF TakeData, socket, agent, http
<1>6. CASE WriteFails
  BY <1>6 DEF WriteFails, Returns, front, socket, agent, http
<1>7. CASE TakeEnd
  BY <1>7 DEF TakeEnd, Returns, EndResult, front, socket, agent, http
<1> QED BY <1>1, <1>2, <1>3, <1>4, <1>5, <1>6, <1>7 DEF Caller

LEMMA TypeOfSocket == ASSUME TypeOK, Socket PROVE TypeOK'
<1> USE DEF TypeOK
<1>1. CASE RouteFrame
  <2>1. Head(wire) \in Messages /\ wire' \in Seq(Messages)
    BY <1>1, Queues DEF RouteFrame
  <2>2. channel' \in Seq(Messages) /\ Len(channel') <= Buffer
    <3>1. Append(channel, Head(wire)) \in Seq(Messages)
          /\ Len(Append(channel, Head(wire))) = Len(channel) + 1
      BY <2>1, Queues
    <3>2. Len(channel) \in Nat /\ Buffer \in Nat
      BY StreamAssumption, LenProperties
    <3>3. CASE pending /\ Len(channel) < Buffer
      <4>1. channel' = Append(channel, Head(wire))
        BY <1>1, <3>3 DEF RouteFrame
      <4>2. Len(channel) + 1 <= Buffer /\ Len(channel) \in Nat
        BY <3>2, <3>3
      <4> QED BY <3>1, <4>1, <4>2
    <3>4. CASE ~(pending /\ Len(channel) < Buffer)
      BY <1>1, <3>4 DEF RouteFrame
    <3> QED BY <3>3, <3>4
  <2> QED BY <1>1, <2>1, <2>2 DEF RouteFrame, front, agent, http
<1>2. CASE LinkBreaks
  <2> <<>> \in Seq(Messages)
    OBVIOUS
  <2> QED BY <1>2 DEF LinkBreaks, caller, front, agent, http
<1>3. CASE LoseCall
  BY <1>3 DEF LoseCall, caller, front, agent, http
<1> QED BY <1>1, <1>2, <1>3 DEF Socket

LEMMA TypeOfAgent == ASSUME TypeOK, Agent PROVE TypeOK'
<1> USE DEF TypeOK
<1>1. CASE ReceiveCall
  BY <1>1, Zero DEF ReceiveCall, Starts, Run, caller, front, http
<1>2. CASE ReplyDone
  <2>1. Data(0, 1) \in Messages /\ End("ok") \in Messages /\ End("refused") \in Messages
    BY DataTypes, EndTypes, Zero DEF Messages
  <2>2. wire' \in Seq(Messages)
    BY <1>2, <2>1, OneOrTwo, TransmitType DEF ReplyDone
  <2> QED BY <1>2, <2>2 DEF ReplyDone, caller, front, http
<1>3. CASE ReplyTimeout
  <2>1. wire' \in Seq(Messages)
    <3> End("timeout") \in Messages
      BY EndTypes DEF Messages
    <3> QED BY <1>3, OneOrTwo, TransmitType DEF ReplyTimeout
  <2> QED BY <1>3, <2>1 DEF ReplyTimeout, caller, front, http
<1>4. CASE AgentDies
  BY <1>4 DEF AgentDies, Run, caller, front, http
<1>5. ASSUME NEW r \in Runs, Flush(r)
      PROVE  TypeOK'
  <2>1. run[r].flushed + 1 \in 1 .. Frames /\ run' \in [Runs -> Run]
    BY <1>5, StreamAssumption DEF Flush, Run
  <2>2. wire' \in Seq(Messages)
    <3> Data(0, run[0].flushed + 1) \in Messages \/ r # 0
      BY <1>5, <2>1, DataTypes, Zero DEF Messages
    <3> QED BY <1>5, OneOrTwo, TransmitType DEF Flush
  <2> QED BY <1>5, <2>1, <2>2 DEF Flush, caller, front, http
<1>6. ASSUME NEW r \in Runs, Finish(r)
      PROVE  TypeOK'
  BY <1>6 DEF Finish, Run, caller, front, socket, http
<1>7. ASSUME NEW r \in Runs, HttpArrives(r)
      PROVE  TypeOK'
  BY <1>7, Zero DEF HttpArrives, Starts, Run, caller, front, socket, http
<1> QED BY <1>1, <1>2, <1>3, <1>4, <1>5, <1>6, <1>7 DEF Agent

LEMMA TypeOfHttp == ASSUME TypeOK, Http \/ GoAway PROVE TypeOK'
<1> USE DEF TypeOK
<1>1. CASE HttpSend
  BY <1>1, StreamAssumption DEF HttpSend, Runs, front, socket, agent
<1>2. CASE HttpFails
  BY <1>2, StreamAssumption DEF HttpFails, NextCandidate, front, socket, agent
<1>3. CASE HttpRefused
  BY <1>3, StreamAssumption DEF HttpRefused, NextCandidate, front, socket, agent
<1>4. CASE HttpHeader
  BY <1>4 DEF HttpHeader, front, socket, agent, http
<1>5. CASE HttpReads
  <2>1. Len(out) + 1 \in 1 .. Frames
    BY <1>5, StreamAssumption DEF HttpReads, Run
  <2>2. out' \in Seq(DataFrames)
    BY <1>5, <2>1, DataTypes DEF HttpReads
  <2> QED BY <1>5, <2>2 DEF HttpReads, caller, socket, agent, http
<1>6. CASE HttpEnds
  BY <1>6 DEF HttpEnds, front, socket, agent, http
<1>7. CASE GoAway
  BY <1>7 DEF GoAway, caller, socket, agent, http
<1> QED BY <1>1, <1>2, <1>3, <1>4, <1>5, <1>6, <1>7 DEF Http

LEMMA TypePreserved == TypeOK /\ [Next]_vars => TypeOK'
<1> SUFFICES ASSUME TypeOK, [Next]_vars PROVE TypeOK'
  OBVIOUS
<1>1. CASE UNCHANGED vars
  BY <1>1 DEF vars, TypeOK, caller, front, socket, agent, http
<1> QED BY <1>1, TypeOfCaller, TypeOfSocket, TypeOfAgent, TypeOfHttp DEF Next

\* Every variable keeps its type; the channel never holds more than its capacity.
THEOREM StreamTypeCorrect == Spec => []TypeOK
  BY TypeInitially, TypePreserved, PTL DEF Spec

-----------------------------------------------------------------------------
(* The frames of a call, from those written to the front end to those still   *)
(* on the WebSocket, are one sequence: taking and routing a frame only move   *)
(* its parts' borders.                                                        *)

View == (out \o channel) \o wire

\* Frames come from the call's execution, in its order.
InOrder(v) ==
  /\ \A i \in 1 .. Len(v) : v[i].kind = "data" =>
       /\ v[i].run = 0
       /\ \/ v[i].n <= run[0].flushed
          \/ run[0].state = "refused" /\ replied /\ v[i].n = 1
  /\ \A i, j \in 1 .. Len(v) :
       i < j /\ v[i].kind = "data" /\ v[j].kind = "data" => v[i].n < v[j].n

\* If none was dropped, all of them are there up to the end frame.
Whole(v) ==
  /\ ~replied => /\ link => Len(v) = run[0].flushed
                 /\ \A g \in 1 .. Len(v) : v[g] = Data(0, g)
  /\ \A g \in 1 .. Len(v) : v[g].kind = "ok" =>
       /\ g = run[0].flushed + 1 /\ run[0].state = "finished"
       /\ \A h \in 1 .. run[0].flushed : v[h] = Data(0, h)
  /\ \A g \in 1 .. Len(v) : v[g].kind = "refused" => run[0].state = "refused"

InFlight == pc = "rpc" => InOrder(View) /\ (~dropped => Whole(View))

\* Where the call stands.
Phases ==
  /\ pc = "start" => /\ out = <<>> /\ channel = <<>> /\ wire = <<>>
                     /\ call = "none" /\ run[0] = NoRun /\ ~replied
  /\ pc = "rpc" <=> pending
  /\ pc \in {"http", "waiting"} => out = <<>>
  /\ pc = "reading" => \A i \in 1 .. Len(out) : out[i] = Data(httpRun, i)
  /\ result # "none" => pc = "done"

\* Where the execution over the WebSocket stands.
Execution ==
  /\ call = "sent" => run[0].state = "none"
  /\ run[0].state = "none" => ~replied
  /\ run[0].state \in {"none", "refused"} => run[0].flushed = 0

StreamInv ==
  TypeOK /\ Phases /\ Execution /\ InFlight /\ OutFromOneRun /\ OkIsWhole

\* The first of a part becomes the last of the part before it.
LEMMA PartMoves ==
  ASSUME NEW S, NEW a \in Seq(S), NEW b \in Seq(S), b # <<>>
  PROVE  Append(a, Head(b)) \o Tail(b) = a \o b
<1>1. Head(b) \in S /\ Tail(b) \in Seq(S) /\ <<Head(b)>> \in Seq(S)
  BY HeadTailProperties
<1>2. <<Head(b)>> \o Tail(b) = b
  BY <1>1
<1>3. Append(a, Head(b)) = a \o <<Head(b)>>
  BY <1>1, AppendIsConcat
<1>4. (a \o <<Head(b)>>) \o Tail(b) = a \o (<<Head(b)>> \o Tail(b))
  BY <1>1, ConcatAssociative
<1> QED BY <1>2, <1>3, <1>4

LEMMA Associative ==
  \A a, b, c \in Seq(Messages) : (a \o b) \o c = a \o (b \o c)
  BY ConcatAssociative

LEMMA ViewType ==
  ASSUME TypeOK
  PROVE  /\ out \in Seq(Messages) /\ channel \in Seq(Messages) /\ wire \in Seq(Messages)
         /\ out \o channel \in Seq(Messages) /\ channel \o wire \in Seq(Messages)
         /\ View \in Seq(Messages) /\ View = out \o (channel \o wire)
         /\ \A i \in 1 .. Len(View) : View[i] \in Messages
<1>1. out \in Seq(Messages) /\ channel \in Seq(Messages) /\ wire \in Seq(Messages)
  BY SeqMonotonic DEF TypeOK, Messages
<1>2. out \o channel \in Seq(Messages) /\ channel \o wire \in Seq(Messages)
  BY <1>1, ConcatProperties
<1>3. View \in Seq(Messages) /\ View = out \o (channel \o wire)
  BY <1>1, <1>2, ConcatProperties, ConcatAssociative DEF View
<1> QED BY <1>1, <1>2, <1>3, ElementOfSeq

\* Taking a frame and routing one into the channel leave the view as it is.
LEMMA ViewMoves ==
  ASSUME TypeOK
  PROVE  /\ /\ channel # <<>> /\ out' = Append(out, Head(channel))
            /\ channel' = Tail(channel) /\ wire' = wire
            => View' = View
         /\ /\ wire # <<>> /\ channel' = Append(channel, Head(wire))
            /\ wire' = Tail(wire) /\ out' = out
            => View' = View
<1>1. ASSUME channel # <<>>, out' = Append(out, Head(channel)),
             channel' = Tail(channel), wire' = wire
      PROVE  View' = View
  <2>1. out' \o channel' = out \o channel
    BY <1>1, ViewType, PartMoves
  <2> QED BY <2>1, <1>1 DEF View
<1>2. ASSUME wire # <<>>, channel' = Append(channel, Head(wire)),
             wire' = Tail(wire), out' = out
      PROVE  View' = View
  <2>1. channel' \in Seq(Messages) /\ wire' \in Seq(Messages)
    BY <1>2, ViewType, HeadTailProperties, AppendProperties
  <2>2. channel' \o wire' = channel \o wire
    BY <1>2, ViewType, PartMoves
  <2>3. View' = out' \o (channel' \o wire')
    <3>1. (out \o channel') \o wire' = out \o (channel' \o wire')
      BY <2>1, ViewType, Associative
    <3> QED BY <3>1, <1>2 DEF View
  <2> QED BY <2>2, <2>3, <1>2, ViewType
<1> QED BY <1>1, <1>2

\* What has been written is the view's beginning, and the channel's first frame
\* follows it.
LEMMA ViewOut ==
  ASSUME TypeOK
  PROVE  /\ Len(out) \in Nat /\ Len(View) \in Nat /\ Len(out) <= Len(View)
         /\ \A i \in 1 .. Len(out) : View[i] = out[i]
         /\ channel # <<>> => /\ Len(out) + 1 <= Len(View)
                              /\ View[Len(out) + 1] = Head(channel)
<1> DEFINE rest == channel \o wire
<1>1. /\ View = out \o rest /\ out \in Seq(Messages) /\ rest \in Seq(Messages)
      /\ Len(out) \in Nat /\ Len(rest) \in Nat
  BY ViewType, LenProperties
<1>2. /\ Len(View) = Len(out) + Len(rest)
      /\ \A i \in 1 .. Len(out) + Len(rest) :
           View[i] = IF i <= Len(out) THEN out[i] ELSE rest[i - Len(out)]
  <2> HIDE DEF rest
  <2> QED BY <1>1, ConcatProperties
<1>3. ASSUME channel # <<>> PROVE Len(rest) >= 1 /\ rest[1] = Head(channel)
  <2>1. Len(channel) \in Nat \ {0} /\ Len(wire) \in Nat /\ Head(channel) = channel[1]
    BY <1>3, ViewType, EmptySeq, LenProperties
  <2>2. /\ Len(rest) = Len(channel) + Len(wire)
        /\ rest[1] = channel[1]
    BY <2>1, ViewType, ConcatProperties
  <2> QED BY <2>1, <2>2
<1> HIDE DEF rest
<1>4. channel # <<>> => 1 + Len(out) <= Len(View) /\ View[Len(out) + 1] = rest[1]
  BY <1>1, <1>2, <1>3
<1> QED BY <1>1, <1>2, <1>3, <1>4


\* What the agent sends follows what is there; a connection's end cuts the
\* view's end off; a frame that is dropped is missing from it.
LEMMA ViewGrows ==
  ASSUME TypeOK, NEW frames \in Seq(Messages), Transmit(frames), out' = out, channel' = channel
  PROVE  /\ ~link => View' = View
         /\ link => /\ Len(View') = Len(View) + Len(frames)
                    /\ \A i \in 1 .. Len(View) : View'[i] = View[i]
                    /\ \A i \in 1 .. Len(frames) : View'[Len(View) + i] = frames[i]
<1>1. ~link => View' = View
  BY DEF Transmit, View
<1>2. ASSUME link PROVE View' = View \o frames
  <2>1. View' = (out \o channel) \o (wire \o frames)
    BY <1>2 DEF Transmit, View
  <2>2. ((out \o channel) \o wire) \o frames = (out \o channel) \o (wire \o frames)
    <3>1. out \o channel \in Seq(Messages) /\ wire \in Seq(Messages)
      BY ViewType
    <3> QED BY <3>1, Associative
  <2> QED BY <2>1, <2>2 DEF View
<1>3. /\ Len(View \o frames) = Len(View) + Len(frames)
      /\ Len(View) \in Nat /\ Len(frames) \in Nat
      /\ \A i \in 1 .. Len(View) + Len(frames) :
           (View \o frames)[i] = IF i <= Len(View) THEN View[i] ELSE frames[i - Len(View)]
  BY ViewType, ConcatProperties, LenProperties
<1> HIDE DEF View
<1>4. /\ \A i \in 1 .. Len(View) : (View \o frames)[i] = View[i]
      /\ \A i \in 1 .. Len(frames) : (View \o frames)[Len(View) + i] = frames[i]
  BY <1>3
<1> QED BY <1>1, <1>2, <1>3, <1>4

LEMMA ViewGrowsByOne ==
  ASSUME TypeOK, NEW m \in Messages, Transmit(<<m>>), out' = out, channel' = channel
  PROVE  /\ ~link => View' = View
         /\ link => /\ Len(View') = Len(View) + 1
                    /\ \A i \in 1 .. Len(View) : View'[i] = View[i]
                    /\ View'[Len(View) + 1] = m
<1>1. <<m>> \in Seq(Messages) /\ Len(<<m>>) = 1 /\ <<m>>[1] = m
  BY OneOrTwo
<1>2. PICK frames : frames = <<m>>
  OBVIOUS
<1>3. /\ frames \in Seq(Messages) /\ Len(frames) = 1 /\ frames[1] = m /\ Transmit(frames)
  BY <1>1, <1>2
<1>4. /\ ~link => View' = View
      /\ link => /\ Len(View') = Len(View) + Len(frames)
                 /\ \A i \in 1 .. Len(View) : View'[i] = View[i]
                 /\ \A i \in 1 .. Len(frames) : View'[Len(View) + i] = frames[i]
  BY <1>3, ViewGrows
<1> QED BY <1>3, <1>4

LEMMA ViewGrowsByTwo ==
  ASSUME TypeOK, NEW m \in Messages, NEW e \in Messages, Transmit(<<m, e>>),
         out' = out, channel' = channel
  PROVE  /\ ~link => View' = View
         /\ link => /\ Len(View') = Len(View) + 2
                    /\ \A i \in 1 .. Len(View) : View'[i] = View[i]
                    /\ View'[Len(View) + 1] = m /\ View'[Len(View) + 2] = e
<1>1. <<m, e>> \in Seq(Messages) /\ Len(<<m, e>>) = 2 /\ <<m, e>>[1] = m /\ <<m, e>>[2] = e
  BY OneOrTwo
<1>2. PICK frames : frames = <<m, e>>
  OBVIOUS
<1>3. /\ frames \in Seq(Messages) /\ Len(frames) = 2 /\ frames[1] = m /\ frames[2] = e
      /\ Transmit(frames)
  BY <1>1, <1>2
<1>4. /\ ~link => View' = View
      /\ link => /\ Len(View') = Len(View) + Len(frames)
                 /\ \A i \in 1 .. Len(View) : View'[i] = View[i]
                 /\ \A i \in 1 .. Len(frames) : View'[Len(View) + i] = frames[i]
  BY <1>3, ViewGrows
<1> QED BY <1>3, <1>4

LEMMA ViewCut ==
  ASSUME TypeOK, out' = out, channel' = channel, wire' = <<>>
  PROVE  /\ Len(View') <= Len(View) /\ Len(View') \in Nat /\ Len(View) \in Nat
         /\ \A i \in 1 .. Len(View') : View'[i] = View[i]
<1> DEFINE kept == out \o channel
<1>1. View' = kept
  BY ViewType, ConcatEmptySeq DEF View
<1>2. /\ kept \in Seq(Messages) /\ wire \in Seq(Messages) /\ View = kept \o wire
      /\ Len(kept) \in Nat /\ Len(wire) \in Nat
  BY ViewType, LenProperties DEF View
<1> HIDE DEF kept
<1>3. /\ Len(View) = Len(kept) + Len(wire)
      /\ \A i \in 1 .. Len(kept) : View[i] = kept[i]
  BY <1>2, ConcatProperties
<1> QED BY <1>1, <1>2, <1>3

LEMMA ViewDrops ==
  ASSUME TypeOK, out' = out, channel' = channel, wire # <<>>, wire' = Tail(wire)
  PROVE  \E k \in Nat :
           /\ Len(View') = Len(View) - 1 /\ Len(View) \in Nat
           /\ \A i \in 1 .. Len(View') : View'[i] = View[IF i <= k THEN i ELSE i + 1]
<1> DEFINE kept == out \o channel
           rest == Tail(wire)
<1>1. /\ kept \in Seq(Messages) /\ wire \in Seq(Messages) /\ View = kept \o wire
      /\ Len(kept) \in Nat /\ Len(wire) \in Nat \ {0} /\ View' = kept \o rest
      /\ rest \in Seq(Messages) /\ Len(rest) = Len(wire) - 1
      /\ \A i \in 1 .. Len(rest) : rest[i] = wire[i + 1]
  BY ViewType, LenProperties, EmptySeq, HeadTailProperties DEF View
<1> HIDE DEF kept, rest
<1>2. /\ Len(View) = Len(kept) + Len(wire)
      /\ \A i \in 1 .. Len(kept) + Len(wire) :
           View[i] = IF i <= Len(kept) THEN kept[i] ELSE wire[i - Len(kept)]
  BY <1>1, ConcatProperties
<1>3. /\ Len(View') = Len(kept) + Len(rest)
      /\ \A i \in 1 .. Len(kept) + Len(rest) :
           View'[i] = IF i <= Len(kept) THEN kept[i] ELSE rest[i - Len(kept)]
  BY <1>1, ConcatProperties
<1>4. ASSUME NEW i \in 1 .. Len(View')
      PROVE  View'[i] = View[IF i <= Len(kept) THEN i ELSE i + 1]
  <2>1. CASE i <= Len(kept)
    BY <2>1, <1>1, <1>2, <1>3
  <2>2. CASE i > Len(kept)
    <3>1. i - Len(kept) \in 1 .. Len(rest) /\ i + 1 \in 1 .. Len(View)
      BY <2>2, <1>1, <1>2, <1>3
    <3>2. View'[i] = wire[i - Len(kept) + 1]
      <4>1. View'[i] = rest[i - Len(kept)]
        <5>1. i \in 1 .. Len(kept) + Len(rest) /\ ~(i <= Len(kept))
          BY <2>2, <1>1, <1>3
        <5> QED BY <5>1, <1>3
      <4>2. rest[i - Len(kept)] = wire[i - Len(kept) + 1]
        BY <3>1, <1>1
      <4> QED BY <4>1, <4>2
    <3>3. View[i + 1] = wire[i + 1 - Len(kept)]
      <4>1. i + 1 \in 1 .. Len(kept) + Len(wire) /\ ~(i + 1 <= Len(kept))
        BY <2>2, <3>1, <1>1, <1>2
      <4> QED BY <4>1, <1>2
    <3>4. View'[i] = View[i + 1]
      BY <3>1, <3>2, <3>3, <1>1
    <3> QED BY <2>2, <3>4, <1>1
  <2> QED BY <2>1, <2>2, <1>1
<1>5. Len(View') = Len(View) - 1 /\ Len(View) \in Nat /\ Len(kept) \in Nat
  BY <1>1, <1>2, <1>3
<1> WITNESS Len(kept) \in Nat
<1> QED BY <1>4, <1>5
-----------------------------------------------------------------------------
(* Where the call and its execution stand. *)

LEMMA ExecutionStep ==
  ASSUME TypeOK, Phases, Execution, Next
  PROVE  Execution'
<1>0. /\ 0 \in Runs /\ 0 # Frames /\ run \in [Runs -> Run]
      /\ run[0] \in Run /\ Runs \subseteq Nat
  BY Zero, StreamAssumption DEF TypeOK
<1>1. CASE Caller
  BY <1>1 DEF Caller, Unavailable, SendCall, Deadline, CtxDone, TakeData, WriteFails,
     TakeEnd, socket, agent, Phases, Execution, NoRun
<1>2. CASE Socket
  BY <1>2 DEF Socket, RouteFrame, LinkBreaks, LoseCall, agent, Execution
<1>3. CASE ReceiveCall
  BY <1>3, <1>0 DEF ReceiveCall, Starts, Execution
<1>4. CASE ReplyDone \/ ReplyTimeout
  BY <1>4 DEF ReplyDone, ReplyTimeout, Execution
<1>5. CASE AgentDies
  <2>1. /\ run'[0].state # "dead" => run'[0] = run[0]
        /\ run'[0].state = "dead" => run[0].state \in {"working", "dead"}
    BY <1>5, <1>0 DEF AgentDies, Run
  <2> QED BY <1>5, <2>1 DEF AgentDies, Execution
<1>6. ASSUME NEW r \in Runs, Flush(r) \/ Finish(r) \/ HttpArrives(r)
      PROVE  Execution'
  <2>1. CASE r # 0
    <3>1. run'[0] = run[0]
      BY <2>1, <1>6, <1>0 DEF Flush, Finish, HttpArrives, Starts
    <3> QED BY <3>1, <1>6 DEF Flush, Finish, HttpArrives, socket, Execution
  <2>2. CASE r = 0 /\ Flush(0)
    BY <2>2, <1>0 DEF Flush, Execution, Run
  <2>3. CASE r = 0 /\ Finish(0)
    BY <2>3, <1>0 DEF Finish, Execution, Run, socket
  <2> QED BY <1>6, <2>1, <2>2, <2>3 DEF HttpArrives
<1>7. CASE Http \/ GoAway
  BY <1>7 DEF Http, HttpSend, HttpFails, HttpRefused, HttpHeader, HttpReads, HttpEnds,
     GoAway, socket, agent, Execution
<1> QED BY <1>1, <1>2, <1>3, <1>4, <1>5, <1>6, <1>7 DEF Next, Agent

LEMMA PhasesStep ==
  ASSUME TypeOK, Phases, Execution, Next
  PROVE  Phases'
<1>0. /\ 0 \in Runs /\ run \in [Runs -> Run]
  BY Zero DEF TypeOK
<1>1. CASE Unavailable \/ SendCall \/ Deadline \/ CtxDone
  BY <1>1 DEF Unavailable, SendCall, Deadline, CtxDone, GivesUp, Returns, front, Phases
<1>2. CASE TakeData \/ WriteFails \/ TakeEnd
  BY <1>2 DEF TakeData, WriteFails, TakeEnd, Returns, front, Phases
<1>3. CASE Socket
  BY <1>3 DEF Socket, RouteFrame, LinkBreaks, LoseCall, caller, front, agent, http, Phases
<1>4. CASE ReceiveCall \/ ReplyDone \/ ReplyTimeout
  BY <1>4 DEF ReceiveCall, ReplyDone, ReplyTimeout, caller, front, http, Phases, NoRun
<1>5. CASE AgentDies
  BY <1>5, <1>0 DEF AgentDies, caller, front, http, Phases, NoRun
<1>6. ASSUME NEW r \in Runs, Flush(r)
      PROVE  Phases'
  BY <1>6, <1>0 DEF Flush, caller, front, http, Phases, NoRun
<1>7. ASSUME NEW r \in Runs, Finish(r)
      PROVE  Phases'
  BY <1>7, <1>0 DEF Finish, caller, front, socket, http, Phases, NoRun
<1>8. ASSUME NEW r \in Runs, HttpArrives(r)
      PROVE  Phases'
  BY <1>8, <1>0 DEF HttpArrives, Starts, caller, front, socket, http, Phases, NoRun
<1>9. CASE HttpSend \/ HttpFails \/ HttpRefused \/ HttpHeader \/ HttpEnds \/ GoAway
  BY <1>9 DEF HttpSend, HttpFails, HttpRefused, NextCandidate, HttpHeader, HttpEnds, GoAway,
     caller, front, socket, agent, http, Phases
<1>10. CASE HttpReads
  <2>1. /\ out \in Seq(DataFrames) /\ Len(out) \in Nat
        /\ Len(out') = Len(out) + 1
        /\ \A i \in 1 .. Len(out) : out'[i] = out[i]
        /\ out'[Len(out) + 1] = Data(httpRun, Len(out) + 1)
    BY <1>10 DEF HttpReads, TypeOK
  <2>2. \A i \in 1 .. Len(out') : out'[i] = Data(httpRun, i)
    BY <1>10, <2>1 DEF HttpReads, Phases
  <2> QED BY <1>10, <2>2 DEF HttpReads, caller, http, Phases
<1> QED BY <1>1, <1>2, <1>3, <1>4, <1>5, <1>6, <1>7, <1>8, <1>9, <1>10
        DEF Next, Caller, Agent, Http
-----------------------------------------------------------------------------
(* The frames in flight. *)

\* A step that leaves the execution and the view alone.
LEMMA FlightKept ==
  ASSUME InFlight, View' = View, run'[0] = run[0], replied' = replied, link' => link,
         dropped => dropped', pc' = "rpc" => pc = "rpc"
  PROVE  InFlight'
  BY DEF InFlight, InOrder, Whole

\* A step that only moves the execution on: it does not leave a final state.
LEMMA FlightMovesOn ==
  ASSUME TypeOK, TypeOK', InFlight, View' = View, replied' = replied, link' => link,
         dropped' = dropped, pc' = pc, run'[0].flushed = run[0].flushed,
         run[0].state \in {"refused", "finished"} => run'[0].state = run[0].state
  PROVE  InFlight'
  BY DEF InFlight, InOrder, Whole

LEMMA FlightStarts ==
  ASSUME TypeOK, Phases, SendCall
  PROVE  InFlight'
<1>1. View' = <<>> \o <<>> /\ <<>> \o <<>> = <<>> /\ Len(<<>>) = 0
  BY DEF SendCall, Phases, View, front
<1>2. Len(View') = 0 /\ run'[0].flushed = 0
  BY <1>1 DEF SendCall, Phases, agent, NoRun
<1> QED BY <1>2 DEF InFlight, InOrder, Whole

LEMMA FlightRouted ==
  ASSUME TypeOK, Phases, InFlight, RouteFrame
  PROVE  InFlight'
<1>1. CASE pending /\ Len(channel) < Buffer
  <2>1. View' = View
    BY <1>1, ViewMoves DEF RouteFrame, front
  <2> QED BY <1>1, <2>1, FlightKept DEF RouteFrame, agent
<1>2. CASE ~pending
  BY <1>2 DEF RouteFrame, Phases, InFlight
<1>3. CASE pending /\ ~(Len(channel) < Buffer)
  <2>1. dropped' /\ run' = run /\ replied' = replied /\ pc' = pc
    BY <1>3 DEF RouteFrame, agent
  <2>2. PICK k \in Nat :
          /\ Len(View') = Len(View) - 1 /\ Len(View) \in Nat
          /\ \A i \in 1 .. Len(View') : View'[i] = View[IF i <= k THEN i ELSE i + 1]
    BY <1>3, ViewDrops DEF RouteFrame, front
  <2>3. CASE pc # "rpc"
    BY <2>1, <2>3 DEF InFlight
  <2>4. CASE pc = "rpc"
    <3> DEFINE old(i) == IF i <= k THEN i ELSE i + 1
    <3>1. \A i \in 1 .. Len(View') : old(i) \in 1 .. Len(View)
      BY <2>2
    <3>2. \A i, j \in 1 .. Len(View') : i < j => old(i) < old(j)
      BY <2>2
    <3>3. \A i \in 1 .. Len(View') : View'[i] = View[old(i)]
      BY <2>2
    <3>4. InOrder(View)
      BY <2>4 DEF InFlight
    <3> HIDE DEF old
    <3>5. InOrder(View)'
      BY <2>1, <3>1, <3>2, <3>3, <3>4 DEF InOrder
    <3> QED BY <2>1, <3>5 DEF InFlight
  <2> QED BY <2>3, <2>4
<1> QED BY <1>1, <1>2, <1>3

LEMMA FlightCut ==
  ASSUME TypeOK, InFlight, LinkBreaks
  PROVE  InFlight'
<1>1. /\ run' = run /\ replied' = replied /\ pc' = pc /\ dropped' = dropped /\ link' = FALSE
      /\ out' = out /\ channel' = channel /\ wire' = <<>>
  BY DEF LinkBreaks, caller, front, agent
<1>2. /\ Len(View') <= Len(View) /\ Len(View') \in Nat /\ Len(View) \in Nat
      /\ \A i \in 1 .. Len(View') : View'[i] = View[i]
  BY <1>1, ViewCut
<1>3. \A i \in 1 .. Len(View') : i \in 1 .. Len(View)
  BY <1>2
<1>4. InOrder(View) => InOrder(View)'
  BY <1>1, <1>2, <1>3 DEF InOrder
<1>5. Whole(View) => Whole(View)'
  <2> SUFFICES ASSUME Whole(View) PROVE Whole(View)'
    OBVIOUS
  <2>1. ~replied => \A g \in 1 .. Len(View') : View'[g] = Data(0, g)
    BY <1>2, <1>3 DEF Whole
  <2>2. \A g \in 1 .. Len(View') : View'[g].kind = "refused" => run[0].state = "refused"
    BY <1>2, <1>3 DEF Whole
  <2>3. ASSUME NEW g \in 1 .. Len(View'), View'[g].kind = "ok"
        PROVE  /\ g = run[0].flushed + 1 /\ run[0].state = "finished"
               /\ \A h \in 1 .. run[0].flushed : View'[h] = Data(0, h)
    <3>1. /\ g = run[0].flushed + 1 /\ run[0].state = "finished"
          /\ \A h \in 1 .. run[0].flushed : View[h] = Data(0, h)
      BY <2>3, <1>2, <1>3 DEF Whole
    <3>2. \A h \in 1 .. run[0].flushed : h \in 1 .. Len(View')
      BY <3>1, <1>2, Zero DEF TypeOK, Run
    <3> QED BY <3>1, <3>2, <1>2
  <2> QED BY <1>1, <2>1, <2>2, <2>3 DEF Whole
<1> QED BY <1>1, <1>4, <1>5 DEF InFlight
\* A flush adds the next frame.
LEMMA FlightFlush ==
  ASSUME TypeOK, Execution, InFlight, Flush(0)
  PROVE  InFlight'
<1>1. /\ run[0].state = "working" /\ run'[0].state = "working"
      /\ run'[0].flushed = run[0].flushed + 1 /\ run[0].flushed \in Nat
      /\ run[0].flushed + 1 \in 1 .. Frames
      /\ replied' = replied /\ link' = link /\ pc' = pc /\ dropped' = dropped
      /\ out' = out /\ channel' = channel
      /\ Transmit(<<Data(0, run[0].flushed + 1)>>)
  BY Zero DEF Flush, TypeOK, Run, caller, front
<1> DEFINE d == Data(0, run[0].flushed + 1)
<1>2. d \in Messages /\ d.kind = "data" /\ d.run = 0 /\ d.n = run[0].flushed + 1
  BY <1>1, Zero, DataTypes DEF Messages
<1>3. Len(View) \in Nat /\ \A i \in 1 .. Len(View) : View[i] \in Messages
  BY ViewType, ViewOut
<1>4. CASE ~link
  <2>1. View' = View
    BY <1>1, <1>2, <1>4, ViewGrowsByOne
  <2>2. InOrder(View) => InOrder(View)'
    <3>1. \A i \in 1 .. Len(View) :
            View[i].kind = "data" => View[i].n \in Nat
      BY <1>3, Zero, Kinds, DataTypes
    <3> QED BY <2>1, <1>1, <3>1 DEF InOrder
  <2>3. Whole(View) => Whole(View)'
    BY <2>1, <1>1, <1>4 DEF Whole
  <2> QED BY <1>1, <2>2, <2>3 DEF InFlight
<1>5. CASE link
  <2>1. /\ Len(View') = Len(View) + 1
        /\ \A i \in 1 .. Len(View) : View'[i] = View[i]
        /\ View'[Len(View) + 1] = d
    BY <1>1, <1>2, <1>5, ViewGrowsByOne
  <2>2. \A i \in 1 .. Len(View') : i \in 1 .. Len(View) \/ i = Len(View) + 1
    BY <2>1, <1>3
  <2>3. ASSUME InOrder(View) PROVE InOrder(View)'
    <3>1. \A i \in 1 .. Len(View) : View[i].kind = "data" =>
             View[i].run = 0 /\ View[i].n <= run[0].flushed /\ View[i].n \in Nat
      BY <2>3, <1>1, <1>3, Zero, Kinds, DataTypes DEF InOrder
    <3>2. \A i \in 1 .. Len(View') : View'[i].kind = "data" =>
             View'[i].run = 0 /\ View'[i].n <= run[0].flushed + 1
      BY <3>1, <2>1, <2>2, <1>1, <1>2
    <3>3. ASSUME NEW i \in 1 .. Len(View'), NEW j \in 1 .. Len(View'),
                 i < j, View'[i].kind = "data", View'[j].kind = "data"
          PROVE  View'[i].n < View'[j].n
      <4>1. i \in 1 .. Len(View)
        BY <3>3, <2>2, <1>3
      <4>2. CASE j \in 1 .. Len(View)
        BY <4>1, <4>2, <3>3, <2>1, <2>3 DEF InOrder
      <4>3. CASE j = Len(View) + 1
        <5>1. View'[i].n <= run[0].flushed /\ View'[i].n \in Nat
          BY <4>1, <3>3, <3>1, <2>1
        <5>2. View'[j].n = run[0].flushed + 1
          BY <4>3, <2>1, <1>2
        <5> QED BY <5>1, <5>2, <1>1
      <4> QED BY <4>2, <4>3, <2>2
    <3> QED BY <3>2, <3>3, <1>1 DEF InOrder
  <2>4. ASSUME Whole(View) PROVE Whole(View)'
    <3>1. ~replied => Len(View) = run[0].flushed
                      /\ \A g \in 1 .. Len(View') : View'[g] = Data(0, g)
      BY <2>4, <2>1, <2>2, <1>5 DEF Whole
    <3>2. \A g \in 1 .. Len(View') : View'[g].kind \notin {"ok", "refused"}
      BY <2>4, <2>1, <2>2, <1>1, <1>2 DEF Whole
    <3> QED BY <3>1, <3>2, <2>1, <1>1 DEF Whole
  <2> QED BY <1>1, <2>3, <2>4 DEF InFlight
<1> QED BY <1>4, <1>5

\* An end frame follows whatever has been sent.
LEMMA FlightEnd ==
  ASSUME TypeOK, Execution, InFlight, NEW kind \in {"ok", "timeout"},
         Transmit(<<End(kind)>>), ~replied, replied', run' = run, link' = link, pc' = pc,
         dropped' = dropped, out' = out, channel' = channel,
         kind = "ok" => run[0].state = "finished", run[0].state # "refused"
  PROVE  InFlight'
<1>1. End(kind) \in Messages /\ End(kind).kind = kind
  BY EndTypes DEF Messages
<1>2. Len(View) \in Nat
  BY ViewOut
<1>3. ASSUME Whole(View) PROVE \A g \in 1 .. Len(View) : View[g] = Data(0, g) /\ View[g].kind = "data"
  <2>1. \A g \in 1 .. Len(View) : View[g] = Data(0, g)
    BY <1>3 DEF Whole
  <2>2. \A g : Data(0, g).kind = "data"
    BY DEF Data
  <2> QED BY <2>1, <2>2
<1>4. CASE ~link
  <2>1. View' = View
    BY <1>1, <1>4, ViewGrowsByOne
  <2>2. InOrder(View) => InOrder(View)'
    BY <2>1 DEF InOrder
  <2>3. Whole(View) => Whole(View)'
    BY <2>1, <1>3 DEF Whole
  <2> QED BY <2>2, <2>3 DEF InFlight
<1>5. CASE link
  <2>1. /\ Len(View') = Len(View) + 1
        /\ \A i \in 1 .. Len(View) : View'[i] = View[i]
        /\ View'[Len(View) + 1] = End(kind)
    BY <1>1, <1>5, ViewGrowsByOne
  <2>2. \A i \in 1 .. Len(View') : i \in 1 .. Len(View) \/ i = Len(View) + 1
    BY <2>1, <1>2
  <2>3. \A i \in 1 .. Len(View') : View'[i].kind = "data" =>
           i \in 1 .. Len(View) /\ View'[i] = View[i]
    BY <2>1, <2>2, <1>1
  <2>4. InOrder(View) => InOrder(View)'
    BY <2>3 DEF InOrder
  <2>5. ASSUME Whole(View) PROVE Whole(View)'
    <3>1. \A g \in 1 .. Len(View') : View'[g].kind # "data" => g = Len(View) + 1
      BY <2>1, <2>2, <1>3, <2>5
    <3>2. ASSUME NEW g \in 1 .. Len(View'), View'[g].kind = "ok"
          PROVE  /\ g = run[0].flushed + 1 /\ run[0].state = "finished"
                 /\ \A h \in 1 .. run[0].flushed : View'[h] = Data(0, h)
      <4>1. g = Len(View) + 1
        BY <3>1, <3>2
      <4>2. run[0].state = "finished" /\ Len(View) = run[0].flushed
        BY <4>1, <3>2, <2>1, <1>1, <2>5, <1>5 DEF Whole
      <4> QED BY <4>1, <4>2, <2>1, <1>3, <2>5
    <3>3. \A g \in 1 .. Len(View') : View'[g].kind # "refused"
      BY <3>1, <2>1, <1>1
    <3> QED BY <3>2, <3>3 DEF Whole
  <2> QED BY <2>4, <2>5 DEF InFlight
<1> QED BY <1>4, <1>5

\* A refusal has printed nothing: its body is all there is.
LEMMA FlightRefusal ==
  ASSUME TypeOK, Execution, InFlight,
         Transmit(<<Data(0, 1), End("refused")>>), ~replied, replied', run' = run,
         link' = link, pc' = pc, dropped' = dropped, out' = out, channel' = channel,
         run[0].state = "refused"
  PROVE  InFlight'
<1> DEFINE d == Data(0, 1)
           e == End("refused")
<1>1. /\ d \in Messages /\ d.kind = "data" /\ d.run = 0 /\ d.n = 1
      /\ e \in Messages /\ e.kind = "refused"
  BY Zero, DataTypes, EndTypes DEF Messages
<1>2. /\ Len(View) \in Nat /\ \A i \in 1 .. Len(View) : View[i] \in Messages
      /\ run[0].flushed = 0
  BY ViewOut, ViewType DEF Execution
<1>3. ASSUME InOrder(View) PROVE \A i \in 1 .. Len(View) : View[i].kind # "data"
  <2>1. \A i \in 1 .. Len(View) : View[i].kind = "data" => View[i].n \in 1 .. Frames
    BY <1>2, Zero, Kinds, DataTypes
  <2> QED BY <1>2, <1>3, <2>1, Zero DEF InOrder
<1>4. CASE ~link
  <2>1. View' = View
    BY <1>1, <1>4, ViewGrowsByTwo
  <2>2. InOrder(View) => InOrder(View)'
    BY <2>1, <1>3 DEF InOrder
  <2>3. Whole(View) => Whole(View)'
    BY <2>1 DEF Whole
  <2> QED BY <2>2, <2>3 DEF InFlight
<1>5. CASE link
  <2>1. /\ Len(View') = Len(View) + 2
        /\ \A i \in 1 .. Len(View) : View'[i] = View[i]
        /\ View'[Len(View) + 1] = d /\ View'[Len(View) + 2] = e
    BY <1>1, <1>5, ViewGrowsByTwo
  <2>2. \A i \in 1 .. Len(View') :
           i \in 1 .. Len(View) \/ i = Len(View) + 1 \/ i = Len(View) + 2
    BY <2>1, <1>2
  <2>3. ASSUME InOrder(View) PROVE InOrder(View)'
    <3>1. \A i \in 1 .. Len(View') : View'[i].kind = "data" => i = Len(View) + 1 /\ View'[i] = d
      BY <2>1, <2>2, <1>1, <1>3, <2>3
    <3> QED BY <3>1, <1>1, <1>2 DEF InOrder
  <2>4. ASSUME Whole(View) PROVE Whole(View)'
    <3>1. \A g \in 1 .. Len(View) : View[g].kind # "ok"
      BY <2>4 DEF Whole
    <3>2. \A g \in 1 .. Len(View') : View'[g].kind # "ok"
      BY <3>1, <2>1, <2>2, <1>1
    <3> QED BY <3>2 DEF Whole
  <2> QED BY <2>3, <2>4 DEF InFlight
<1> QED BY <1>4, <1>5
LEMMA FlightStep ==
  ASSUME TypeOK, TypeOK', Phases, Execution, InFlight, Next
  PROVE  InFlight'
<1>0. 0 \in Runs /\ run \in [Runs -> Run] /\ run[0] \in Run
  BY Zero DEF TypeOK
<1>1. CASE Unavailable \/ Deadline \/ CtxDone \/ WriteFails \/ TakeEnd
  <2>1. pc' # "rpc"
    BY <1>1 DEF Unavailable, Deadline, CtxDone, WriteFails, TakeEnd, GivesUp, Returns
  <2> QED BY <2>1 DEF InFlight
<1>2. CASE SendCall
  BY <1>2, FlightStarts
<1>3. CASE TakeData
  <2>1. View' = View
    BY <1>3, ViewMoves DEF TakeData, socket
  <2> QED BY <1>3, <2>1, FlightKept DEF TakeData, socket, agent
<1>4. CASE RouteFrame
  BY <1>4, FlightRouted
<1>5. CASE LinkBreaks
  BY <1>5, FlightCut
<1>6. CASE LoseCall
  <2>1. View' = View
    BY <1>6 DEF LoseCall, caller, front, View
  <2> QED BY <1>6, <2>1, FlightKept DEF LoseCall, caller, agent
<1>7. CASE ReceiveCall
  <2>1. View' = View
    BY <1>7 DEF ReceiveCall, caller, front, View
  <2>2. run[0].state = "none" /\ run[0].flushed = 0 /\ run'[0].flushed = 0
    BY <1>7, <1>0 DEF ReceiveCall, Starts, Execution
  <2> QED BY <1>7, <2>1, <2>2, FlightMovesOn DEF ReceiveCall, caller
<1>8. CASE AgentDies
  <2>1. View' = View
    BY <1>8 DEF AgentDies, caller, front, View
  <2>2. run'[0].flushed = run[0].flushed
        /\ (run[0].state \in {"refused", "finished"} => run'[0].state = run[0].state)
    BY <1>8, <1>0 DEF AgentDies, Run
  <2> QED BY <1>8, <2>1, <2>2, FlightMovesOn DEF AgentDies, caller
<1>9. CASE ReplyDone
  <2>1. /\ ~replied /\ replied' /\ run' = run /\ link' = link /\ pc' = pc /\ dropped' = dropped
        /\ out' = out /\ channel' = channel
    BY <1>9 DEF ReplyDone, caller, front
  <2>2. CASE run[0].state = "finished" /\ Transmit(<<End("ok")>>)
    BY <2>1, <2>2, FlightEnd
  <2>3. CASE run[0].state = "refused" /\ Transmit(<<Data(0, 1), End("refused")>>)
    BY <2>1, <2>3, FlightRefusal
  <2> QED BY <1>9, <2>2, <2>3 DEF ReplyDone
<1>10. CASE ReplyTimeout
  <2>1. /\ ~replied /\ replied' /\ run' = run /\ link' = link /\ pc' = pc /\ dropped' = dropped
        /\ out' = out /\ channel' = channel /\ run[0].state = "working"
        /\ Transmit(<<End("timeout")>>)
    BY <1>10 DEF ReplyTimeout, caller, front
  <2> QED BY <2>1, FlightEnd
<1>11. ASSUME NEW r \in Runs, Flush(r) PROVE InFlight'
  <2>1. CASE r = 0
    BY <1>11, <2>1, FlightFlush
  <2>2. CASE r # 0
    <3>1. View' = View /\ run'[0] = run[0]
      BY <1>11, <2>2, <1>0 DEF Flush, caller, front, View
    <3> QED BY <1>11, <3>1, FlightKept DEF Flush, caller
  <2> QED BY <2>1, <2>2
<1>12. ASSUME NEW r \in Runs, Finish(r) PROVE InFlight'
  <2>1. View' = View /\ replied' = replied /\ link' = link /\ dropped' = dropped /\ pc' = pc
    BY <1>12 DEF Finish, caller, front, socket, View
  <2>2. run'[0].flushed = run[0].flushed
        /\ (run[0].state \in {"refused", "finished"} => run'[0].state = run[0].state)
    BY <1>12, <1>0 DEF Finish, Run
  <2> QED BY <2>1, <2>2, FlightMovesOn
<1>13. ASSUME NEW r \in Runs, HttpArrives(r) PROVE InFlight'
  <2>1. /\ View' = View /\ replied' = replied /\ link' = link /\ dropped' = dropped
        /\ pc' = pc /\ run'[0] = run[0]
    BY <1>13, <1>0 DEF HttpArrives, Starts, caller, front, socket, View
  <2> QED BY <2>1, FlightKept
<1>14. CASE Http
  <2>1. pc' # "rpc"
    BY <1>14 DEF Http, HttpSend, HttpFails, HttpRefused, NextCandidate, HttpHeader, HttpReads,
       HttpEnds, caller
  <2> QED BY <2>1 DEF InFlight
<1>15. CASE GoAway
  <2>1. View' = View
    BY <1>15 DEF GoAway, caller, socket, View
  <2> QED BY <1>15, <2>1, FlightKept DEF GoAway, caller, socket, agent
<1> QED BY <1>1, <1>2, <1>3, <1>4, <1>5, <1>6, <1>7, <1>8, <1>9, <1>10, <1>11, <1>12, <1>13,
          <1>14, <1>15 DEF Next, Caller, Socket, Agent

-----------------------------------------------------------------------------
(* What the front end gets. *)

LEMMA OrderedOut == TypeOK /\ InOrder(View) => OutFromOneRun
<1> SUFFICES ASSUME TypeOK, InOrder(View) PROVE OutFromOneRun
  OBVIOUS
<1>1. /\ Len(out) \in Nat /\ Len(View) \in Nat /\ Len(out) <= Len(View)
      /\ \A i \in 1 .. Len(out) : View[i] = out[i]
  BY ViewOut
<1>2. \A i \in 1 .. Len(out) : out[i].kind = "data"
  <2> out \in Seq(DataFrames)
    BY DEF TypeOK
  <2>1. \A i \in 1 .. Len(out) : out[i] \in DataFrames
    BY ElementOfSeq
  <2> QED BY <2>1, DataTypes
<1>3. \A i \in 1 .. Len(out) : i \in 1 .. Len(View)
  BY <1>1
<1> QED BY <1>1, <1>2, <1>3 DEF InOrder, OutFromOneRun

LEMMA OneRunStep ==
  ASSUME TypeOK, TypeOK', Phases', InFlight', OutFromOneRun, Next
  PROVE  OutFromOneRun'
<1>1. CASE pc' = "rpc"
  <2>1. InOrder(View)'
    BY <1>1 DEF InFlight
  <2> QED BY <2>1, OrderedOut, PTL
<1>2. CASE pc' \in {"start", "http", "waiting"}
  <2>1. out' = <<>>
    BY <1>2 DEF Phases
  <2>2. 1 .. Len(out') = {}
    BY <2>1
  <2> QED BY <2>2 DEF OutFromOneRun
<1>3. CASE pc' = "reading"
  <2>1. \A i \in 1 .. Len(out') : out'[i].run = httpRun' /\ out'[i].n = i
    <3>1. \A i \in 1 .. Len(out') : out'[i] = Data(httpRun', i)
      BY <1>3 DEF Phases
    <3>2. \A r, n : Data(r, n).run = r /\ Data(r, n).n = n
      BY DEF Data
    <3> QED BY <3>1, <3>2
  <2>2. ASSUME NEW i \in 1 .. Len(out'), NEW j \in 1 .. Len(out')
        PROVE  out'[i].run = out'[j].run /\ (i < j => out'[i].n < out'[j].n)
    <3>1. /\ out'[i].run = httpRun' /\ out'[i].n = i
          /\ out'[j].run = httpRun' /\ out'[j].n = j
      BY <2>1
    <3> QED BY <3>1
  <2> QED BY <2>2 DEF OutFromOneRun
<1>4. CASE pc' = "done"
  <2>1. out' = out
    <3>1. CASE Caller
      BY <3>1, <1>4 DEF Caller, Unavailable, SendCall, Deadline, CtxDone, TakeData, WriteFails,
         TakeEnd, front
    <3>2. CASE Socket
      BY <3>2 DEF Socket, RouteFrame, LinkBreaks, LoseCall, front
    <3>3. CASE Agent
      BY <3>3 DEF Agent, ReceiveCall, ReplyDone, ReplyTimeout, AgentDies, Flush, Finish,
         HttpArrives, front
    <3>4. CASE Http \/ GoAway
      BY <3>4, <1>4 DEF Http, HttpSend, HttpFails, HttpRefused, HttpHeader, HttpReads,
         HttpEnds, GoAway, front, caller
    <3> QED BY <3>1, <3>2, <3>3, <3>4 DEF Next
  <2> QED BY <2>1 DEF OutFromOneRun
<1> QED BY <1>1, <1>2, <1>3, <1>4 DEF TypeOK
\* The end frame's arrival: all that precedes it has been written.
LEMMA OkOfTakeEnd ==
  ASSUME TypeOK, Phases, InFlight, TakeEnd
  PROVE  OkIsWhole'
<1> SUFFICES ASSUME result' = "ok", ~dropped', run'[0].state # "refused"
             PROVE  /\ run'[0].state = "finished"
                    /\ out' = [n \in 1 .. run'[0].flushed |-> Data(0, n)]
  BY DEF OkIsWhole
<1>1. /\ pc = "rpc" /\ channel # <<>> /\ Head(channel).kind # "data"
      /\ EndResult(Head(channel).kind) = "ok"
      /\ out' = out /\ run' = run /\ ~dropped
  BY DEF TakeEnd, Returns, front, agent
<1>2. Whole(View)
  BY <1>1 DEF InFlight
<1>3. /\ Len(out) \in Nat /\ Len(View) \in Nat
      /\ \A i \in 1 .. Len(out) : View[i] = out[i]
      /\ Len(out) + 1 \in 1 .. Len(View) /\ View[Len(out) + 1] = Head(channel)
  BY <1>1, ViewOut
<1>4. Head(channel).kind = "ok"
  <2>1. Head(channel).kind \in {"ok", "refused", "timeout"}
    BY <1>1, <1>3, ViewType, Kinds, EndTypes
  <2>2. Head(channel).kind # "timeout"
    BY <1>1 DEF EndResult
  <2>3. Head(channel).kind # "refused"
    BY <1>1, <1>2, <1>3 DEF Whole
  <2> QED BY <2>1, <2>2, <2>3
<1>5. /\ Len(out) + 1 = run[0].flushed + 1 /\ run[0].state = "finished"
      /\ \A h \in 1 .. run[0].flushed : View[h] = Data(0, h)
  BY <1>2, <1>3, <1>4 DEF Whole
<1>6. Len(out) = run[0].flushed /\ \A h \in 1 .. run[0].flushed : out[h] = Data(0, h)
  BY <1>3, <1>5, Zero DEF TypeOK, Run
<1>7. out \in [1 .. run[0].flushed -> DataFrames]
  BY <1>6, LenProperties DEF TypeOK
<1>8. out = [n \in 1 .. run[0].flushed |-> Data(0, n)]
  BY <1>6, <1>7
<1> QED BY <1>1, <1>5, <1>8

LEMMA OkStep ==
  ASSUME TypeOK, Phases, Execution, InFlight, OkIsWhole, Next
  PROVE  OkIsWhole'
<1>0. 0 \in Runs /\ run \in [Runs -> Run] /\ run[0] \in Run
  BY Zero DEF TypeOK
<1>1. CASE TakeEnd
  BY <1>1, OkOfTakeEnd
<1>2. CASE Caller /\ ~TakeEnd
  <2>1. result' # "ok"
    BY <1>2 DEF Caller, Unavailable, SendCall, Deadline, CtxDone, TakeData, WriteFails, GivesUp,
       Returns, Phases
  <2> QED BY <2>1 DEF OkIsWhole
<1>3. CASE Http
  <2>1. result' # "ok"
    BY <1>3 DEF Http, HttpSend, HttpFails, HttpRefused, NextCandidate, HttpHeader, HttpReads,
       HttpEnds, caller, Phases
  <2> QED BY <2>1 DEF OkIsWhole
<1>4. CASE Socket \/ GoAway
  <2>1. result' = result /\ out' = out /\ run' = run
    BY <1>4 DEF Socket, RouteFrame, LinkBreaks, LoseCall, GoAway, caller, front, agent
  <2>2. dropped => dropped'
    <3>1. CASE RouteFrame
      BY <3>1, Zenon DEF RouteFrame
    <3>2. CASE LinkBreaks \/ LoseCall \/ GoAway
      BY <3>2 DEF LinkBreaks, LoseCall, GoAway
    <3> QED BY <1>4, <3>1, <3>2 DEF Socket
  <2> QED BY <2>1, <2>2 DEF OkIsWhole
<1>5. CASE Agent
  <2>1. result' = result /\ out' = out /\ dropped' = dropped
    BY <1>5 DEF Agent, ReceiveCall, ReplyDone, ReplyTimeout, AgentDies, Flush, Finish,
       HttpArrives, caller, front
  <2>2. /\ run[0].state = "finished" => run'[0] = run[0]
        /\ run[0].state = "refused" => run'[0].state = "refused"
    <3>1. CASE ReceiveCall \/ ReplyDone \/ ReplyTimeout
      BY <3>1, <1>0 DEF ReceiveCall, ReplyDone, ReplyTimeout, Execution
    <3>2. CASE AgentDies
      BY <3>2, <1>0 DEF AgentDies
    <3>3. ASSUME NEW r \in Runs, Flush(r) \/ Finish(r) \/ HttpArrives(r)
          PROVE  /\ run[0].state = "finished" => run'[0] = run[0]
                 /\ run[0].state = "refused" => run'[0].state = "refused"
      BY <3>3, <1>0 DEF Flush, Finish, HttpArrives, Starts, Run
    <3> QED BY <1>5, <3>1, <3>2, <3>3 DEF Agent
  <2> QED BY <2>1, <2>2 DEF OkIsWhole
<1> QED BY <1>1, <1>2, <1>3, <1>4, <1>5 DEF Next

-----------------------------------------------------------------------------
LEMMA StreamInitially == Init => StreamInv
<1> SUFFICES ASSUME Init PROVE StreamInv
  OBVIOUS
<1>1. TypeOK
  BY TypeInitially
<1>2. Phases /\ Execution
  BY Zero DEF Init, Phases, Execution, NoRun
<1>3. InFlight /\ OkIsWhole
  BY DEF Init, InFlight, OkIsWhole
<1>4. OutFromOneRun
  <2> 1 .. Len(out) = {}
    BY DEF Init
  <2> QED BY DEF OutFromOneRun
<1> QED BY <1>1, <1>2, <1>3, <1>4 DEF StreamInv

LEMMA StreamPreserved == StreamInv /\ [Next]_vars => StreamInv'
<1> SUFFICES ASSUME StreamInv, [Next]_vars PROVE StreamInv'
  OBVIOUS
<1>1. TypeOK'
  BY TypePreserved DEF StreamInv
<1>2. CASE UNCHANGED vars
  <2>1. /\ pc' = pc /\ result' = result /\ out' = out /\ pending' = pending
        /\ channel' = channel /\ link' = link /\ call' = call /\ wire' = wire /\ run' = run
        /\ replied' = replied /\ httpRun' = httpRun /\ dropped' = dropped
    BY <1>2 DEF vars, caller, front, socket, agent, http
  <2>2. View' = View
    BY <2>1 DEF View
  <2>3. Phases' /\ Execution' /\ OutFromOneRun' /\ OkIsWhole'
    BY <2>1 DEF StreamInv, Phases, Execution, OutFromOneRun, OkIsWhole
  <2>4. InFlight'
    BY <2>1, <2>2, FlightKept DEF StreamInv
  <2> QED BY <1>1, <2>3, <2>4 DEF StreamInv
<1>3. CASE Next
  <2>1. Phases' /\ Execution'
    BY <1>3, PhasesStep, ExecutionStep DEF StreamInv
  <2>2. InFlight'
    BY <1>1, <1>3, FlightStep DEF StreamInv
  <2>3. OutFromOneRun'
    BY <1>1, <1>3, <2>1, <2>2, OneRunStep DEF StreamInv
  <2>4. OkIsWhole'
    BY <1>3, OkStep DEF StreamInv
  <2> QED BY <1>1, <2>1, <2>2, <2>3, <2>4 DEF StreamInv
<1> QED BY <1>2, <1>3

THEOREM StreamSafe == Spec => []StreamInv
  BY StreamInitially, StreamPreserved, PTL DEF Spec

\* What reaches the front end comes from one execution of the command, in its
\* order, for any channel capacity, number of frames and number of addresses:
\* the call is repeated elsewhere only if nothing has been written.
THEOREM OneExecutionSeen == Spec => []OutFromOneRun
<1> StreamInv => OutFromOneRun
  BY DEF StreamInv
<1> QED BY StreamSafe, PTL

\* A success reported after a command that was not refused, with no frame
\* dropped, comes after all the agent sent of it, in its order: whenever the
\* command ends, and whatever of its output the agent itself loses.
THEOREM SuccessShowsAllSent == Spec => []OkIsWhole
<1> StreamInv => OkIsWhole
  BY DEF StreamInv
<1> QED BY StreamSafe, PTL

-----------------------------------------------------------------------------
(***************************************************************************)
(* The safety half of SocketPartEnds and LeavingEndsTheCall.  How far a    *)
(* call is from its end: the part over the WebSocket, then sending and     *)
(* waiting at each address left, then reading.                             *)
(***************************************************************************)

Phase ==
  CASE pc = "start"   -> 2 * Candidates + 3
    [] pc = "rpc"     -> 2 * Candidates + 2
    [] pc = "http"    -> 2 * (Candidates - cand) + 3
    [] pc = "waiting" -> 2 * (Candidates - cand) + 2
    [] pc = "reading" -> 1
    [] OTHER          -> 0

\* No step of anybody takes a call back, and each of its own brings it nearer
\* its end or writes one more frame.
CallMovesOn ==
  /\ Phase' <= Phase
  /\ Caller \/ Http => \/ Phase' < Phase
                       \/ Phase' = Phase /\ Len(out') = Len(out) + 1

\* Frames that were dropped leave gaps, none is written twice.
Spaced == \A i \in 1 .. Len(out) : out[i].n >= i

\* What a step of the call does to its phase and its output.
LEMMA PhaseOfCall ==
  ASSUME TypeOK, Caller \/ Http
  PROVE  \/ Phase' < Phase /\ out' = out
         \/ /\ Phase' = Phase
            /\ out' = out \/ \E e \in DataFrames : out' = Append(out, e)
            /\ TakeData \/ HttpReads
<1>0. /\ Candidates \in Nat /\ cand \in 1 .. Candidates
      /\ pc \in {"start", "rpc", "http", "waiting", "reading", "done"}
  BY StreamAssumption DEF TypeOK
<1>1. CASE TakeData
  <2>1. pc' = pc /\ cand' = cand /\ out' = Append(out, Head(channel))
    BY <1>1 DEF TakeData, http
  <2>2. Head(channel) \in DataFrames
    BY <1>1, Queues, Kinds DEF TakeData, TypeOK
  <2> QED BY <1>1, <2>1, <2>2 DEF Phase
<1>2. CASE HttpReads
  <2>1. pc' = pc /\ cand' = cand /\ out' = Append(out, Data(httpRun, Len(out) + 1))
    BY <1>2 DEF HttpReads, http, caller
  <2>2. Data(httpRun, Len(out) + 1) \in DataFrames
    <3>1. httpRun \in Runs /\ run[httpRun].flushed \in 0 .. Frames /\ Len(out) \in Nat
      BY LenProperties DEF TypeOK, Run
    <3>2. Len(out) + 1 \in 1 .. Frames
      BY <1>2, <3>1, Zero DEF HttpReads
    <3> QED BY <3>1, <3>2, DataTypes
  <2> QED BY <1>2, <2>1, <2>2 DEF Phase
<1>3. CASE Unavailable \/ SendCall \/ Deadline \/ CtxDone \/ WriteFails \/ TakeEnd
  <2>1. /\ out' = out /\ cand' = cand
        /\ \/ pc = "start" /\ pc' \in {"rpc", "http"}
           \/ pc = "rpc" /\ pc' \in {"http", "done"}
    BY <1>3 DEF Unavailable, SendCall, Deadline, CtxDone, WriteFails, TakeEnd, GivesUp, Returns,
       front, http
  <2> QED BY <1>0, <2>1 DEF Phase
<1>4. CASE HttpSend \/ HttpFails \/ HttpRefused \/ HttpHeader \/ HttpEnds
  <2>1. /\ out' = out
        /\ \/ pc = "http" /\ pc' = "waiting" /\ cand' = cand
           \/ pc \in {"http", "waiting"} /\ pc' = "http" /\ cand' = cand + 1 /\ cand < Candidates
           \/ pc \in {"http", "waiting"} /\ pc' = "done"
           \/ pc = "waiting" /\ pc' = "reading"
           \/ pc = "reading" /\ pc' = "done"
    BY <1>4 DEF HttpSend, HttpFails, HttpRefused, HttpHeader, HttpEnds, NextCandidate, front, http
  <2> QED BY <1>0, <2>1 DEF Phase
<1> QED BY <1>1, <1>2, <1>3, <1>4 DEF Caller, Http

\* What the others do leaves both.
LEMMA PhaseElsewhere ==
  ASSUME Socket \/ Agent \/ GoAway \/ UNCHANGED vars
  PROVE  Phase' = Phase /\ out' = out
<1>1. pc' = pc /\ cand' = cand /\ out' = out
  <2>1. CASE Socket \/ GoAway \/ UNCHANGED vars
    BY <2>1 DEF Socket, RouteFrame, LinkBreaks, LoseCall, GoAway, vars, caller, front, http
  <2>2. CASE Agent
    BY <2>2 DEF Agent, ReceiveCall, ReplyDone, ReplyTimeout, AgentDies, Flush, Finish,
       HttpArrives, caller, front, http
  <2> QED BY <2>1, <2>2
<1> QED BY <1>1 DEF Phase

LEMMA SpacedStep ==
  TypeOK /\ OutFromOneRun' /\ Spaced /\ [Next]_vars => Spaced'
<1> SUFFICES ASSUME TypeOK, OutFromOneRun', Spaced, [Next]_vars PROVE Spaced'
  OBVIOUS
<1>1. CASE out' = out
  BY <1>1 DEF Spaced
<1>2. ASSUME NEW e \in DataFrames, out' = Append(out, e) PROVE Spaced'
  <2> DEFINE k == Len(out)
  <2>0. out \in Seq(DataFrames) /\ k \in Nat /\ e.n \in 1 .. Frames
    BY DataTypes, LenProperties DEF TypeOK
  <2>1. /\ Len(out') = k + 1 /\ out'[k + 1] = e
        /\ \A i \in 1 .. k : out'[i] = out[i]
    BY <1>2, <2>0, AppendProperties
  <2>2. e.n >= k + 1
    <3>1. CASE k = 0
      BY <2>0, <3>1
    <3>2. CASE k # 0
      <4>1. k \in 1 .. k /\ k \in 1 .. k + 1 /\ k + 1 \in 1 .. k + 1 /\ k < k + 1
        BY <2>0, <3>2
      <4>2. out'[k].n < out'[k + 1].n
        BY <2>1, <4>1 DEF OutFromOneRun
      <4>3. out[k].n >= k /\ out[k] \in DataFrames
        BY <2>0, <4>1, ElementOfSeq DEF Spaced
      <4>4. out[k].n \in Nat
        BY <4>3, DataTypes, Zero
      <4> QED BY <2>0, <2>1, <4>1, <4>2, <4>3, <4>4
    <3> QED BY <3>1, <3>2
  <2>3. ASSUME NEW i \in 1 .. k + 1 PROVE out'[i].n >= i
    <3>1. CASE i = k + 1
      BY <2>1, <2>2, <3>1
    <3>2. CASE i # k + 1
      <4>1. i \in 1 .. k
        BY <2>0, <3>2
      <4> QED BY <2>1, <4>1 DEF Spaced
    <3> QED BY <3>1, <3>2
  <2> QED BY <2>1, <2>3 DEF Spaced
<1> QED BY <1>1, <1>2, PhaseOfCall, PhaseElsewhere DEF Next

LEMMA NeverTooLong == TypeOK /\ Spaced => Len(out) <= Frames
<1> SUFFICES ASSUME TypeOK, Spaced PROVE Len(out) <= Frames
  OBVIOUS
<1>0. out \in Seq(DataFrames) /\ Len(out) \in Nat /\ Frames \in Nat
  BY Zero, LenProperties DEF TypeOK
<1>1. CASE Len(out) = 0
  BY <1>0, <1>1
<1>2. CASE Len(out) # 0
  <2>1. Len(out) \in 1 .. Len(out)
    BY <1>0, <1>2
  <2>2. out[Len(out)].n >= Len(out) /\ out[Len(out)] \in DataFrames
    BY <1>0, <2>1, ElementOfSeq DEF Spaced
  <2>3. out[Len(out)].n \in 1 .. Frames
    BY <2>2, DataTypes
  <2> QED BY <1>0, <2>2, <2>3
<1> QED BY <1>1, <1>2

LEMMA PhaseStep == TypeOK /\ [Next]_vars => [CallMovesOn]_vars
<1> SUFFICES ASSUME TypeOK, [Next]_vars PROVE [CallMovesOn]_vars
  OBVIOUS
<1>1. Phase \in Int
  BY StreamAssumption DEF Phase, TypeOK
<1>2. CASE Caller \/ Http
  <2>1. CASE Phase' < Phase
    <3>1. Phase' \in Int
      <4>1. cand' \in 1 .. Candidates /\ Candidates \in Nat
        BY TypePreserved, StreamAssumption DEF TypeOK
      <4> QED BY <4>1 DEF Phase
    <3> QED BY <1>1, <2>1, <3>1 DEF CallMovesOn
  <2>2. CASE Phase' = Phase /\ (TakeData \/ HttpReads)
    <3>1. out \in Seq(DataFrames) /\ \E e : out' = Append(out, e)
      BY <2>2 DEF TakeData, HttpReads, TypeOK
    <3>2. Len(out') = Len(out) + 1
      BY <3>1
    <3> QED BY <1>1, <2>2, <3>2 DEF CallMovesOn
  <2> QED BY <1>2, <2>1, <2>2, PhaseOfCall
<1>3. CASE ~(Caller \/ Http)
  <2>1. Phase' = Phase
    BY <1>3, PhaseElsewhere DEF Next
  <2> QED BY <1>1, <1>3, <2>1 DEF CallMovesOn
<1> QED BY <1>2, <1>3

\* The WebSocket is tried once and never returned to, each address once, and what
\* is written never exceeds what a command sends: the call's own steps are
\* bounded, whatever the agent, the connection and the front end do.
THEOREM CallNeverReturns ==
  Spec => [](Len(out) <= Frames) /\ [][CallMovesOn]_vars
<1>1. Init => Spaced
  <2> SUFFICES ASSUME Init PROVE Spaced
    OBVIOUS
  <2>1. 1 .. Len(out) = {}
    BY DEF Init
  <2> QED BY <2>1 DEF Spaced
<1> QED BY <1>1, SpacedStep, NeverTooLong, PhaseStep, StreamTypeCorrect, OneExecutionSeen, PTL
        DEF Spec
=============================================================================
