--------------------------- MODULE AgentLink_proofs ---------------------------
(***************************************************************************)
(* Proofs about the connection of an agent, for any number of executions,  *)
(* sockets, messages under way and connections that break.                 *)
(***************************************************************************)
EXTENDS AgentLink, SequenceTheorems, TLAPS

\* What may be under way on a socket: an agent reports verdicts it recorded, a
\* server confirms verdicts it stored.
FromAgent(R) == {Register, Beat} \cup {Msg("execution_result", e) : e \in R}
Orders(St)   == {Error} \cup {Msg("start_test", e) : e \in Execs}
                  \cup {Msg("execution_result_ack", e) : e \in St}
FromServer(St) == {Ok} \cup Orders(St)

Wire ==
  /\ up \in [Conns -> Seq(FromAgent(recorded))]
  /\ down \in [Conns -> Seq(FromServer(stored))]

\* A handler that bound its socket is the one the agent is mapped to, as long as
\* that socket is open and no late send unmapped it; a handler that has left leaves no open socket; a reply is
\* under way on an open socket only when its handler serves it.
Handlers ==
  /\ \A k \in Conns :
       socket[k] = "open" =>
         /\ handler[k] \in {"bound", "serving"} => mapped = k \/ k \in evicted
         /\ handler[k] \notin {"leaving", "gone"}
         /\ handler[k] # "serving" => down[k] \in Seq(Orders(stored))
  /\ registered /\ socket[link] = "open" => handler[link] = "serving"

\* TypeOK without the messages, which Wire describes.
Typed ==
  /\ loop \in {"idle", "waiting", "receiving", "blocked", "ended"}
  /\ link \in Conns \cup {NoConn} /\ (link = NoConn => loop = "idle")
  /\ registered \in BOOLEAN /\ reporting \in BOOLEAN /\ (registered => loop \in {"receiving", "blocked"})
  /\ held \in Execs \cup {NoOne} /\ (held # NoOne <=> loop = "blocked")
  /\ running \subseteq Execs /\ pending \subseteq recorded /\ senders \subseteq recorded
  /\ recorded \subseteq Execs /\ stored \subseteq recorded /\ replay \subseteq recorded
  /\ sync \in {"none", "devices", "results"} /\ (sync = "results" <=> replay # {})
  /\ socket \in [Conns -> {"open", "broken", "closed"}]
  /\ handler \in [Conns -> {"accepted", "committed", "bound", "serving", "leaving", "gone"}]
  /\ mapped \in Conns \cup {NoConn} /\ status \in {"online", "offline"}
  /\ sending \in [Execs -> Conns \cup {NoConn}]
  /\ interrupted \in BOOLEAN /\ unanswered \subseteq recorded /\ evicted \subseteq Conns
  /\ nstart \in [Execs -> Nat] /\ nbreak \in Nat /\ nfail \in Nat
  /\ held # NoOne => held \in recorded

IInv == Typed /\ Wire /\ NoVerdictForgotten /\ Handlers

-----------------------------------------------------------------------------
(* Sequences of messages                                                   *)

LEMMA FromAgentGrows ==
  ASSUME NEW R, NEW T, R \subseteq T, NEW s \in Seq(FromAgent(R)) PROVE s \in Seq(FromAgent(T))
<1>1. FromAgent(R) \subseteq FromAgent(T) BY DEF FromAgent
<1> QED BY <1>1, SeqMonotonic

LEMMA FromServerGrows ==
  ASSUME NEW R, NEW T, R \subseteq T, NEW s \in Seq(FromServer(R)) PROVE s \in Seq(FromServer(T))
<1>1. FromServer(R) \subseteq FromServer(T) BY DEF FromServer, Orders
<1> QED BY <1>1, SeqMonotonic

LEMMA OrdersGrow ==
  ASSUME NEW R, NEW T, R \subseteq T, NEW s \in Seq(Orders(R)) PROVE s \in Seq(Orders(T))
<1>1. Orders(R) \subseteq Orders(T) BY DEF Orders
<1> QED BY <1>1, SeqMonotonic

\* What arrives over a connection that breaks is what might have arrived.
LEMMA BeginningsStay ==
  ASSUME NEW S, NEW s \in Seq(S), NEW b \in Beginnings(s) PROVE b \in Seq(S)
<1>1. PICK n \in 0 .. Len(s) : b = SubSeq(s, 1, n) BY DEF Beginnings
<1>2. Len(s) \in Nat /\ n \in Int BY LenProperties
<1>3. \A i \in 1 .. n : s[i] \in S BY <1>2, ElementOfSeq
<1> QED BY <1>1, <1>2, <1>3, SubSeqProperties

\* The kinds of the messages tell who sent them and of what.
LEMMA Kinds ==
  ASSUME NEW R, NEW St
  PROVE  /\ \A m \in FromAgent(R) : m.kind = "execution_result" => m.exec \in R
         /\ \A m \in FromServer(St) : /\ m.kind = "ok" => m = Ok
                                      /\ m.kind = "execution_result_ack" => m.exec \in St
         /\ \A m \in Orders(St) : m.kind # "ok"
BY DEF FromAgent, FromServer, Orders, Msg, Ok, Error, Register, Beat

-----------------------------------------------------------------------------
(* Reading and writing                                                     *)

LEMMA Written ==
  ASSUME IInv, NEW m \in FromAgent(recorded), Writes(m)
  PROVE  up' \in [Conns -> Seq(FromAgent(recorded))]
<1>1. link \in Conns BY DEF IInv, Typed, Writes
<1>2. Append(up[link], m) \in Seq(FromAgent(recorded)) BY <1>1, AppendProperties DEF IInv, Wire
<1> QED BY <1>1, <1>2 DEF Writes, IInv, Wire

LEMMA Received ==
  ASSUME IInv, NEW k \in Conns, up[k] # <<>>, Read(k)
  PROVE  /\ up' \in [Conns -> Seq(FromAgent(recorded))]
         /\ Head(up[k]) \in FromAgent(recorded)
<1>1. Tail(up[k]) \in Seq(FromAgent(recorded)) /\ Head(up[k]) \in FromAgent(recorded)
  BY HeadTailProperties DEF IInv, Wire
<1> QED BY <1>1 DEF Read, IInv, Wire

LEMMA Answered ==
  ASSUME IInv, NEW k \in Conns, NEW St, stored \subseteq St, NEW m \in FromServer(St), Answers(k, m)
  PROVE  /\ down' \in [Conns -> Seq(FromServer(St))]
         /\ \A j \in Conns :
              /\ down[j] \in Seq(Orders(stored)) /\ (j = k => m \in Orders(St))
                   => down'[j] \in Seq(Orders(St))
<1>1. \A j \in Conns : down[j] \in Seq(FromServer(St)) BY FromServerGrows DEF IInv, Wire
<1>2. Append(down[k], m) \in Seq(FromServer(St)) BY <1>1, AppendProperties
<1>3. down' \in [Conns -> Seq(FromServer(St))] BY <1>1, <1>2 DEF Answers, IInv, Wire
<1>4. ASSUME NEW j \in Conns, down[j] \in Seq(Orders(stored)), j = k => m \in Orders(St)
      PROVE  down'[j] \in Seq(Orders(St))
  <2>1. down[j] \in Seq(Orders(St)) BY <1>4, OrdersGrow
  <2>2. j = k => Append(down[j], m) \in Seq(Orders(St)) BY <1>4, <2>1, AppendProperties
  <2> QED BY <2>1, <2>2 DEF Answers, IInv, Wire
<1> QED BY <1>3, <1>4

LEMMA Taken ==
  ASSUME IInv, link \in Conns, down[link] # <<>>, down' = [down EXCEPT ![link] = Tail(@)]
  PROVE  /\ down' \in [Conns -> Seq(FromServer(stored))]
         /\ Head(down[link]) \in FromServer(stored)
         /\ \A j \in Conns : down[j] \in Seq(Orders(stored)) => down'[j] \in Seq(Orders(stored))
         /\ down[link] \in Seq(Orders(stored)) => Head(down[link]) \in Orders(stored)
<1>1. Tail(down[link]) \in Seq(FromServer(stored)) /\ Head(down[link]) \in FromServer(stored)
  BY HeadTailProperties DEF IInv, Wire
<1>2. down[link] \in Seq(Orders(stored))
        => Tail(down[link]) \in Seq(Orders(stored)) /\ Head(down[link]) \in Orders(stored)
  BY HeadTailProperties
<1> QED BY <1>1, <1>2 DEF IInv, Wire

-----------------------------------------------------------------------------
(* Every step preserves the invariant                                      *)

\* What moves only the agent, and neither its sockets nor what is on the wire.
LEMMA QuietSteps ==
  ASSUME IInv,
         \/ LoopEnds \/ SendFails \/ SendDevices
         \/ \E e \in Execs : Finish(e)
         \/ UNCHANGED vars
  PROVE  IInv'
<1> USE DEF IInv, Typed, Wire, Handlers, NoVerdictForgotten,
            loopVars, verdictVars, wireVars, serverVars, historyVars, boundVars
<1>1. CASE LoopEnds BY <1>1 DEF LoopEnds
<1>2. CASE SendFails BY <1>2 DEF SendFails
<1>3. CASE SendDevices BY <1>3 DEF SendDevices
<1>4. ASSUME NEW e \in Execs, Finish(e) PROVE IInv'
  <2>1. recorded \subseteq recorded' /\ recorded' \subseteq Execs BY <1>4 DEF Finish
  <2>2. Typed' BY <1>4 DEF Finish
  <2>3. up' \in [Conns -> Seq(FromAgent(recorded'))]
    BY <1>4, <2>1, FromAgentGrows DEF Finish
  <2>4. NoVerdictForgotten' /\ Handlers' BY <1>4 DEF Finish
  <2> QED BY <1>4, <2>2, <2>3, <2>4 DEF Finish
<1>5. CASE UNCHANGED vars BY <1>5 DEF vars
<1> QED BY <1>1, <1>2, <1>3, <1>4, <1>5

\* What the agent writes: reports of what it recorded.
LEMMA Sends ==
  ASSUME IInv,
         \/ SendBeat \/ SendHeld
         \/ \E e \in Execs : SendVerdict(e) \/ SendReplay(e)
  PROVE  IInv'
<1>1. /\ Beat \in FromAgent(recorded)
      /\ \A e \in recorded : Msg("execution_result", e) \in FromAgent(recorded)
  BY DEF FromAgent
<1>2. CASE SendBeat
  <2>1. up' \in [Conns -> Seq(FromAgent(recorded))] BY <1>1, <1>2, Written DEF SendBeat
  <2> QED BY <1>2, <2>1 DEF SendBeat, IInv, Typed, Wire, Handlers, NoVerdictForgotten,
            loopVars, verdictVars, serverVars, historyVars, boundVars
<1>3. CASE SendHeld
  <2>1. held \in recorded BY <1>3 DEF SendHeld, IInv, Typed
  <2>2. up' \in [Conns -> Seq(FromAgent(recorded))] BY <1>1, <1>3, <2>1, Written DEF SendHeld
  <2> QED BY <1>3, <2>2 DEF SendHeld, IInv, Typed, Wire, Handlers, NoVerdictForgotten,
            verdictVars, serverVars, boundVars
<1>4. ASSUME NEW e \in Execs, SendVerdict(e) PROVE IInv'
  <2>1. e \in recorded BY <1>4 DEF SendVerdict, IInv, Typed
  <2>2. up' \in [Conns -> Seq(FromAgent(recorded))] BY <1>1, <1>4, <2>1, Written DEF SendVerdict
  <2> QED BY <1>4, <2>2 DEF SendVerdict, IInv, Typed, Wire, Handlers, NoVerdictForgotten,
            loopVars, serverVars, boundVars
<1>5. ASSUME NEW e \in Execs, SendReplay(e) PROVE IInv'
  <2>1. e \in recorded BY <1>5 DEF SendReplay, IInv, Typed
  <2>2. up' \in [Conns -> Seq(FromAgent(recorded))] BY <1>1, <1>5, <2>1, Written DEF SendReplay
  <2>3. Typed' BY <1>5 DEF SendReplay, IInv, Typed, loopVars, serverVars, boundVars
  <2> QED BY <1>5, <2>2, <2>3 DEF SendReplay, IInv, Typed, Wire, Handlers, NoVerdictForgotten,
            loopVars, serverVars, boundVars
<1> QED BY <1>2, <1>3, <1>4, <1>5

\* What the agent takes from its connection.
LEMMA Takings ==
  ASSUME IInv,
         \/ Registered \/ ReceiveError
         \/ \E e \in Execs : ReceiveAck(e) \/ ReceiveStart(e) \/ AnswerStart(e)
  PROVE  IInv'
<1> USE DEF loopVars, verdictVars, serverVars, historyVars, boundVars
<1>1. CASE Registered
  <2>1. link \in Conns BY <1>1 DEF Registered, IInv, Typed
  <2>2. /\ down' \in [Conns -> Seq(FromServer(stored))]
        /\ \A j \in Conns : down[j] \in Seq(Orders(stored)) => down'[j] \in Seq(Orders(stored))
        /\ down[link] \in Seq(Orders(stored)) => Head(down[link]) \in Orders(stored)
    BY <1>1, <2>1, Taken DEF Registered
  <2>3. socket[link] = "open" => handler[link] = "serving"
    BY <1>1, <2>1, <2>2, Kinds DEF Registered, IInv, Handlers
  <2>4. Typed' BY <1>1, <2>1 DEF Registered, IInv, Typed
  <2>5. Handlers' BY <1>1, <2>2, <2>3 DEF Registered, IInv, Handlers
  <2> QED BY <1>1, <2>2, <2>4, <2>5 DEF Registered, IInv, Wire, NoVerdictForgotten
<1>2. ASSUME NEW kind, NEW e \in Execs, Takes(kind, e)
      PROVE  /\ link \in Conns
             /\ down' \in [Conns -> Seq(FromServer(stored))]
             /\ \A j \in Conns : down[j] \in Seq(Orders(stored)) => down'[j] \in Seq(Orders(stored))
             /\ Msg(kind, e) \in FromServer(stored)
  <2>1. link \in Conns BY <1>2 DEF Takes, IInv, Typed
  <2> QED BY <1>2, <2>1, Taken DEF Takes
<1>3. ASSUME NEW e \in Execs, ReceiveAck(e) PROVE IInv'
  <2> DEFINE m == Msg("execution_result_ack", e)
  <2>0. m \in FromServer(stored) BY <1>2, <1>3 DEF ReceiveAck
  <2>1. m.kind = "execution_result_ack" /\ m.exec = e BY DEF Msg
  <2> HIDE DEF m
  <2>4. e \in stored BY <2>0, <2>1, Kinds
  <2>2. Typed' BY <1>2, <1>3 DEF ReceiveAck, IInv, Typed
  <2>3. Handlers' BY <1>2, <1>3 DEF ReceiveAck, IInv, Handlers
  <2> QED BY <1>2, <1>3, <2>2, <2>3, <2>4 DEF ReceiveAck, IInv, Wire, NoVerdictForgotten
<1>4. ASSUME NEW e \in Execs, ReceiveStart(e) PROVE IInv'
  <2>2. Typed' BY <1>2, <1>4 DEF ReceiveStart, IInv, Typed
  <2>3. Handlers' BY <1>2, <1>4 DEF ReceiveStart, IInv, Handlers
  <2> QED BY <1>2, <1>4, <2>2, <2>3 DEF ReceiveStart, IInv, Wire, NoVerdictForgotten
<1>5. ASSUME NEW e \in Execs, AnswerStart(e) PROVE IInv'
  <2>1. recorded \subseteq recorded' BY <1>5 DEF AnswerStart
  <2>2. up' \in [Conns -> Seq(FromAgent(recorded'))]
    BY <1>5, <2>1, FromAgentGrows DEF AnswerStart, IInv, Wire
  <2>3. Typed' BY <1>2, <1>5, LinkAssumption DEF AnswerStart, Takes, IInv, Typed
  <2>4. Handlers' BY <1>2, <1>5 DEF AnswerStart, Takes, IInv, Typed, Handlers
  <2> QED BY <1>2, <1>5, <2>2, <2>3, <2>4 DEF AnswerStart, IInv, Wire, NoVerdictForgotten
<1>6. CASE ReceiveError
  <2>1. link \in Conns BY <1>6 DEF ReceiveError, Takes, IInv, Typed
  <2>2. /\ down' \in [Conns -> Seq(FromServer(stored))]
        /\ \A j \in Conns : down[j] \in Seq(Orders(stored)) => down'[j] \in Seq(Orders(stored))
    BY <1>6, <2>1, Taken DEF ReceiveError, Takes
  <2>3. Typed' BY <1>6 DEF ReceiveError, IInv, Typed
  <2>4. Handlers' BY <1>6, <2>2 DEF ReceiveError, IInv, Handlers
  <2> QED BY <1>6, <2>2, <2>3, <2>4 DEF ReceiveError, IInv, Wire, NoVerdictForgotten
<1> QED BY <1>1, <1>3, <1>4, <1>5, <1>6

\* A new connection, and the end of one as either side sees it.
LEMMA Sockets ==
  ASSUME IInv, \/ Connect \/ Refused
               \/ \E k \in Conns : Notice(k) \/ Break(k)
  PROVE  IInv'
<1> USE DEF loopVars, verdictVars, serverVars, historyVars
<1>1. CASE Connect
  <2> DEFINE k == CHOOSE c \in Free : TRUE
  <2>1. k \in Conns /\ k \in Free BY <1>1 DEF Connect, Free
  <2> HIDE DEF k
  <2>2. /\ <<Register>> \in Seq(FromAgent(recorded))
        /\ <<>> \in Seq(FromServer(stored)) /\ <<>> \in Seq(Orders(stored))
    BY DEF FromAgent
  <2>3. /\ loop = "idle" /\ loop' = "waiting" /\ link' = k
        /\ socket' = [socket EXCEPT ![k] = "open"]
        /\ up' = [up EXCEPT ![k] = <<Register>>] /\ down' = [down EXCEPT ![k] = <<>>]
        /\ handler' = [handler EXCEPT ![k] = "accepted"]
        /\ UNCHANGED <<registered, held, reporting, verdictVars, mapped, status, stored,
                       sending, unanswered, interrupted, boundVars>>
        /\ evicted' = evicted \ {k}
    BY <1>1 DEF Connect, k
  <2>4. ~registered BY <2>3 DEF IInv, Typed
  <2>5. Typed' BY <2>1, <2>3, <2>4, LinkAssumption DEF IInv, Typed, boundVars
  <2>6. Wire' BY <2>1, <2>2, <2>3 DEF IInv, Wire
  <2>7. Handlers'
    BY <2>1, <2>2, <2>3, <2>4 DEF IInv, Typed, Wire, Handlers
  <2> QED BY <2>3, <2>5, <2>6, <2>7 DEF IInv, NoVerdictForgotten
<1>2. CASE Refused
  <2>1. <<>> \in Seq(FromServer(stored)) OBVIOUS
  <2>2. Typed' BY <1>2 DEF Refused, IInv, Typed, boundVars
  <2>3. Wire' BY <1>2, <2>1 DEF Refused, IInv, Wire
  <2>4. Handlers' BY <1>2 DEF Refused, IInv, Typed, Wire, Handlers
  <2> QED BY <1>2, <2>2, <2>3, <2>4 DEF Refused, IInv, NoVerdictForgotten
<1>3. ASSUME NEW k \in Conns, Notice(k) PROVE IInv'
  <2>1. Typed' BY <1>3 DEF Notice, IInv, Typed, boundVars
  <2>2. Handlers' BY <1>3 DEF Notice, IInv, Typed, Handlers
  <2> QED BY <1>3, <2>1, <2>2 DEF Notice, IInv, Wire, NoVerdictForgotten
<1>4. ASSUME NEW k \in Conns, Break(k) PROVE IInv'
  <2>1. Typed' BY <1>4 DEF Break, IInv, Typed
  <2>2. Wire' BY <1>4, BeginningsStay DEF Break, IInv, Wire
  <2>3. \A j \in Conns : j # k => down'[j] = down[j] BY <1>4 DEF Break, IInv, Wire
  <2>4. Handlers' BY <1>4, <2>3 DEF Break, IInv, Typed, Handlers
  <2> QED BY <1>4, <2>1, <2>2, <2>4 DEF Break, IInv, NoVerdictForgotten
<1> QED BY <1>1, <1>2, <1>3, <1>4

\* The handlers and the manager.
LEMMA ServerSteps ==
  ASSUME IInv, \/ Server \/ \E e \in Execs : Dispatch(e)
  PROVE  IInv'
<1> USE DEF loopVars, verdictVars, historyVars
<1>1. ASSUME NEW k \in Conns, HandleRegister(k) PROVE IInv'
  <2>1. up' \in [Conns -> Seq(FromAgent(recorded))]
    BY <1>1, Received DEF HandleRegister, Reads
  <2>2. Typed' BY <1>1 DEF HandleRegister, IInv, Typed, boundVars
  <2>3. Handlers' BY <1>1 DEF HandleRegister, IInv, Typed, Handlers
  <2> QED BY <1>1, <2>1, <2>2, <2>3 DEF HandleRegister, IInv, Wire, NoVerdictForgotten
<1>2. ASSUME NEW k \in Conns, Bind(k) PROVE IInv'
  <2>1. /\ down' \in [Conns -> Seq(FromServer(stored))]
        /\ \A j \in Conns : j # k /\ down[j] \in Seq(Orders(stored)) => down'[j] \in Seq(Orders(stored))
        /\ handler'[k] # "serving" => down' = down
    BY <1>2, Answered DEF Bind, IInv, Typed, Wire, FromServer
  <2>2. Typed' BY <1>2 DEF Bind, IInv, Typed, boundVars
  <2>3. NoConn \notin Conns BY LinkAssumption
  <2>4. /\ \A j \in Conns : j # k => handler'[j] = handler[j]
        /\ mapped' = k /\ handler[k] = "committed" /\ handler'[k] \in {"bound", "serving"}
        /\ stored' = stored /\ evicted' = evicted /\ registered' = registered /\ link' = link
    BY <1>2 DEF Bind, IInv, Typed, boundVars
  <2>5. \A j \in Conns : socket'[j] = "open" => socket[j] = "open" /\ (mapped = j => j = k)
    BY <1>2, <2>3 DEF Bind, IInv, Typed
  <2>6. ASSUME NEW j \in Conns, socket'[j] = "open"
        PROVE  /\ handler'[j] \in {"bound", "serving"} => mapped' = j \/ j \in evicted'
               /\ handler'[j] \notin {"leaving", "gone"}
               /\ handler'[j] # "serving" => down'[j] \in Seq(Orders(stored'))
    <3>1. CASE j = k BY <3>1, <2>1, <2>4, <2>5, <2>6 DEF IInv, Handlers
    <3>2. CASE j # k BY <3>2, <2>1, <2>4, <2>5, <2>6 DEF IInv, Handlers
    <3> QED BY <3>1, <3>2
  <2>7. registered' /\ socket'[link'] = "open" => handler'[link'] = "serving"
    BY <2>4, <2>5 DEF IInv, Typed, Handlers
  <2>8. Handlers' BY <2>6, <2>7 DEF Handlers
  <2> QED BY <1>2, <2>1, <2>2, <2>8 DEF Bind, IInv, Wire, NoVerdictForgotten
<1>3. ASSUME NEW k \in Conns, Reply(k) PROVE IInv'
  <2>1. /\ down' \in [Conns -> Seq(FromServer(stored))]
        /\ \A j \in Conns : j # k /\ down[j] \in Seq(Orders(stored)) => down'[j] \in Seq(Orders(stored))
    BY <1>3, Answered DEF Reply, FromServer
  <2>2. Typed' BY <1>3 DEF Reply, IInv, Typed, boundVars
  <2>3. Handlers' BY <1>3, <2>1 DEF Reply, IInv, Typed, Handlers
  <2> QED BY <1>3, <2>1, <2>2, <2>3 DEF Reply, IInv, Wire, NoVerdictForgotten
<1>4. ASSUME NEW k \in Conns, HandleBeat(k) PROVE IInv'
  <2>1. up' \in [Conns -> Seq(FromAgent(recorded))] BY <1>4, Received DEF HandleBeat, Reads
  <2>2. Typed' BY <1>4 DEF HandleBeat, IInv, Typed, boundVars
  <2>3. Handlers' BY <1>4 DEF HandleBeat, IInv, Handlers
  <2> QED BY <1>4, <2>1, <2>2, <2>3 DEF HandleBeat, IInv, Wire, NoVerdictForgotten
<1>5. ASSUME NEW k \in Conns, HandleResult(k) PROVE IInv'
  <2> DEFINE e == Head(up[k]).exec
  <2>1. up' \in [Conns -> Seq(FromAgent(recorded))] /\ Head(up[k]) \in FromAgent(recorded)
    BY <1>5, Received DEF HandleResult, Reads
  <2>2. e \in recorded BY <1>5, <2>1, Kinds DEF HandleResult, Reads
  <2>3. stored' = stored \cup {e} /\ Answers(k, Msg("execution_result_ack", e)) BY <1>5 DEF HandleResult
  <2> HIDE DEF e
  <2>4. Msg("execution_result_ack", e) \in Orders(stored') BY <2>3 DEF Orders
  <2>5. /\ down' \in [Conns -> Seq(FromServer(stored'))]
        /\ \A j \in Conns : down[j] \in Seq(Orders(stored)) => down'[j] \in Seq(Orders(stored'))
    BY <2>3, <2>4, Answered DEF FromServer
  <2>6. Typed' BY <1>5, <2>2, <2>3 DEF HandleResult, IInv, Typed, boundVars
  <2>7. Handlers' BY <1>5, <2>5 DEF HandleResult, IInv, Handlers
  <2>8. NoVerdictForgotten' BY <1>5, <2>3 DEF HandleResult, IInv, NoVerdictForgotten
  <2> QED BY <1>5, <2>1, <2>5, <2>6, <2>7, <2>8 DEF HandleResult, IInv, Wire
<1>6. ASSUME NEW k \in Conns, Leave(k) PROVE IInv'
  <2>1. <<>> \in Seq(FromAgent(recorded)) OBVIOUS
  <2>2. Typed' BY <1>6 DEF Leave, IInv, Typed, boundVars
  <2>3. Wire' BY <1>6, <2>1 DEF Leave, IInv, Wire
  <2>4. Handlers' BY <1>6 DEF Leave, IInv, Typed, Handlers
  <2> QED BY <1>6, <2>2, <2>3, <2>4 DEF Leave, IInv, NoVerdictForgotten
<1>7. ASSUME NEW k \in Conns, MarkOffline(k) PROVE IInv'
  <2>1. Typed' BY <1>7 DEF MarkOffline, IInv, Typed, wireVars, boundVars
  <2>2. Handlers' BY <1>7 DEF MarkOffline, IInv, Typed, Handlers, wireVars
  <2> QED BY <1>7, <2>1, <2>2 DEF MarkOffline, IInv, Wire, NoVerdictForgotten, wireVars
<1>8. ASSUME NEW e \in Execs, SendEnds(e) PROVE IInv'
  <2>1. Typed' BY <1>8, LinkAssumption DEF SendEnds, IInv, Typed, wireVars, boundVars
  <2>2. Handlers' BY <1>8 DEF SendEnds, IInv, Typed, Handlers, wireVars
  <2> QED BY <1>8, <2>1, <2>2 DEF SendEnds, IInv, Wire, NoVerdictForgotten, wireVars
<1>9. ASSUME NEW e \in Execs, Dispatch(e) PROVE IInv'
  <2>1. mapped \in Conns BY <1>9 DEF Dispatch, IInv, Typed
  <2>2. Msg("start_test", e) \in Orders(stored) BY DEF Orders
  <2>3. /\ down' \in [Conns -> Seq(FromServer(stored))]
        /\ \A j \in Conns : down[j] \in Seq(Orders(stored)) => down'[j] \in Seq(Orders(stored))
    BY <1>9, <2>1, <2>2, Answered DEF Dispatch, FromServer
  <2>4. Typed' BY <1>9 DEF Dispatch, IInv, Typed
  <2>5. Handlers' BY <1>9, <2>3 DEF Dispatch, IInv, Handlers
  <2> QED BY <1>9, <2>3, <2>4, <2>5 DEF Dispatch, IInv, Wire, NoVerdictForgotten
\* What the handlers read without confirming it was reported by the agent.
<1>10. ASSUME NEW k \in Conns, up[k] # <<>>, Read(k), Unconfirmed(k)
       PROVE  up' \in [Conns -> Seq(FromAgent(recorded))] /\ unanswered' \subseteq recorded
  <2>1. up' \in [Conns -> Seq(FromAgent(recorded))] /\ Head(up[k]) \in FromAgent(recorded)
    BY <1>10, Received
  <2>2. Head(up[k]).kind = "execution_result" => Head(up[k]).exec \in recorded BY <2>1, Kinds
  <2> QED BY <1>10, <2>1, <2>2 DEF Unconfirmed, Reads, IInv, Typed
<1>11. ASSUME NEW k \in Conns, IngestFails(k) PROVE IInv'
  <2>1. up' \in [Conns -> Seq(FromAgent(recorded))] /\ unanswered' \subseteq recorded
    BY <1>10, <1>11 DEF IngestFails
  <2>2. Error \in Orders(stored) BY DEF Orders
  <2>3. /\ down' \in [Conns -> Seq(FromServer(stored))]
        /\ \A j \in Conns : down[j] \in Seq(Orders(stored)) => down'[j] \in Seq(Orders(stored))
    BY <1>11, <2>2, Answered DEF IngestFails, FromServer
  <2>4. Typed' BY <1>11, <2>1 DEF IngestFails, Fails, IInv, Typed, serverVars
  <2>5. Handlers' BY <1>11, <2>3 DEF IngestFails, IInv, Handlers, serverVars
  <2> QED BY <1>11, <2>1, <2>3, <2>4, <2>5 DEF IngestFails, IInv, Wire, NoVerdictForgotten, serverVars
<1>12. ASSUME NEW k \in Conns, RefuseResult(k) PROVE IInv'
  <2>1. up' \in [Conns -> Seq(FromAgent(recorded))] /\ unanswered' \subseteq recorded
    BY <1>10, <1>12 DEF RefuseResult, Reads
  <2>2. Typed' BY <1>12, <2>1 DEF RefuseResult, Fails, IInv, Typed, serverVars
  <2>3. Handlers' BY <1>12 DEF RefuseResult, IInv, Handlers, serverVars
  <2> QED BY <1>12, <2>1, <2>2, <2>3 DEF RefuseResult, IInv, Wire, NoVerdictForgotten, serverVars
<1> QED BY <1>1, <1>2, <1>3, <1>4, <1>5, <1>6, <1>7, <1>8, <1>9, <1>11, <1>12 DEF Server

-----------------------------------------------------------------------------
LEMMA Initially == Init => IInv
<1> SUFFICES ASSUME Init PROVE IInv OBVIOUS
<1>1. Typed BY LinkAssumption DEF Init, Typed
<1>2. Wire BY DEF Init, Wire
<1> QED BY <1>1, <1>2 DEF IInv, NoVerdictForgotten, Handlers, Init

LEMMA Inductive == Spec => []IInv
<1>1. IInv /\ [Next]_vars => IInv'
  BY QuietSteps, Sends, Takings, Sockets, ServerSteps DEF Next, Agent
<1> QED BY <1>1, Initially, PTL DEF Spec

LEMMA Expected ==
  ASSUME IInv PROVE TypeOK /\ Reachable
<1>1. FromAgent(recorded) \subseteq Messages /\ FromServer(stored) \subseteq Messages
  BY DEF IInv, Typed, FromAgent, FromServer, Orders, Messages, Msg, Register, Beat, Ok, Error
<1>2. up \in [Conns -> Seq(Messages)] /\ down \in [Conns -> Seq(Messages)]
  BY <1>1, SeqMonotonic DEF IInv, Wire
<1>3. TypeOK BY <1>2 DEF IInv, Typed, TypeOK
<1>4. Reachable BY DEF IInv, Typed, Handlers, Reachable
<1> QED BY <1>3, <1>4

\* The parts of the connection and the messages under way keep their types: a
\* verdict is confirmed, kept and replayed only if it was recorded.
THEOREM LinkTyped == Spec => []TypeOK
BY Inductive, Expected, PTL

\* A verdict is with the agent or in the database, whatever connections break,
\* whatever is lost on them and however often it is confirmed.
THEOREM VerdictsAreKept == Spec => []NoVerdictForgotten
<1>1. IInv => NoVerdictForgotten BY DEF IInv
<1> QED BY <1>1, Inductive, PTL

\* The open connection of a registered agent is the one the server sends to,
\* however many handlers of earlier connections are still at work, unless a send
\* that waited on an earlier socket removed the mapping: nothing else does.
THEOREM AgentIsReachable == Spec => []Reachable
BY Inductive, Expected, PTL
=============================================================================
