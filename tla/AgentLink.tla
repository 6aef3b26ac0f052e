------------------------------ MODULE AgentLink ------------------------------
(***************************************************************************)
(* The connection of one agent: AgentWSClient with its connection loop,    *)
(* the receive loop and the tasks that send (agent/ws_client.py,           *)
(* agent/main.py), and on the other side one handler per WebSocket         *)
(* (backend/app/ws/routes.py), the mapping from agents to sockets          *)
(* (ws/managers.py) and the agent's row (repositories/ws_handlers.py).     *)
(*                                                                         *)
(* One action is what a coroutine does from one await to the next.  A      *)
(* connection that breaks delivers only the beginning of what was written  *)
(* to it, and the two sides find out on their own.                         *)
(***************************************************************************)
EXTENDS Naturals, Sequences, FiniteSets

CONSTANTS
  Execs, NoOne,   \* executions
  Conns, NoConn,  \* sockets; one that both sides have left is used again
  RetryOnAuth,    \* what retry_on_auth of run_forever may be: TRUE on a desktop
  Incompatible,   \* executions whose start_test has another protocol version
  MaxStarts,      \* bound: start_test sent of an execution
  MaxBreaks,      \* bound: connections that break on their own
  MaxFails        \* bound: messages the server fails on or refuses

ASSUME LinkAssumption ==
  /\ NoOne \notin Execs /\ NoConn \notin Conns /\ Incompatible \subseteq Execs
  /\ RetryOnAuth \subseteq BOOLEAN
  /\ MaxStarts \in Nat /\ MaxBreaks \in Nat /\ MaxFails \in Nat

VARIABLES
  \* the agent: where run_forever is, client.ws, client._registered, the verdict
  \* its receive loop is sending
  loop, link, registered, held,
  \* the device registry is started (on_registered)
  reporting,
  \* executions that run, _pending_execution_results, tasks that send a verdict,
  \* and _result_replay_task: where it is and what it still has to send
  running, pending, senders, sync, replay,
  \* the sockets, and the messages under way to the server and to the agent
  socket, up, down,
  \* the server: the handler of each socket, manager._sockets[agent], the
  \* agent's status, the executions whose verdict is stored, and the socket on
  \* which manager.send of an execution's start_test waits
  handler, mapped, status, stored, sending,
  \* history: executions with a verdict, those whose verdict the server read
  \* last without confirming it, whether a registration found an earlier replay
  \* still at work, and the sockets unmapped by a send on an earlier one;
  \* counters for the bounds
  recorded, unanswered, interrupted, evicted, nstart, nbreak, nfail

loopVars    == <<loop, link, registered, held, reporting>>
verdictVars == <<running, pending, senders, sync, replay, recorded>>
historyVars == <<unanswered, interrupted, evicted>>
wireVars    == <<socket, up, down>>
serverVars  == <<handler, mapped, status, stored, sending>>
boundVars   == <<nstart, nbreak, nfail>>
vars == <<loopVars, verdictVars, wireVars, serverVars, historyVars, boundVars>>

Msg(kind, e) == [kind |-> kind, exec |-> e]
Beat     == Msg("heartbeat", NoOne)
Register == Msg("register", NoOne)
Ok       == Msg("ok", NoOne)
Error    == Msg("error", NoOne)

Init ==
  /\ loop = "idle" /\ link = NoConn /\ registered = FALSE /\ held = NoOne
  /\ reporting = FALSE
  /\ running = {} /\ pending = {} /\ senders = {} /\ sync = "none" /\ replay = {}
  /\ socket = [k \in Conns |-> "closed"]
  /\ up = [k \in Conns |-> <<>>] /\ down = [k \in Conns |-> <<>>]
  /\ handler = [k \in Conns |-> "gone"]
  /\ mapped = NoConn /\ status = "offline" /\ stored = {}
  /\ sending = [e \in Execs |-> NoConn]
  /\ recorded = {} /\ unanswered = {} /\ interrupted = FALSE /\ evicted = {}
  /\ nstart = [e \in Execs |-> 0] /\ nbreak = 0 /\ nfail = 0

Beginnings(s) == {SubSeq(s, 1, i) : i \in 0 .. Len(s)}

\* The socket is not closed on the agent's side: what is written to it arrives,
\* or vanishes when it is broken already.
Writes(m) ==
  /\ registered /\ socket[link] # "closed"
  /\ up' = IF socket[link] = "open" THEN [up EXCEPT ![link] = Append(@, m)] ELSE up

Answers(k, m) ==
  down' = IF socket[k] = "open" THEN [down EXCEPT ![k] = Append(@, m)] ELSE down

-----------------------------------------------------------------------------
(* run_forever and connect                                                 *)

Free == {k \in Conns : /\ socket[k] = "closed" /\ handler[k] = "gone"
                       /\ \A e \in Execs : sending[e] # k}

Connect ==
  LET k == CHOOSE c \in Free : TRUE IN
  /\ loop = "idle" /\ Free # {}
  /\ loop' = "waiting" /\ link' = k
  /\ socket' = [socket EXCEPT ![k] = "open"]
  /\ up' = [up EXCEPT ![k] = <<Register>>] /\ down' = [down EXCEPT ![k] = <<>>]
  /\ handler' = [handler EXCEPT ![k] = "accepted"]
  /\ evicted' = evicted \ {k}
  /\ UNCHANGED <<registered, held, reporting, verdictVars, mapped, status, stored, sending,
                 unanswered, interrupted, boundVars>>

\* Mutant of Registered: the results wait for the next registration.
RegisteredOnly ==
  /\ loop = "waiting" /\ down[link] # <<>> /\ Head(down[link]).kind = "ok"
  /\ down' = [down EXCEPT ![link] = Tail(@)]
  /\ loop' = "receiving" /\ registered' = TRUE /\ reporting' = TRUE
  /\ UNCHANGED <<link, held, verdictVars, socket, up, serverVars, historyVars, boundVars>>

\* The reply to the registration, and on_registered: the registry is started or,
\* on a later connection and unless an earlier replay is still at work, the
\* replay begins, the device report first.
Registered ==
  /\ loop = "waiting" /\ down[link] # <<>> /\ Head(down[link]).kind = "ok"
  /\ down' = [down EXCEPT ![link] = Tail(@)]
  /\ loop' = "receiving" /\ registered' = TRUE /\ reporting' = TRUE
  /\ sync' = IF sync = "none" /\ reporting THEN "devices" ELSE sync
  /\ interrupted' = (sync # "none")
  /\ UNCHANGED <<link, held, running, pending, senders, replay, recorded, socket, up,
                 serverVars, unanswered, evicted, boundVars>>

\* connect takes the first message for the reply: a start_test that came before
\* it is a refusal, which ends the loop of an agent without a desktop.  (An agent
\* has one of the two modes; one that changes them does no less.)
Refused ==
  /\ loop = "waiting" /\ down[link] # <<>> /\ Head(down[link]).kind # "ok"
  /\ \E retry_on_auth \in RetryOnAuth : loop' = IF retry_on_auth THEN "idle" ELSE "ended"
  /\ socket' = [socket EXCEPT ![link] = "closed"]
  /\ down' = [down EXCEPT ![link] = <<>>]
  /\ UNCHANGED <<link, registered, held, reporting, verdictVars, up, serverVars, historyVars,
                 boundVars>>

\* The agent's library finds its connection closed.
Notice(k) ==
  /\ socket[k] = "broken"
  /\ socket' = [socket EXCEPT ![k] = "closed"]
  /\ UNCHANGED <<loopVars, verdictVars, up, down, serverVars, historyVars, boundVars>>

\* connect fails, or the receive loop comes to the end of its messages.
LoopEnds ==
  /\ loop \in {"waiting", "receiving"} /\ socket[link] = "closed" /\ down[link] = <<>>
  /\ loop' = "idle" /\ registered' = FALSE
  /\ UNCHANGED <<link, held, reporting, verdictVars, wireVars, serverVars, historyVars, boundVars>>

-----------------------------------------------------------------------------
(* AgentWSClient.send of each task that sends                              *)

\* A heartbeat; one that finds the agent online changes nothing and is left out.
SendBeat ==
  /\ loop \in {"receiving", "blocked"} /\ status = "offline"
  /\ \A i \in DOMAIN up[link] : up[link][i] # Beat
  /\ Writes(Beat)
  /\ UNCHANGED <<loopVars, verdictVars, socket, down, serverVars, historyVars, boundVars>>

\* A write on a closed socket raises; everybody waits for the next registration.
SendFails ==
  /\ registered /\ socket[link] = "closed"
  /\ registered' = FALSE
  /\ UNCHANGED <<loop, link, held, reporting, verdictVars, wireVars, serverVars, historyVars,
                 boundVars>>

\* A task whose execution came to its verdict.
Finish(e) ==
  /\ e \in running
  /\ running' = running \ {e}
  /\ pending' = pending \cup {e} /\ senders' = senders \cup {e}
  /\ recorded' = recorded \cup {e}
  /\ UNCHANGED <<loopVars, sync, replay, wireVars, serverVars, historyVars, boundVars>>

SendVerdict(e) ==
  /\ e \in senders
  /\ Writes(Msg("execution_result", e))
  /\ senders' = senders \ {e} /\ unanswered' = unanswered \ {e}
  /\ UNCHANGED <<loopVars, running, pending, sync, replay, recorded, socket, down, serverVars,
                 interrupted, evicted, boundVars>>

\* The verdict the receive loop waits for.
SendHeld ==
  /\ loop = "blocked"
  /\ Writes(Msg("execution_result", held))
  /\ loop' = "receiving" /\ held' = NoOne /\ unanswered' = unanswered \ {held}
  /\ UNCHANGED <<link, registered, reporting, verdictVars, socket, down, serverVars, interrupted,
                 evicted, boundVars>>

\* _sync_reconnected_state: the devices, then what is unconfirmed by now ...
SendDevices ==
  /\ sync = "devices"
  /\ registered /\ socket[link] # "closed"
  /\ replay' = pending
  /\ sync' = IF pending = {} THEN "none" ELSE "results"
  /\ UNCHANGED <<loopVars, running, pending, senders, recorded, wireVars, serverVars,
                 historyVars, boundVars>>

\* ... one after the other.
SendReplay(e) ==
  /\ sync = "results" /\ e \in replay
  /\ Writes(Msg("execution_result", e))
  /\ replay' = replay \ {e} /\ unanswered' = unanswered \ {e}
  /\ sync' = IF replay = {e} THEN "none" ELSE sync
  /\ UNCHANGED <<loopVars, running, pending, senders, recorded, socket, down, serverVars,
                 interrupted, evicted, boundVars>>

-----------------------------------------------------------------------------
(* on_message                                                              *)

Takes(kind, e) ==
  /\ loop = "receiving" /\ down[link] # <<>> /\ Head(down[link]) = Msg(kind, e)
  /\ down' = [down EXCEPT ![link] = Tail(@)]

ReceiveAck(e) ==
  /\ Takes("execution_result_ack", e)
  /\ pending' = pending \ {e}
  /\ UNCHANGED <<loopVars, running, senders, sync, replay, recorded, socket, up, serverVars,
                 historyVars, boundVars>>

\* The server's word that it failed on something: nobody waits for it.
ReceiveError ==
  /\ Takes("error", NoOne)
  /\ UNCHANGED <<loopVars, verdictVars, socket, up, serverVars, historyVars, boundVars>>

\* A start_test that needs no answer: a new execution, or one that runs or whose
\* verdict is confirmed.
ReceiveStart(e) ==
  /\ Takes("start_test", e)
  /\ e \notin Incompatible /\ ~(e \in recorded /\ e \in pending)
  /\ running' = IF e \in recorded THEN running ELSE running \cup {e}
  /\ UNCHANGED <<loopVars, pending, senders, sync, replay, recorded, socket, up, serverVars,
                 historyVars, boundVars>>

\* One that is answered with a verdict, a new one or the one kept: the receive
\* loop waits until it is sent.
AnswerStart(e) ==
  /\ Takes("start_test", e)
  /\ e \in Incompatible \/ (e \in recorded /\ e \in pending)
  /\ loop' = "blocked" /\ held' = e
  /\ pending' = pending \cup {e} /\ recorded' = recorded \cup {e}
  /\ UNCHANGED <<link, registered, reporting, running, senders, sync, replay, socket, up,
                 serverVars, historyVars, boundVars>>

-----------------------------------------------------------------------------
(* agent_ws: the handler of a socket                                       *)

Reads(k, kind) == up[k] # <<>> /\ Head(up[k]).kind = kind
Read(k) == up' = [up EXCEPT ![k] = Tail(@)]

\* handle_register, committed.
HandleRegister(k) ==
  /\ handler[k] = "accepted" /\ Reads(k, "register") /\ Read(k)
  /\ status' = "online"
  /\ handler' = [handler EXCEPT ![k] = "committed"]
  /\ UNCHANGED <<loopVars, verdictVars, socket, down, mapped, stored, sending, historyVars, boundVars>>

\* manager.connect: the mapping first, then the end of the socket it replaces,
\* which may be waited for; the reply only then.
Bind(k) ==
  LET ends == mapped # NoConn /\ socket[mapped] = "open" IN
  /\ handler[k] = "committed"
  /\ mapped' = k
  /\ socket' = IF ends THEN [socket EXCEPT ![mapped] = "broken"] ELSE socket
  /\ \/ /\ mapped = NoConn
        /\ handler' = [handler EXCEPT ![k] = "serving"] /\ Answers(k, Ok)
     \/ /\ mapped # NoConn
        /\ handler' = [handler EXCEPT ![k] = "bound"] /\ UNCHANGED down
  /\ UNCHANGED <<loopVars, verdictVars, up, status, stored, sending, historyVars, boundVars>>

Reply(k) ==
  /\ handler[k] = "bound"
  /\ Answers(k, Ok)
  /\ handler' = [handler EXCEPT ![k] = "serving"]
  /\ UNCHANGED <<loopVars, verdictVars, socket, up, mapped, status, stored, sending, historyVars,
                 boundVars>>

HandleBeat(k) ==
  /\ handler[k] = "serving" /\ Reads(k, "heartbeat") /\ Read(k)
  /\ status' = "online"
  /\ UNCHANGED <<loopVars, verdictVars, socket, down, handler, mapped, stored, sending, historyVars,
                 boundVars>>

\* handle_execution_result, committed, and its confirmation.
HandleResult(k) ==
  /\ handler[k] = "serving" /\ Reads(k, "execution_result") /\ Read(k)
  /\ LET e == Head(up[k]).exec IN
     /\ stored' = stored \cup {e}
     /\ Answers(k, Msg("execution_result_ack", e))
  /\ UNCHANGED <<loopVars, verdictVars, socket, handler, mapped, status, sending, historyVars,
                 boundVars>>

\* Mutant of Leave: the mapping is dropped whatever it maps to.
LeaveAny(k) ==
  /\ handler[k] \in {"accepted", "serving"} /\ socket[k] # "open"
  /\ mapped' = NoConn
  /\ handler' = [handler EXCEPT ![k] = "leaving"]
  /\ up' = [up EXCEPT ![k] = <<>>]
  /\ UNCHANGED <<loopVars, verdictVars, socket, down, status, stored, sending, historyVars,
                 boundVars>>

\* The handler finds its socket gone; manager.disconnect forgets only its own.
Leave(k) ==
  /\ handler[k] \in {"accepted", "serving"} /\ socket[k] # "open"
  /\ LET removed == handler[k] = "serving" /\ mapped = k IN
     /\ mapped' = IF removed THEN NoConn ELSE mapped
     /\ handler' = [handler EXCEPT ![k] = IF removed THEN "leaving" ELSE "gone"]
  /\ up' = [up EXCEPT ![k] = <<>>]
  /\ UNCHANGED <<loopVars, verdictVars, socket, down, status, stored, sending, historyVars,
                 boundVars>>

\* mark_agent_offline, committed.
MarkOffline(k) ==
  /\ handler[k] = "leaving"
  /\ status' = "offline"
  /\ handler' = [handler EXCEPT ![k] = "gone"]
  /\ UNCHANGED <<loopVars, verdictVars, wireVars, mapped, stored, sending, historyVars, boundVars>>

\* Bound of what follows: messages the server fails on or refuses.
Fails == nfail < MaxFails /\ nfail' = nfail + 1

\* What a handler reads here gets no confirmation.
Unconfirmed(k) ==
  unanswered' = IF Reads(k, "execution_result") THEN unanswered \cup {Head(up[k]).exec}
                ELSE unanswered

\* The transaction of a message is rolled back, and the connection kept.
IngestFails(k) ==
  /\ handler[k] \in {"accepted", "serving"} /\ up[k] # <<>> /\ Read(k)
  /\ Fails /\ Unconfirmed(k)
  /\ Answers(k, Error)
  /\ UNCHANGED <<loopVars, verdictVars, socket, serverVars, interrupted, evicted, nstart, nbreak>>

\* Mutant of RefuseResult: a result that was not taken is confirmed.
RefuseResultConfirmed(k) ==
  /\ handler[k] = "serving" /\ Reads(k, "execution_result") /\ Read(k)
  /\ Fails /\ UNCHANGED unanswered
  /\ Answers(k, Msg("execution_result_ack", Head(up[k]).exec))
  /\ UNCHANGED <<loopVars, verdictVars, socket, serverVars, interrupted, evicted, nstart, nbreak>>

\* A result of another session or device is passed over without a word.
RefuseResult(k) ==
  /\ handler[k] = "serving" /\ Reads(k, "execution_result") /\ Read(k)
  /\ Fails /\ Unconfirmed(k)
  /\ UNCHANGED <<loopVars, verdictVars, socket, down, serverVars, interrupted, evicted, nstart,
                 nbreak>>

\* manager.send of a start_test: the socket is looked up, and the send awaited ...
Dispatch(e) ==
  /\ sending[e] = NoConn /\ mapped # NoConn /\ nstart[e] < MaxStarts
  /\ Answers(mapped, Msg("start_test", e))
  /\ sending' = [sending EXCEPT ![e] = mapped]
  /\ nstart' = [nstart EXCEPT ![e] = @ + 1]
  /\ UNCHANGED <<loopVars, verdictVars, socket, up, handler, mapped, status, stored, historyVars,
                 nbreak, nfail>>

\* ... until it is written or raises.  A socket that is gone is unmapped, unless
\* the exception does not tell so; what is mapped by then goes with it, a newer
\* socket of the agent included.
SendEnds(e) ==
  LET k == sending[e] IN
  /\ k # NoConn
  /\ sending' = [sending EXCEPT ![e] = NoConn]
  /\ \/ UNCHANGED <<mapped, evicted>>
     \/ /\ socket[k] # "open" /\ mapped' = NoConn
        /\ evicted' = evicted \cup ({mapped} \ {k, NoConn})
  /\ UNCHANGED <<loopVars, verdictVars, wireVars, handler, status, stored, unanswered, interrupted,
                 boundVars>>

-----------------------------------------------------------------------------
\* A connection breaks; of what is under way the beginning arrives.
Break(k) ==
  /\ socket[k] = "open" /\ nbreak < MaxBreaks
  /\ socket' = [socket EXCEPT ![k] = "broken"]
  /\ \E arrives \in Beginnings(up[k]) : up' = [up EXCEPT ![k] = arrives]
  /\ \E arrives \in Beginnings(down[k]) : down' = [down EXCEPT ![k] = arrives]
  /\ nbreak' = nbreak + 1
  /\ UNCHANGED <<loopVars, verdictVars, serverVars, historyVars, nstart, nfail>>

\* What the two event loops run when it can run.
Agent ==
  \/ Connect \/ Registered \/ Refused \/ LoopEnds \/ \E k \in Conns : Notice(k)
  \/ SendBeat \/ SendFails \/ SendHeld \/ SendDevices
  \/ \E e \in Execs : SendVerdict(e) \/ SendReplay(e)
  \/ ReceiveError
  \/ \E e \in Execs : ReceiveAck(e) \/ ReceiveStart(e) \/ AnswerStart(e)

Server ==
  \/ \E k \in Conns :
       \/ HandleRegister(k) \/ Bind(k) \/ Reply(k) \/ HandleBeat(k) \/ HandleResult(k)
       \/ IngestFails(k) \/ RefuseResult(k) \/ Leave(k) \/ MarkOffline(k)
  \/ \E e \in Execs : SendEnds(e)

Next ==
  \/ Agent \/ Server
  \/ \E e \in Execs : Dispatch(e) \/ Finish(e)
  \/ \E k \in Conns : Break(k)

Spec == Init /\ [][Next]_vars

\* The event loops do not rest while they have something to run.  Nobody has to
\* dispatch, an execution need not end, a connection need not break.
FairSpec == Spec /\ WF_vars(Agent \/ Server)

-----------------------------------------------------------------------------
(* Properties                                                              *)

Messages == [kind : {"register", "heartbeat", "execution_result", "execution_result_ack",
                     "ok", "error", "start_test"}, exec : Execs \cup {NoOne}]

TypeOK ==
  /\ loop \in {"idle", "waiting", "receiving", "blocked", "ended"}
  /\ link \in Conns \cup {NoConn} /\ (link = NoConn => loop = "idle")
  /\ registered \in BOOLEAN /\ reporting \in BOOLEAN /\ (registered => loop \in {"receiving", "blocked"})
  /\ held \in Execs \cup {NoOne} /\ (held # NoOne <=> loop = "blocked")
  /\ running \subseteq Execs /\ pending \subseteq recorded /\ senders \subseteq recorded
  /\ recorded \subseteq Execs /\ stored \subseteq recorded /\ replay \subseteq recorded
  /\ sync \in {"none", "devices", "results"} /\ (sync = "results" <=> replay # {})
  /\ socket \in [Conns -> {"open", "broken", "closed"}]
  /\ up \in [Conns -> Seq(Messages)] /\ down \in [Conns -> Seq(Messages)]
  /\ handler \in [Conns -> {"accepted", "committed", "bound", "serving", "leaving", "gone"}]
  /\ mapped \in Conns \cup {NoConn} /\ status \in {"online", "offline"}
  /\ sending \in [Execs -> Conns \cup {NoConn}]
  /\ interrupted \in BOOLEAN /\ unanswered \subseteq recorded /\ evicted \subseteq Conns
  /\ nstart \in [Execs -> Nat] /\ nbreak \in Nat /\ nfail \in Nat

\* The end of the agent memory's reach: a verdict is with the agent until it is
\* in the database, through broken connections, repeated confirmations and
\* replays (_pending_execution_results, main.py:138).
NoVerdictForgotten == recorded \subseteq pending \cup stored

\* An agent that sits on an open connection can be reached through it: whichever
\* handlers end, bind or find their socket gone, the mapping does not lose it
\* (CR-16 of managers.py), unless a send on an earlier socket took it away.
Reachable == registered /\ socket[link] = "open" /\ link \notin evicted => mapped = link

\* The agent is connected, reachable, and its row says so.
Connected == registered /\ socket[link] = "open" /\ mapped = link /\ status = "online"

\* The receive loop waits in a send for a registration that only the end of the
\* receive loop can bring.
Blocked == loop = "blocked" /\ socket[link] = "closed"

\* The agent sits on a connection a late send has unmapped, which nothing ends.
Evicted == registered /\ socket[link] = "open" /\ link \in evicted

\* The loop of an agent without a desktop has ended with a refusal.
GaveUp == loop = "ended"

\* Connections break, are replaced by overtaken ones and are reported offline
\* late; in the end the agent is connected and online for good, unless its
\* receive loop was caught in a send, a late send unmapped its connection, or it
\* has no desktop and gave up (run_forever, heartbeats).
ComesBack == <>[](Connected \/ Blocked \/ Evicted \/ GaveUp)

\* A verdict is confirmed in the end, unless the server failed on it or refused
\* it (routes.py:171, ws_handlers.py:878), the last registration found an earlier
\* replay at work and began none of its own (on_registered, main.py:212), the
\* receive loop was caught in a send, or the agent gave up.
Confirmed ==
  \A e \in Execs :
    e \in recorded ~> (e \notin pending \/ e \in unanswered \/ interrupted \/ Blocked \/ GaveUp)

=============================================================================
