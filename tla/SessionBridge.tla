--------------------------- MODULE SessionBridge ---------------------------
(***************************************************************************)
(* The server's half of the tool-call RPC: server/runtime/session_bridge.py *)
(* and the life of one WebSocket handler of server/server.py as far as the *)
(* bridge sees it.                                                         *)
(*                                                                         *)
(* One asyncio loop runs everything, so a step of the model is the code    *)
(* between two suspension points.  _bridge_lock is never held across an    *)
(* await, hence get_bridge, register_bridge and unregister_bridge do not   *)
(* suspend, and call_local_tool runs from the lookup to its first          *)
(* WebSocket send without a break.                                         *)
(*                                                                         *)
(* Each connection has exactly one SessionBridge, so a bridge is named by  *)
(* its connection.                                                         *)
(***************************************************************************)
CONSTANTS
  Conns,   \* WebSocket connections, each accepted at most once
  Keys,    \* (user_id, session_id) pairs
  Calls,   \* invocations of call_local_tool, each with its own uuid
  KeyOf,   \* the key in each connection's URL
  NoConn   \* no bridge

ASSUME KeyOfAssumption == KeyOf \in [Conns -> Keys]
ASSUME NoConnAssumption == NoConn \notin Conns

VARIABLES
  open,     \* connections neither side has closed
  handler,  \* where the ws() coroutine of each connection is
  legs,     \* which of upstream() and downstream() still run
  bridges,  \* _bridges: the registered bridge of each key
  pending,  \* pending_calls of each bridge
  fut,      \* the Future of each call
  pc,       \* where the call_tool coroutine of each call is suspended
  via,      \* self of call_tool
  sent,     \* calls whose tool_call frame was handed to a live WebSocket
  ran,      \* what the client made of each call
  results   \* tool_result frames the server has not read yet

vars == <<open, handler, legs, bridges, pending, fut, pc, via, sent, ran, results>>
connVars == <<open, handler, legs>>
clientVars == <<sent, ran, results>>

HandlerStates == {"none", "setup", "serving", "gone", "crashed"}
Legs          == {"upstream", "downstream"}
FutStates     == {"pending", "ok", "error", "closed", "cancelled"}

(* call_tool has begun and has not reached wait_for's result.              *)
Asking  == {"trace_start", "send", "wait"}
(* The call_id is still in the try block, whose finally pops it.           *)
InTry   == Asking \cup {"trace_timeout"}
(* The coroutine is suspended somewhere.                                   *)
Running == InTry \cup {"trace_ok", "trace_error"}
Ended   == {"returned", "raised"}

TypeOK ==
  /\ open \in SUBSET Conns
  /\ handler \in [Conns -> HandlerStates]
  /\ legs \in [Conns -> SUBSET Legs]
  /\ bridges \in [Keys -> Conns \cup {NoConn}]
  /\ pending \in [Conns -> SUBSET Calls]
  /\ fut \in [Calls -> FutStates]
  /\ pc \in [Calls -> {"idle"} \cup Running \cup Ended]
  /\ via \in [Calls -> Conns \cup {NoConn}]
  /\ sent \in SUBSET Calls
  /\ ran \in [Calls -> {"no", "ok", "error"}]
  /\ results \in SUBSET Calls

Init ==
  /\ open = {}
  /\ handler = [b \in Conns |-> "none"]
  /\ legs = [b \in Conns |-> {}]
  /\ bridges = [k \in Keys |-> NoConn]
  /\ pending = [b \in Conns |-> {}]
  /\ fut = [c \in Calls |-> "pending"]
  /\ pc = [c \in Calls |-> "idle"]
  /\ via = [c \in Calls |-> NoConn]
  /\ sent = {}
  /\ ran = [c \in Calls |-> "no"]
  /\ results = {}

-----------------------------------------------------------------------------
(* Connections *)

(* Fault: cancel_pending clears the table and leaves the Futures alone.    *)
Cancelled_Forgotten(b) == fut

(* cancel_pending of bridge b: every unresolved Future gets the exception. *)
Cancelled(b) ==
  [c \in Calls |-> IF b \in Conns /\ c \in pending[b] /\ fut[c] = "pending"
                     THEN "closed" ELSE fut[c]]

(* cancel_pending of bridge b: pending_calls is emptied.                   *)
Emptied(b) == [d \in Conns |-> IF d = b THEN {} ELSE pending[d]]

(* websocket.accept and register_bridge: the bridge registered under the   *)
(* key, if any, is cancelled and replaced; its socket stays open.          *)
Connect(b) ==
  /\ handler[b] = "none"
  /\ handler' = [handler EXCEPT ![b] = "setup"]
  /\ open' = open \cup {b}
  /\ fut' = Cancelled(bridges[KeyOf[b]])
  /\ pending' = Emptied(bridges[KeyOf[b]])
  /\ bridges' = [bridges EXCEPT ![KeyOf[b]] = b]
  /\ UNCHANGED <<legs, pc, via, clientVars>>

(* Session meta, first trace and ADK session are done; gather starts.      *)
StartServing(b) ==
  /\ handler[b] = "setup"
  /\ handler' = [handler EXCEPT ![b] = "serving"]
  /\ legs' = [legs EXCEPT ![b] = Legs]
  /\ UNCHANGED <<open, bridges, pending, fut, pc, via, clientVars>>

(* A send before the try block raises: ws() ends with no cleanup at all.   *)
(* The sends go to the bridge that is registered now, not to b's own.      *)
SetupFails(b) ==
  /\ handler[b] = "setup"
  /\ bridges[KeyOf[b]] \in Conns \ open
  /\ handler' = [handler EXCEPT ![b] = "crashed"]
  /\ UNCHANGED <<open, legs, bridges, pending, fut, pc, via, clientVars>>

(* The client goes away or the network drops.                              *)
PeerGone(b) ==
  /\ b \in open
  /\ open' = open \ {b}
  /\ UNCHANGED <<handler, legs, bridges, pending, fut, pc, via, clientVars>>

(* upstream() reads the disconnect and returns, or raises on an open       *)
(* socket: over a frame that is not an object, or a send to a bridge that  *)
(* has taken the key and is gone.                                          *)
UpstreamEnds(b) ==
  /\ "upstream" \in legs[b]
  /\ legs' = [legs EXCEPT ![b] = @ \ {"upstream"}]
  /\ UNCHANGED <<open, handler, bridges, pending, fut, pc, via, clientVars>>

(* run_live ends by itself: the socket stays open.                         *)
DownstreamEnds(b) ==
  /\ "downstream" \in legs[b]
  /\ legs' = [legs EXCEPT ![b] = @ \ {"downstream"}]
  /\ UNCHANGED <<open, handler, bridges, pending, fut, pc, via, clientVars>>

(* run_live or a send raises: downstream() closes the socket (1011).       *)
DownstreamFails(b) ==
  /\ "downstream" \in legs[b]
  /\ legs' = [legs EXCEPT ![b] = @ \ {"downstream"}]
  /\ open' = open \ {b}
  /\ UNCHANGED <<handler, bridges, pending, fut, pc, via, clientVars>>

(* Fault: unregister_bridge pops whatever is registered under the key.     *)
Retires_ByKey(b) == bridges[KeyOf[b]]

(* Fault: the handler ends without unregister_bridge.                      *)
Retires_Skipped(b) == NoConn

(* The bridge that unregister_bridge(bridge=b) retires: b itself, or none  *)
(* when a newer connection has taken the key.                              *)
Retires(b) == IF bridges[KeyOf[b]] = b THEN b ELSE NoConn

(* gather has returned, which takes the end of both coroutines: the        *)
(* finally block of ws() runs to unregister_bridge.                        *)
Cleanup(b) ==
  /\ handler[b] = "serving"
  /\ legs[b] = {}
  /\ handler' = [handler EXCEPT ![b] = "gone"]
  /\ open' = open \ {b}
  /\ fut' = Cancelled(Retires(b))
  /\ pending' = Emptied(Retires(b))
  /\ bridges' = IF Retires(b) = NoConn THEN bridges
                ELSE [bridges EXCEPT ![KeyOf[b]] = NoConn]
  /\ UNCHANGED <<legs, pc, via, clientVars>>

-----------------------------------------------------------------------------
(* The call_tool coroutine *)

(* An agent calls only while its run_live does, under its session's key.   *)
AgentActive(k) == \E b \in Conns : KeyOf[b] = k /\ "downstream" \in legs[b]

(* call_local_tool without a bridge: SessionBridgeError at once.           *)
CallRefused(c, k) ==
  /\ pc[c] = "idle"
  /\ AgentActive(k)
  /\ bridges[k] = NoConn
  /\ pc' = [pc EXCEPT ![c] = "raised"]
  /\ UNCHANGED <<connVars, bridges, pending, fut, via, clientVars>>

(* call_local_tool: lookup, Future, pending_calls, first trace send.       *)
CallLocalTool(c, k) ==
  /\ pc[c] = "idle"
  /\ AgentActive(k)
  /\ bridges[k] # NoConn
  /\ via' = [via EXCEPT ![c] = bridges[k]]
  /\ pending' = [pending EXCEPT ![bridges[k]] = @ \cup {c}]
  /\ pc' = [pc EXCEPT ![c] = "trace_start"]
  /\ UNCHANGED <<connVars, bridges, fut, clientVars>>

(* The "tool_called" trace is written, or lost on a dead socket.           *)
StartTraced(c) ==
  /\ pc[c] = "trace_start"
  /\ pc' = [pc EXCEPT ![c] = "send"]
  /\ UNCHANGED <<connVars, bridges, pending, fut, via, clientVars>>

(* The tool_call frame is written, or lost on a dead socket.  The Future   *)
(* is not looked at: it may have been cancelled during the trace send.     *)
ToolCallSent(c) ==
  /\ pc[c] = "send"
  /\ pc' = [pc EXCEPT ![c] = "wait"]
  /\ sent' = IF via[c] \in open THEN sent \cup {c} ELSE sent
  /\ UNCHANGED <<connVars, bridges, pending, fut, via, ran, results>>

(* Fault: call_tool without its finally block.                             *)
Popped_Never(c) == pending

(* The finally block of call_tool.                                         *)
Popped(c) == [pending EXCEPT ![via[c]] = @ \ {c}]

(* A send inside the try block raises on a dead socket.                    *)
SendFails(c) ==
  /\ pc[c] \in {"trace_start", "send", "trace_timeout"}
  /\ via[c] \notin open
  /\ pending' = Popped(c)
  /\ pc' = [pc EXCEPT ![c] = "raised"]
  /\ UNCHANGED <<connVars, bridges, fut, via, clientVars>>

(* Fault: a plain await instead of wait_for.                               *)
Timeout_Never(c) == FALSE /\ UNCHANGED vars

(* wait_for's 20 s are over.  An unresolved Future is cancelled.  From     *)
(* Python 3.12 on the timer also wins over a result that is already set    *)
(* but has not resumed the coroutine.                                      *)
Timeout(c) ==
  /\ pc[c] = "wait"
  /\ fut' = [fut EXCEPT ![c] = IF @ = "pending" THEN "cancelled" ELSE @]
  /\ pc' = [pc EXCEPT ![c] = "trace_timeout"]
  /\ UNCHANGED <<connVars, bridges, pending, via, clientVars>>

(* The timeout's trace is written: SessionBridgeError.                     *)
TimeoutTraced(c) ==
  /\ pc[c] = "trace_timeout"
  /\ pending' = Popped(c)
  /\ pc' = [pc EXCEPT ![c] = "raised"]
  /\ UNCHANGED <<connVars, bridges, fut, via, clientVars>>

(* Fault: the payload's "ok" is not looked at.                             *)
AfterWait_OkUnread(f) == IF f = "closed" THEN "raised" ELSE "trace_ok"

(* Where wait_for continues once its Future is done.                       *)
AfterWait(f) == CASE f = "ok"     -> "trace_ok"
                  [] f = "error"  -> "trace_error"
                  [] f = "closed" -> "raised"

(* wait_for returns the payload, or raises what cancel_pending set.        *)
Resume(c) ==
  /\ pc[c] = "wait"
  /\ fut[c] \in {"ok", "error", "closed"}
  /\ pending' = Popped(c)
  /\ pc' = [pc EXCEPT ![c] = AfterWait(fut[c])]
  /\ UNCHANGED <<connVars, bridges, fut, via, clientVars>>

(* The "tool_finished" trace of a success is written: the result returns.  *)
Return(c) ==
  /\ pc[c] = "trace_ok"
  /\ pc' = [pc EXCEPT ![c] = "returned"]
  /\ UNCHANGED <<connVars, bridges, pending, fut, via, clientVars>>

(* The trace of an error is written, or a final trace raises on a dead     *)
(* socket, which throws away even a success.                               *)
Raise(c) ==
  /\ \/ pc[c] = "trace_error"
     \/ pc[c] = "trace_ok" /\ via[c] \notin open
  /\ pc' = [pc EXCEPT ![c] = "raised"]
  /\ UNCHANGED <<connVars, bridges, pending, fut, via, clientVars>>

-----------------------------------------------------------------------------
(* The client, and the reading of its answers *)

(* The client executes a tool_call it has received, once, and answers on   *)
(* the socket the call came by; the answer is lost if that is closed.      *)
Execute(c) ==
  /\ c \in sent
  /\ ran[c] = "no"
  /\ \E r \in {"ok", "error"} : ran' = [ran EXCEPT ![c] = r]
  /\ results' = IF via[c] \in open THEN results \cup {c} ELSE results
  /\ UNCHANGED <<connVars, bridges, pending, fut, pc, via, sent>>

(* Fault: complete_tool_call does not ask whether the Future is done.      *)
Completes_Unchecked(b, c) ==
  bridges[KeyOf[b]] # NoConn /\ c \in pending[bridges[KeyOf[b]]]

(* handle_tool_result of a frame read on connection b completes a call of  *)
(* the bridge that is registered now, when that call still waits.          *)
Completes(b, c) ==
  LET bridge == bridges[KeyOf[b]] IN
  /\ bridge # NoConn
  /\ c \in pending[bridge]
  /\ fut[c] = "pending"

(* upstream() reads a tool_result.                                         *)
ReceiveResult(c) ==
  /\ c \in results
  /\ "upstream" \in legs[via[c]]
  /\ results' = results \ {c}
  /\ fut' = [fut EXCEPT ![c] = IF Completes(via[c], c) THEN ran[c] ELSE @]
  /\ UNCHANGED <<connVars, bridges, pending, pc, via, sent, ran>>

-----------------------------------------------------------------------------
ConnStep(b) ==
  \/ Connect(b)        \/ StartServing(b)   \/ SetupFails(b)
  \/ PeerGone(b)       \/ UpstreamEnds(b)   \/ Cleanup(b)
  \/ DownstreamEnds(b) \/ DownstreamFails(b)

CallStep(c) ==
  \/ StartTraced(c) \/ ToolCallSent(c) \/ SendFails(c)
  \/ Timeout(c)     \/ TimeoutTraced(c) \/ Resume(c)
  \/ Return(c)      \/ Raise(c)

Next ==
  \/ \E b \in Conns : ConnStep(b)
  \/ \E c \in Calls, k \in Keys : CallRefused(c, k) \/ CallLocalTool(c, k)
  \/ \E c \in Calls : CallStep(c) \/ Execute(c) \/ ReceiveResult(c)

(* The loop resumes a coroutine whose send is done or whose timer fired;   *)
(* a send ends, by flow control or by the socket's keepalive.  Nothing     *)
(* makes a client answer, a peer leave or run_live end.                    *)
Fairness == \A c \in Calls : WF_vars(CallStep(c))

Spec == Init /\ [][Next]_vars
FairSpec == Spec /\ Fairness
-----------------------------------------------------------------------------
(* Properties *)

(* No call leaks: pending_calls holds only calls of that bridge that have  *)
(* not left the try block of call_tool, whichever way they leave it.       *)
PendingInTry ==
  \A b \in Conns : \A c \in pending[b] : via[c] = b /\ pc[c] \in InTry

(* Every call that waits on an unresolved Future can still be answered: it *)
(* is in the table of the bridge that handle_tool_result would find.       *)
(* Replacing or removing a bridge therefore never strands a waiter.        *)
WaitersReachable ==
  \A c \in Calls : pc[c] \in Asking /\ fut[c] = "pending" =>
     /\ bridges[KeyOf[via[c]]] = via[c]
     /\ c \in pending[via[c]]

(* A bridge that is not registered any more holds no call.                 *)
PendingOnlyIfRegistered ==
  \A b \in Conns : bridges[KeyOf[b]] # b => pending[b] = {}

(* No ws() handler whose cleanup has run is still found by get_bridge.     *)
(* (One whose setup raised is: see SetupFails.)                            *)
RegisteredIsLive ==
  \A k \in Keys : bridges[k] # NoConn =>
     /\ KeyOf[bridges[k]] = k
     /\ handler[bridges[k]] \in {"setup", "serving", "crashed"}

(* What a call will return was reported by the client for that same call.  *)
FutureIsClientsAnswer ==
  \A c \in Calls :
     /\ fut[c] \in {"ok", "error"} => ran[c] = fut[c]
     /\ pc[c] \in {"trace_ok", "returned"} => ran[c] = "ok"

(* A Future is resolved at most once: complete_tool_call, cancel_pending   *)
(* and the timeout never overwrite each other (set_result on a done Future *)
(* would raise in upstream() and end the connection).                      *)
FutureResolvedOnce ==
  [][\A c \in Calls : fut[c] # "pending" => fut'[c] = fut[c]]_vars

(* Only the handler that owns the registered bridge takes it out of the    *)
(* registry: the late cleanup of an old connection spares the new one.     *)
NewerBridgeSurvives ==
  [][\A k \in Keys, b \in Conns :
        bridges[k] = b /\ bridges'[k] = NoConn => handler'[b] = "gone"]_vars

(* upstream() never swallows an answer somebody still waits for.           *)
AnswerReachesWaiter ==
  [][\A c \in results \ results' : pc[c] \in Asking => fut'[c] # "pending"]_vars

-----------------------------------------------------------------------------
(* The bridge implements ToolCall. *)

OutcomeOf(p) == CASE p = "idle"     -> "unused"
                  [] p \in Running  -> "open"
                  [] p = "returned" -> "ok"
                  [] p = "raised"   -> "failed"

TC == INSTANCE ToolCall WITH outcome <- [c \in Calls |-> OutcomeOf(pc[c])]

(* Under every replacement, disconnect, timeout and late answer the agent  *)
(* sees a call that ends once, and a success only of a body that succeeded;*)
(* and a call that was begun ends, even if no answer ever comes and the    *)
(* handler of its connection never does.                                   *)
ImplementsToolCall == TC!Spec
=============================================================================
