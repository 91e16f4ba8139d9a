------------------------ MODULE SessionBridgeProofs ------------------------
(***************************************************************************)
(* Proofs about SessionBridge, for any number of connections, keys and     *)
(* calls and any assignment of keys to connections.                        *)
(*                                                                         *)
(* The inductive invariant IInv joins TypeOK, the properties of the module *)
(* and the facts that tie them together: a call's Future is resolved only  *)
(* with the client's outcome, an answer exists only of a call that ran,    *)
(* and a frame exists only of a call that got past its send.               *)
(***************************************************************************)
EXTENDS SessionBridge, Naturals, TLAPS

(* A call that is suspended was made through a connection.                 *)
RunningHasBridge ==
  \A c \in Calls : pc[c] \in Running \/ c \in sent => via[c] \in Conns

(* The client knows only calls that were sent, and those have passed send. *)
ClientKnowsSent ==
  \A c \in Calls :
     /\ c \in sent => pc[c] \in {"wait", "trace_timeout", "trace_ok", "trace_error"} \cup Ended
     /\ ran[c] # "no" => c \in sent
     /\ c \in results => ran[c] # "no"

(* A call not yet begun has a fresh Future and no outcome.                 *)
IdleIsFresh == \A c \in Calls : pc[c] = "idle" => fut[c] = "pending"

IInv == /\ TypeOK
        /\ PendingInTry
        /\ WaitersReachable
        /\ PendingOnlyIfRegistered
        /\ RegisteredIsLive
        /\ FutureIsClientsAnswer
        /\ RunningHasBridge
        /\ ClientKnowsSent
        /\ IdleIsFresh

USE DEF InTry, Asking, Running, Ended, HandlerStates, Legs, FutStates, connVars, clientVars

-----------------------------------------------------------------------------
(* Type correctness: every step of Next keeps every variable in its type.  *)
LEMMA TypeStep == TypeOK /\ ClientKnowsSent /\ [Next]_vars => TypeOK'
<1> USE KeyOfAssumption, NoConnAssumption DEF TypeOK
<1> SUFFICES ASSUME TypeOK, ClientKnowsSent, [Next]_vars PROVE TypeOK'
  OBVIOUS
<1>1. ASSUME NEW b \in Conns, Connect(b) PROVE TypeOK'
  BY <1>1 DEF Connect, Cancelled, Emptied
<1>2. ASSUME NEW b \in Conns, StartServing(b) PROVE TypeOK'
  BY <1>2 DEF StartServing
<1>3. ASSUME NEW b \in Conns, SetupFails(b) PROVE TypeOK'
  BY <1>3 DEF SetupFails
<1>4. ASSUME NEW b \in Conns, PeerGone(b) PROVE TypeOK'
  BY <1>4 DEF PeerGone
<1>5. ASSUME NEW b \in Conns, UpstreamEnds(b) PROVE TypeOK'
  BY <1>5 DEF UpstreamEnds
<1>6. ASSUME NEW b \in Conns, Cleanup(b) PROVE TypeOK'
  BY <1>6 DEF Cleanup, Cancelled, Emptied, Retires
<1>7. ASSUME NEW b \in Conns, DownstreamEnds(b) PROVE TypeOK'
  BY <1>7 DEF DownstreamEnds
<1>8. ASSUME NEW b \in Conns, DownstreamFails(b) PROVE TypeOK'
  BY <1>8 DEF DownstreamFails
<1>9. ASSUME NEW c \in Calls, NEW k \in Keys, CallRefused(c, k) PROVE TypeOK'
  BY <1>9 DEF CallRefused
<1>10. ASSUME NEW c \in Calls, NEW k \in Keys, CallLocalTool(c, k) PROVE TypeOK'
  BY <1>10 DEF CallLocalTool
<1>11. ASSUME NEW c \in Calls, StartTraced(c) PROVE TypeOK'
  BY <1>11 DEF StartTraced
<1>12. ASSUME NEW c \in Calls, ToolCallSent(c) PROVE TypeOK'
  BY <1>12 DEF ToolCallSent
<1>13. ASSUME NEW c \in Calls, SendFails(c) PROVE TypeOK'
  BY <1>13 DEF SendFails, Popped
<1>14. ASSUME NEW c \in Calls, Timeout(c) PROVE TypeOK'
  BY <1>14 DEF Timeout
<1>15. ASSUME NEW c \in Calls, TimeoutTraced(c) PROVE TypeOK'
  BY <1>15 DEF TimeoutTraced, Popped
<1>16. ASSUME NEW c \in Calls, Resume(c) PROVE TypeOK'
  BY <1>16 DEF Resume, Popped, AfterWait
<1>17. ASSUME NEW c \in Calls, Return(c) PROVE TypeOK'
  BY <1>17 DEF Return
<1>18. ASSUME NEW c \in Calls, Raise(c) PROVE TypeOK'
  BY <1>18 DEF Raise
<1>19. ASSUME NEW c \in Calls, Execute(c) PROVE TypeOK'
  BY <1>19 DEF Execute
<1>20. ASSUME NEW c \in Calls, ReceiveResult(c) PROVE TypeOK'
  BY <1>20 DEF ReceiveResult, Completes, ClientKnowsSent
<1>21. CASE UNCHANGED vars
  BY <1>21, SMTT(40) DEF vars
<1> QED
  BY <1>1, <1>2, <1>3, <1>4, <1>5, <1>6, <1>7, <1>8, <1>9, <1>10, <1>11, <1>12,
     <1>13, <1>14, <1>15, <1>16, <1>17, <1>18, <1>19, <1>20, <1>21
     DEF Next, ConnStep, CallStep

-----------------------------------------------------------------------------
(* Every step of Next preserves the inductive invariant.  An action that    *)
(* moves only the socket or the client leaves the table facts alone; those *)
(* that matter are Connect and Cleanup, which empty a table and resolve    *)
(* its Futures in one step, and the steps that pop a call.                 *)
LEMMA InvStep == IInv /\ [Next]_vars => IInv'
<1> USE KeyOfAssumption, NoConnAssumption
<1> SUFFICES ASSUME IInv, [Next]_vars PROVE IInv'
  OBVIOUS
<1>1. TypeOK'
  BY TypeStep DEF IInv
<1> USE DEF IInv, TypeOK, PendingInTry, WaitersReachable, PendingOnlyIfRegistered,
            RegisteredIsLive, FutureIsClientsAnswer, RunningHasBridge,
            ClientKnowsSent, IdleIsFresh
<1>2. ASSUME NEW b \in Conns, Connect(b) PROVE IInv'
  BY <1>1, <1>2, SMTT(40) DEF Connect, Cancelled, Emptied
<1>3. ASSUME NEW b \in Conns, StartServing(b) PROVE IInv'
  BY <1>1, <1>3 DEF StartServing
<1>4. ASSUME NEW b \in Conns, SetupFails(b) PROVE IInv'
  BY <1>1, <1>4 DEF SetupFails
<1>5. ASSUME NEW b \in Conns, PeerGone(b) PROVE IInv'
  BY <1>1, <1>5 DEF PeerGone
<1>6. ASSUME NEW b \in Conns, UpstreamEnds(b) PROVE IInv'
  BY <1>1, <1>6 DEF UpstreamEnds
<1>7. ASSUME NEW b \in Conns, Cleanup(b) PROVE IInv'
  <2>1. CASE bridges[KeyOf[b]] = b
    <3>1. /\ Retires(b) = b
          /\ bridges' = [bridges EXCEPT ![KeyOf[b]] = NoConn]
      BY <1>7, <2>1 DEF Cleanup, Retires
    <3> QED
      BY <1>1, <1>7, <2>1, <3>1 DEF Cleanup, Cancelled, Emptied
  <2>2. CASE bridges[KeyOf[b]] # b
    <3>1. /\ bridges' = bridges
          /\ fut' = fut
          /\ pending' = pending
      BY <1>7, <2>2 DEF Cleanup, Retires, Cancelled, Emptied
    <3> QED
      BY <1>1, <1>7, <2>2, <3>1 DEF Cleanup
  <2> QED
    BY <2>1, <2>2
<1>8. ASSUME NEW b \in Conns, DownstreamEnds(b) PROVE IInv'
  BY <1>1, <1>8 DEF DownstreamEnds
<1>9. ASSUME NEW b \in Conns, DownstreamFails(b) PROVE IInv'
  BY <1>1, <1>9 DEF DownstreamFails
<1>10. ASSUME NEW c \in Calls, NEW k \in Keys, CallRefused(c, k) PROVE IInv'
  BY <1>1, <1>10 DEF CallRefused
<1>11. ASSUME NEW c \in Calls, NEW k \in Keys, CallLocalTool(c, k) PROVE IInv'
  BY <1>1, <1>11 DEF CallLocalTool
<1>12. ASSUME NEW c \in Calls, StartTraced(c) PROVE IInv'
  BY <1>1, <1>12 DEF StartTraced
<1>13. ASSUME NEW c \in Calls, ToolCallSent(c) PROVE IInv'
  BY <1>1, <1>13 DEF ToolCallSent
<1>14. ASSUME NEW c \in Calls, SendFails(c) PROVE IInv'
  BY <1>1, <1>14 DEF SendFails, Popped
<1>15. ASSUME NEW c \in Calls, Timeout(c) PROVE IInv'
  BY <1>1, <1>15 DEF Timeout
<1>16. ASSUME NEW c \in Calls, TimeoutTraced(c) PROVE IInv'
  BY <1>1, <1>16 DEF TimeoutTraced, Popped
<1>17. ASSUME NEW c \in Calls, Resume(c) PROVE IInv'
  BY <1>1, <1>17 DEF Resume, Popped, AfterWait
<1>18. ASSUME NEW c \in Calls, Return(c) PROVE IInv'
  BY <1>1, <1>18 DEF Return
<1>19. ASSUME NEW c \in Calls, Raise(c) PROVE IInv'
  BY <1>1, <1>19 DEF Raise
<1>20. ASSUME NEW c \in Calls, Execute(c) PROVE IInv'
  BY <1>1, <1>20 DEF Execute
<1>21. ASSUME NEW c \in Calls, ReceiveResult(c) PROVE IInv'
  BY <1>1, <1>21 DEF ReceiveResult, Completes
<1>22. CASE UNCHANGED vars
  BY <1>22 DEF vars
<1> QED
  BY <1>2, <1>3, <1>4, <1>5, <1>6, <1>7, <1>8, <1>9, <1>10, <1>11, <1>12,
     <1>13, <1>14, <1>15, <1>16, <1>17, <1>18, <1>19, <1>20, <1>21, <1>22, SMTT(40)
     DEF Next, ConnStep, CallStep

LEMMA InitInv == Init => IInv
  BY KeyOfAssumption, NoConnAssumption
     DEF Init, IInv, TypeOK, PendingInTry, WaitersReachable, PendingOnlyIfRegistered,
         RegisteredIsLive, FutureIsClientsAnswer, RunningHasBridge,
         ClientKnowsSent, IdleIsFresh

(* IInv holds in every reachable state.                                    *)
THEOREM Invariance == Spec => []IInv
<1>1. Init => IInv
  BY InitInv
<1>2. IInv /\ [Next]_vars => IInv'
  BY InvStep
<1> QED
  BY <1>1, <1>2, PTL DEF Spec

-----------------------------------------------------------------------------
(* What the invariant gives. *)

(* Every variable keeps its type.                                          *)
THEOREM TypeCorrect == Spec => []TypeOK
<1>1. IInv => TypeOK
  BY DEF IInv
<1> QED
  BY <1>1, Invariance, PTL

(* call_tool never leaks an entry of pending_calls, on any way out.        *)
THEOREM NoLeakedCall == Spec => []PendingInTry
<1>1. IInv => PendingInTry
  BY DEF IInv
<1> QED
  BY <1>1, Invariance, PTL

(* No replacement or disconnect strands a call that waits for its answer.  *)
THEOREM NoStrandedWaiter == Spec => [](WaitersReachable /\ PendingOnlyIfRegistered)
<1>1. IInv => WaitersReachable /\ PendingOnlyIfRegistered
  BY DEF IInv
<1> QED
  BY <1>1, Invariance, PTL

(* get_bridge never finds the bridge of a handler that has cleaned up.     *)
THEOREM NoDeadBridge == Spec => []RegisteredIsLive
<1>1. IInv => RegisteredIsLive
  BY DEF IInv
<1> QED
  BY <1>1, Invariance, PTL

(* A result that is returned was reported by the client for that call.     *)
THEOREM AnswersAreGenuine == Spec => []FutureIsClientsAnswer
<1>1. IInv => FutureIsClientsAnswer
  BY DEF IInv
<1> QED
  BY <1>1, Invariance, PTL

-----------------------------------------------------------------------------
(* Action properties. *)

(* A resolved Future is never resolved again: all three ways to resolve    *)
(* one, and the timeout, look at its state first.                          *)
THEOREM ResolvedOnce == Spec => FutureResolvedOnce
<1>1. IInv /\ [Next]_vars => [\A c \in Calls : fut[c] # "pending" => fut'[c] = fut[c]]_vars
  <2> SUFFICES ASSUME IInv, Next, NEW c \in Calls, fut[c] # "pending"
               PROVE  fut'[c] = fut[c]
    OBVIOUS
  <2>1. fut \in [Calls -> FutStates]
    BY DEF IInv, TypeOK
  <2>2. ASSUME NEW b \in Conns, ConnStep(b) PROVE fut'[c] = fut[c]
    BY <2>1, <2>2 DEF ConnStep, Connect, StartServing, SetupFails, PeerGone,
       UpstreamEnds, DownstreamEnds, DownstreamFails, Cleanup, Cancelled
  <2>3. ASSUME NEW d \in Calls, NEW k \in Keys, CallRefused(d, k) \/ CallLocalTool(d, k)
        PROVE  fut'[c] = fut[c]
    BY <2>3 DEF CallRefused, CallLocalTool
  <2>4. ASSUME NEW d \in Calls, CallStep(d) PROVE fut'[c] = fut[c]
    BY <2>1, <2>4 DEF CallStep, StartTraced, ToolCallSent, SendFails, Timeout,
       TimeoutTraced, Resume, Return, Raise
  <2>5. ASSUME NEW d \in Calls, Execute(d) \/ ReceiveResult(d) PROVE fut'[c] = fut[c]
    BY <2>1, <2>5 DEF Execute, ReceiveResult, Completes
  <2> QED
    BY <2>2, <2>3, <2>4, <2>5 DEF Next
<1> QED
  BY <1>1, Invariance, PTL DEF Spec, FutureResolvedOnce

(* An answer that upstream() reads always completes a call that waits:     *)
(* the table it looks into is the one the call is in.                      *)
THEOREM AnswersAreNotSwallowed == Spec => AnswerReachesWaiter
<1>1. IInv /\ [Next]_vars =>
        [\A c \in results \ results' : pc[c] \in Asking => fut'[c] # "pending"]_vars
  <2> SUFFICES ASSUME IInv, Next, NEW c \in results, c \notin results', pc[c] \in Asking
               PROVE  fut'[c] # "pending"
    OBVIOUS
  <2>1. /\ c \in Calls
        /\ fut \in [Calls -> FutStates]
        /\ ran[c] \in {"ok", "error"}
    BY DEF IInv, TypeOK, ClientKnowsSent
  <2>2. ReceiveResult(c)
    BY <2>1 DEF Next, ConnStep, CallStep, Connect, StartServing, SetupFails, PeerGone,
       UpstreamEnds, DownstreamEnds, DownstreamFails, Cleanup, CallRefused,
       CallLocalTool, StartTraced, ToolCallSent, SendFails, Timeout, TimeoutTraced,
       Resume, Return, Raise, Execute, ReceiveResult
  <2>3. CASE fut[c] = "pending"
    <3>1. /\ via[c] \in Conns
          /\ bridges[KeyOf[via[c]]] = via[c]
          /\ c \in pending[via[c]]
      BY <2>1, <2>3 DEF IInv, RunningHasBridge, WaitersReachable
    <3>2. Completes(via[c], c)
      BY <2>3, <3>1, NoConnAssumption DEF Completes
    <3> QED
      BY <2>1, <2>2, <3>2 DEF ReceiveResult
  <2>4. CASE fut[c] # "pending"
    BY <2>1, <2>2, <2>4 DEF ReceiveResult
  <2> QED
    BY <2>3, <2>4
<1> QED
  BY <1>1, Invariance, PTL DEF Spec, AnswerReachesWaiter

(* Only its own handler's cleanup takes a registered bridge away.          *)
THEOREM CleanupIsGuarded == Spec => NewerBridgeSurvives
<1>1. IInv /\ [Next]_vars =>
        [\A k \in Keys, b \in Conns :
            bridges[k] = b /\ bridges'[k] = NoConn => handler'[b] = "gone"]_vars
  <2> SUFFICES ASSUME IInv, Next, NEW k \in Keys, NEW b \in Conns,
                      bridges[k] = b, bridges'[k] = NoConn
               PROVE  handler'[b] = "gone"
    OBVIOUS
  <2>1. /\ handler \in [Conns -> HandlerStates]
        /\ bridges \in [Keys -> Conns \cup {NoConn}]
        /\ KeyOf[b] = k
    BY NoConnAssumption DEF IInv, TypeOK, RegisteredIsLive
  <2>2. ASSUME NEW d \in Conns, Connect(d) PROVE FALSE
    BY <2>1, <2>2, NoConnAssumption, KeyOfAssumption DEF Connect
  <2>3. ASSUME NEW d \in Conns, Cleanup(d) PROVE handler'[b] = "gone"
    <3>1. bridges[KeyOf[d]] = d /\ KeyOf[d] = k
      BY <2>1, <2>3, NoConnAssumption, KeyOfAssumption DEF Cleanup, Retires
    <3> QED
      BY <2>1, <2>3, <3>1 DEF Cleanup
  <2>4. bridges' # bridges
    BY NoConnAssumption
  <2> QED
    BY <2>2, <2>3, <2>4
       DEF Next, ConnStep, CallStep, StartServing, SetupFails, PeerGone, UpstreamEnds,
       DownstreamEnds, DownstreamFails, CallRefused, CallLocalTool, StartTraced,
       ToolCallSent, SendFails, Timeout, TimeoutTraced, Resume, Return, Raise,
       Execute, ReceiveResult
<1> QED
  BY <1>1, Invariance, PTL DEF Spec, NewerBridgeSurvives

-----------------------------------------------------------------------------
(* Refinement. *)

(* The safety part of ImplementsToolCall: every step is a step of ToolCall *)
(* or leaves what the agent and Blender see unchanged.                     *)
THEOREM RefinesToolCall == Spec => TC!SafeSpec
<1> DEFINE outcome == [c \in Calls |-> OutcomeOf(pc[c])]
<1>1. Init => TC!Init
  BY DEF Init, TC!Init, OutcomeOf
<1>2. IInv /\ [Next]_vars => [TC!Next]_(TC!vars)
  <2> SUFFICES ASSUME IInv, [Next]_vars PROVE TC!Next \/ UNCHANGED TC!vars
    OBVIOUS
  <2> USE DEF TC!Next, TC!vars
  <2>0. /\ pc \in [Calls -> {"idle"} \cup Running \cup Ended]
        /\ ran \in [Calls -> {"no", "ok", "error"}]
        /\ fut \in [Calls -> FutStates]
    BY DEF IInv, TypeOK
  <2>1. ASSUME NEW b \in Conns, ConnStep(b) PROVE UNCHANGED TC!vars
    BY <2>1 DEF ConnStep, Connect, StartServing, SetupFails, PeerGone, UpstreamEnds,
       DownstreamEnds, DownstreamFails, Cleanup
  <2>2. ASSUME NEW c \in Calls, NEW k \in Keys, CallRefused(c, k) \/ CallLocalTool(c, k)
        PROVE  TC!Begin(c)
    <3>1. ran' = ran
      BY <2>2 DEF CallRefused, CallLocalTool
    <3>2. outcome[c] = "unused"
      BY <2>2 DEF CallRefused, CallLocalTool, OutcomeOf
    <3>3. CASE CallRefused(c, k)
      <4>1. outcome' = [outcome EXCEPT ![c] = "failed"]
        BY <2>0, <3>3 DEF CallRefused, OutcomeOf
      <4> QED
        BY <3>1, <3>2, <4>1 DEF TC!Begin
    <3>4. CASE CallLocalTool(c, k)
      <4>1. outcome' = [outcome EXCEPT ![c] = "open"]
        BY <2>0, <3>4 DEF CallLocalTool, OutcomeOf
      <4> QED
        BY <3>1, <3>2, <4>1 DEF TC!Begin
    <3> QED
      BY <2>2, <3>3, <3>4
  <2>3. ASSUME NEW c \in Calls, StartTraced(c) \/ ToolCallSent(c) \/ Timeout(c) \/ ReceiveResult(c)
        PROVE  UNCHANGED TC!vars
    BY <2>0, <2>3 DEF StartTraced, ToolCallSent, Timeout, ReceiveResult, OutcomeOf
  <2>4. ASSUME NEW c \in Calls, SendFails(c) \/ TimeoutTraced(c) \/ Raise(c)
        PROVE  TC!Fail(c)
    BY <2>0, <2>4, ZenonT(60) DEF SendFails, TimeoutTraced, Raise, TC!Fail, OutcomeOf
  <2>5. ASSUME NEW c \in Calls, Resume(c) PROVE TC!Fail(c) \/ UNCHANGED TC!vars
    BY <2>0, <2>5, ZenonT(60) DEF Resume, AfterWait, TC!Fail, OutcomeOf
  <2>6. ASSUME NEW c \in Calls, Return(c) PROVE TC!Succeed(c)
    BY <2>0, <2>6 DEF Return, TC!Succeed, OutcomeOf, IInv, FutureIsClientsAnswer
  <2>7. ASSUME NEW c \in Calls, Execute(c) PROVE TC!Run(c)
    <3>1. outcome[c] \in {"open", "failed"}
      BY <2>0, <2>7 DEF Execute, OutcomeOf, IInv, FutureIsClientsAnswer, ClientKnowsSent
    <3> QED
      BY <2>7, <3>1 DEF Execute, TC!Run
  <2> QED
    BY <2>1, <2>2, <2>3, <2>4, <2>5, <2>6, <2>7 DEF Next, CallStep, vars, clientVars
<1> QED
  BY <1>1, <1>2, Invariance, PTL DEF Spec, TC!SafeSpec

-----------------------------------------------------------------------------
(* The end of a call. *)

(* How many sends and waits are before the end of a call.                  *)
Left(p) == CASE p = "trace_start"               -> 5
             [] p = "send"                      -> 4
             [] p = "wait"                      -> 3
             [] p = "trace_timeout"             -> 2
             [] p \in {"trace_ok", "trace_error"} -> 1
             [] OTHER                           -> 0

(* What ToolCall's liveness rests on, without the fairness: a call that    *)
(* runs never starts anything over.  Each of its own steps takes it nearer *)
(* to its end, and nothing else (a connection, a replacement of its        *)
(* bridge, an answer that comes late) takes it farther away.               *)
CallsCountDown ==
  [][\A c \in Calls :
       pc[c] \in Running \cup Ended =>
         /\ Left(pc'[c]) <= Left(pc[c])
         /\ CallStep(c) => Left(pc'[c]) < Left(pc[c])]_vars

LEMMA LeftOf ==
  /\ Left("trace_start") = 5 /\ Left("send") = 4 /\ Left("wait") = 3
  /\ Left("trace_timeout") = 2 /\ Left("trace_ok") = 1 /\ Left("trace_error") = 1
  /\ Left("idle") = 0 /\ Left("returned") = 0 /\ Left("raised") = 0
BY DEF Left

LEMMA LeftIsNat == \A p \in {"idle"} \cup Running \cup Ended : Left(p) \in Nat
BY LeftOf DEF Running, InTry, Asking, Ended

(* One step of its own takes a call nearer to its end, and touches no      *)
(* other call.                                                             *)
LEMMA OwnStepCounts ==
  ASSUME IInv, NEW c \in Calls, CallStep(c)
  PROVE  /\ Left(pc'[c]) < Left(pc[c])
         /\ \A d \in Calls : d # c => pc'[d] = pc[d]
<1>1. pc \in [Calls -> {"idle"} \cup Running \cup Ended] /\ fut[c] \in FutStates
  BY DEF IInv, TypeOK
<1>2. CASE StartTraced(c)
  BY <1>1, <1>2, LeftOf DEF StartTraced
<1>3. CASE ToolCallSent(c)
  BY <1>1, <1>3, LeftOf DEF ToolCallSent
<1>4. CASE SendFails(c)
  BY <1>1, <1>4, LeftOf DEF SendFails
<1>5. CASE Timeout(c)
  BY <1>1, <1>5, LeftOf DEF Timeout
<1>6. CASE TimeoutTraced(c)
  BY <1>1, <1>6, LeftOf DEF TimeoutTraced
<1>7. CASE Resume(c)
  <2>1. AfterWait(fut[c]) \in {"trace_ok", "trace_error", "raised"}
    BY <1>7 DEF Resume, AfterWait
  <2>2. pc[c] = "wait" /\ pc'[c] = AfterWait(fut[c]) /\ \A d \in Calls : d # c => pc'[d] = pc[d]
    BY <1>1, <1>7 DEF Resume
  <2> QED
    BY <2>1, <2>2, LeftOf
<1>8. CASE Return(c)
  BY <1>1, <1>8, LeftOf DEF Return
<1>9. CASE Raise(c)
  BY <1>1, <1>9, LeftOf DEF Raise
<1> QED
  BY <1>2, <1>3, <1>4, <1>5, <1>6, <1>7, <1>8, <1>9 DEF CallStep

(* CallsCountDown: a call_tool that has begun takes at most five steps.    *)
THEOREM CallsRunOut == Spec => CallsCountDown
<1>1. ASSUME IInv, [Next]_vars
      PROVE  [\A c \in Calls : pc[c] \in Running \cup Ended =>
                 /\ Left(pc'[c]) <= Left(pc[c])
                 /\ CallStep(c) => Left(pc'[c]) < Left(pc[c])]_vars
  <2> SUFFICES ASSUME Next, NEW c \in Calls, pc[c] \in Running \cup Ended
               PROVE  /\ Left(pc'[c]) <= Left(pc[c])
                      /\ CallStep(c) => Left(pc'[c]) < Left(pc[c])
    BY <1>1
  <2>0. /\ pc \in [Calls -> {"idle"} \cup Running \cup Ended]
        /\ Left(pc[c]) \in Nat
    BY <1>1, LeftIsNat DEF IInv, TypeOK
  <2>1. IInv'
    BY <1>1, InvStep
  <2>2. Left(pc'[c]) \in Nat
    BY <2>1, LeftIsNat DEF IInv, TypeOK
  <2>3. CallStep(c) => Left(pc'[c]) < Left(pc[c])
    BY <1>1, OwnStepCounts
  <2>4. ASSUME NEW b \in Conns, ConnStep(b) PROVE pc' = pc
    BY <2>4 DEF ConnStep, Connect, StartServing, SetupFails, PeerGone, UpstreamEnds,
       DownstreamEnds, DownstreamFails, Cleanup
  <2>5. ASSUME NEW d \in Calls, NEW k \in Keys, CallRefused(d, k) \/ CallLocalTool(d, k)
        PROVE  pc'[c] = pc[c]
    <3>1. pc[d] = "idle" /\ d # c
      BY <2>5 DEF CallRefused, CallLocalTool, Running, InTry, Asking, Ended
    <3> QED
      BY <2>0, <2>5, <3>1 DEF CallRefused, CallLocalTool
  <2>6. ASSUME NEW d \in Calls, Execute(d) \/ ReceiveResult(d) PROVE pc' = pc
    BY <2>6 DEF Execute, ReceiveResult
  <2>7. ASSUME NEW d \in Calls, CallStep(d) PROVE Left(pc'[c]) <= Left(pc[c])
    <3>1. CASE d = c
      BY <2>0, <2>2, <2>3, <2>7, <3>1
    <3>2. CASE d # c
      BY <1>1, <2>0, <2>7, <3>2, OwnStepCounts
    <3> QED
      BY <3>1, <3>2
  <2> QED
    BY <2>0, <2>3, <2>4, <2>5, <2>6, <2>7 DEF Next
<1> QED
  BY <1>1, Invariance, PTL DEF Spec, CallsCountDown
=============================================================================
