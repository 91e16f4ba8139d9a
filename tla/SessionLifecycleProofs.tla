----------------------- MODULE SessionLifecycleProofs -----------------------
(***************************************************************************)
(* Proofs about SessionLifecycle, for any number of connections.           *)
(*                                                                         *)
(* The argument of IInv: because every attempt after the first takes a     *)
(* fresh session id, the key of a connection is its own number, and a      *)
(* table's entry under a key can only be that connection's.  It remains to *)
(* follow, table by table, in which stages of its handler an entry exists. *)
(* What is over stays so: the end of a client, and a leaked bridge.        *)
(***************************************************************************)
EXTENDS SessionLifecycle, TLAPS

(* The client's ids are fresh, so each connection has a key of its own.    *)
FreshKeys ==
  /\ sid = attempt
  /\ \A a \in Attempts : key[a] = a

(* What the client has not opened, the server has not seen.                *)
NotYetAccepted ==
  /\ \A a \in Attempts : a > attempt => stage[a] = "none"
  /\ phase \in {"starting", "trying"} => stage[attempt] = "none"

LoopsServe == \A a \in Attempts : loops[a] # {} => stage[a] = "serving"

(* The stages of its handler in which a table has an entry.                *)
HolderStages(t) ==
  CASE t = "bridge" -> {"registered", "serving", "leaving", "crashed"}
    [] t = "adk"    -> {"serving", "leaving", "released"}
    [] OTHER        -> {"serving", "leaving"}

OwnEntries ==
  \A t \in Tables, s \in Attempts :
    owner[t][s] # None => owner[t][s] = s /\ stage[s] \in HolderStages(t)

(* What a handler has entered is still there.                              *)
Entered ==
  /\ \A a \in Attempts : stage[a] \in {"registered", "serving"} => owner["bridge"][a] = a
  /\ \A a \in Attempts : stage[a] = "serving" => owner["gate"][a] = a /\ owner["adk"][a] = a

IInv == /\ TypeOK
        /\ FreshKeys
        /\ NotYetAccepted
        /\ LoopsServe
        /\ OwnEntries
        /\ Entered
        /\ ShownTruly

USE LifecycleAssumption
USE DEF Attempts, Phases, Stages, Tables, HolderStages

-----------------------------------------------------------------------------
(* Nothing owns more than IInv says: the two properties of the run follow. *)
LEMMA Consequences == IInv => ServingOwnsItsKey /\ NothingLeftBehind
<1> SUFFICES ASSUME IInv PROVE ServingOwnsItsKey /\ NothingLeftBehind
  OBVIOUS
<1>1. ServingOwnsItsKey
  BY DEF IInv, TypeOK, FreshKeys, OwnEntries, Entered, ServingOwnsItsKey
<1>2. NothingLeftBehind
  BY DEF IInv, TypeOK, OwnEntries, NothingLeftBehind
<1> QED
  BY <1>1, <1>2

(* The initial states have no entry and no open connection.                *)
LEMMA InitInv == Init => IInv
<1> SUFFICES ASSUME Init PROVE IInv
  OBVIOUS
<1>1. 1 \in Attempts
  OBVIOUS
<1>2. TypeOK
  BY <1>1 DEF Init, TypeOK
<1>3. FreshKeys /\ NotYetAccepted /\ LoopsServe /\ ShownTruly
  BY <1>1 DEF Init, FreshKeys, NotYetAccepted, LoopsServe, ShownTruly
<1>4. OwnEntries /\ Entered
  BY DEF Init, OwnEntries, Entered
<1> QED
  BY <1>2, <1>3, <1>4 DEF IInv

-----------------------------------------------------------------------------
(* A step of the client that leaves the server alone: it moves to the next *)
(* attempt only when there is one, and takes the next id with it.          *)
LEMMA ClientAlone ==
  ASSUME IInv, UNCHANGED serverVars,
         stopEvt' \in BOOLEAN, stopAsync' \in BOOLEAN, reconnect' \in BOOLEAN,
         link' \in [Attempts -> {"none", "open", "closed"}],
         connected' \in BOOLEAN,
         phase' \in Phases,
         connected' => phase' = "online",
         \/ /\ UNCHANGED <<sid, attempt>>
            /\ phase' \in {"starting", "trying"} => phase \in {"starting", "trying"}
         \/ Budget /\ sid' = sid + 1 /\ attempt' = attempt + 1
  PROVE  IInv'
<1>1. TypeOK'
  BY DEF IInv, TypeOK, FreshKeys, Budget, serverVars
<1>2. FreshKeys' /\ NotYetAccepted'
  BY DEF IInv, TypeOK, FreshKeys, NotYetAccepted, Budget, serverVars
<1>3. LoopsServe' /\ OwnEntries' /\ Entered' /\ ShownTruly'
  BY DEF IInv, LoopsServe, OwnEntries, Entered, ShownTruly, serverVars
<1> QED
  BY <1>1, <1>2, <1>3 DEF IInv

(* The head of the client's loop.                                          *)
LEMMA RoundStep ==
  ASSUME TypeOK, NextRound
  PROVE  \/ UNCHANGED <<sid, attempt>> /\ phase' = "ended"
         \/ Budget /\ sid' = sid + 1 /\ attempt' = attempt + 1 /\ phase' = "trying"
BY DEF NextRound, NextSession, StopSeen

(* A step in which the client opens a connection, which the server may     *)
(* accept under its fresh key.                                             *)
LEMMA AcceptStep ==
  ASSUME IInv, phase = "trying", Accept(attempt),
         UNCHANGED <<sid, attempt>>,
         stopEvt' \in BOOLEAN, stopAsync' \in BOOLEAN, reconnect' \in BOOLEAN,
         link' \in [Attempts -> {"none", "open", "closed"}],
         connected' \in BOOLEAN,
         phase' \in Phases \ {"starting", "trying"},
         connected' => phase' = "online"
  PROVE  IInv'
<1>1. attempt \in Attempts /\ sid = attempt /\ stage[attempt] = "none"
  BY DEF IInv, TypeOK, FreshKeys, NotYetAccepted
<1>2. TypeOK'
  BY <1>1 DEF IInv, TypeOK, Accept
<1>3. FreshKeys' /\ NotYetAccepted'
  BY <1>1 DEF IInv, TypeOK, FreshKeys, NotYetAccepted, Accept
<1>4. LoopsServe' /\ ShownTruly'
  BY <1>1 DEF IInv, TypeOK, LoopsServe, ShownTruly, Accept
<1>5. OwnEntries' /\ Entered'
  BY <1>1 DEF IInv, TypeOK, OwnEntries, Entered, Accept
<1> QED
  BY <1>2, <1>3, <1>4, <1>5 DEF IInv

-----------------------------------------------------------------------------
(* The steps of the client.                                                *)
LEMMA ClientInv ==
  ASSUME IInv,
         ClientStep \/ AudioFails \/ UserStops \/ StopReturns \/ UserReconnects
  PROVE  IInv'
<1> USE DEF clientVars
<1>0. TypeOK /\ ShownTruly
  BY DEF IInv
<1>1. CASE ThreadStarts
  BY <1>0, <1>1, ClientAlone DEF ThreadStarts, TypeOK, ShownTruly
<1>2. CASE UserStops
  BY <1>0, <1>2, ClientAlone DEF UserStops, TypeOK, ShownTruly
<1>3. CASE StopReturns
  BY <1>0, <1>3, ClientAlone DEF StopReturns, TypeOK, ShownTruly
<1>4. CASE UserReconnects
  BY <1>0, <1>4, ClientAlone DEF UserReconnects, TypeOK, ShownTruly
<1>5. CASE AudioFails
  BY <1>0, <1>5, ClientAlone DEF AudioFails, ShownAfter, TypeOK, ShownTruly
<1>6. CASE ConnectRejected
  BY <1>0, <1>6, ClientAlone DEF ConnectRejected, ShownAfter, TypeOK, ShownTruly
<1>7. CASE ConnectSucceeds
  BY <1>0, <1>7, AcceptStep DEF ConnectSucceeds, TypeOK, ShownTruly
<1>8. CASE ConnectFails
  <2>1. CASE UNCHANGED <<link, serverVars>>
    BY <1>0, <1>8, <2>1, ClientAlone DEF ConnectFails, AfterError, TypeOK, ShownTruly
  <2>2. CASE Accept(attempt) /\ link' = [link EXCEPT ![attempt] = "closed"]
    BY <1>0, <1>8, <2>2, AcceptStep DEF ConnectFails, AfterError, TypeOK, ShownTruly
  <2> QED
    BY <1>8, <2>1, <2>2 DEF ConnectFails
<1>9. CASE Woken
  BY <1>0, <1>9, ClientAlone, RoundStep DEF Woken, TypeOK, ShownTruly
<1>10. CASE phase = "online" /\ LeaveConnection
  <2>1. /\ UNCHANGED <<stopEvt, stopAsync, reconnect, serverVars>>
        /\ link' = [link EXCEPT ![attempt] = "closed"]
    BY <1>10 DEF LeaveConnection
  <2>2. CASE NextRound /\ connected' = ShownAfter
    BY <1>0, <2>1, <2>2, ClientAlone, RoundStep DEF ShownAfter, TypeOK
  <2>3. CASE AfterError /\ connected' = FALSE
    BY <1>0, <2>1, <2>3, ClientAlone DEF AfterError, TypeOK
  <2> QED
    BY <1>10, <2>2, <2>3 DEF LeaveConnection
<1> QED
  BY <1>1, <1>2, <1>3, <1>4, <1>5, <1>6, <1>7, <1>8, <1>9, <1>10
     DEF ClientStep, Connects, WatcherCloses, SendersStop, LinkLost

(* The steps of a handler, and of the network.                             *)
LEMMA HandlerInv ==
  ASSUME IInv, NEW a \in Attempts, HandlerStep(a) \/ NetworkDrops(a)
  PROVE  IInv'
<1> USE DEF IInv, TypeOK, FreshKeys, NotYetAccepted, LoopsServe, OwnEntries, Entered,
            ShownTruly, clientVars, serverVars
<1>1. CASE NetworkDrops(a)
  BY <1>1 DEF NetworkDrops
<1>2. CASE RegisterBridge(a)
  BY <1>2 DEF RegisterBridge, GoTo
<1>3. CASE SetupFails(a)
  BY <1>3 DEF SetupFails, GoTo
<1>4. CASE Setup(a)
  <2>1. /\ stage[a] = "registered" /\ stage' = [stage EXCEPT ![a] = "serving"]
        /\ loops' = [loops EXCEPT ![a] = {"up", "down"}]
        /\ UNCHANGED <<clientVars, link, key>>
        /\ key[a] = a
    BY <1>4 DEF Setup, GoTo
  <2>2. OrExisting("adk", a) = a
    BY <2>1 DEF OrExisting
  <2>3. /\ owner' \in [Tables -> [Attempts -> Attempts \cup {None}]]
        /\ owner'["adk"][a] = a /\ owner'["gate"][a] = a
        /\ owner'["bridge"][a] = owner["bridge"][a]
        /\ \A t \in Tables, s \in Attempts : s # a => owner'[t][s] = owner[t][s]
        /\ \A t \in Tables : owner'[t][a] \in {owner[t][a], a}
    <3>1. owner' = [owner EXCEPT !["adk"][a] = a, !["gate"][a] = a]
      BY <1>4, <2>1, <2>2 DEF Setup
    <3>2. \A t \in Tables :
            owner'[t] = IF t \in {"adk", "gate"} THEN [owner[t] EXCEPT ![a] = a] ELSE owner[t]
      BY <3>1
    <3>3. owner' \in [Tables -> [Attempts -> Attempts \cup {None}]]
      BY <3>2, <3>1, ZenonT(60)
    <3>4. \A t \in Tables, s \in Attempts : s # a => owner'[t][s] = owner[t][s]
      BY <3>2
    <3>5. \A t \in Tables : owner'[t][a] = IF t \in {"adk", "gate"} THEN a ELSE owner[t][a]
      BY <3>2
    <3> QED
      BY <3>3, <3>4, <3>5
  <2> QED
    BY <2>1, <2>3
<1>5. CASE CursorArrives(a)
  BY <1>5 DEF CursorArrives
<1>6. CASE ToolBuilds(a)
  BY <1>6 DEF ToolBuilds, OrExisting
<1>7. CASE UpstreamEnds(a)
  BY <1>7 DEF UpstreamEnds
<1>8. CASE DownstreamEnds(a)
  <2>1. /\ link' \in [Attempts -> {"none", "open", "closed"}]
        /\ loops' = [loops EXCEPT ![a] = @ \ {"down"}]
        /\ loops[a] # {}
        /\ UNCHANGED <<clientVars, stage, key, owner>>
    <3>1. CASE UNCHANGED link
      BY <1>8, <3>1 DEF DownstreamEnds
    <3>2. CASE link' = [link EXCEPT ![a] = "closed"]
      BY <1>8, <3>2 DEF DownstreamEnds
    <3> QED
      BY <1>8, <3>1, <3>2 DEF DownstreamEnds
  <2> QED
    BY <2>1
<1>9. CASE CleanupBegins(a)
  BY <1>9 DEF CleanupBegins, GoTo
<1>10. CASE CleanupReleases(a)
  <2>1. /\ stage[a] = "leaving" /\ stage' = [stage EXCEPT ![a] = "released"]
        /\ UNCHANGED <<clientVars, link, key, loops>>
        /\ key[a] = a
    BY <1>10 DEF CleanupReleases, GoTo
  <2>2. \A t \in Tables, s \in Attempts :
          owner'[t][s] = IF s = a /\ (t \in {"gate", "cursor", "registry"}
                                        \/ (t = "bridge" /\ owner[t][s] = a))
                           THEN None ELSE owner[t][s]
    BY <1>10, <2>1 DEF CleanupReleases, Released
  <2>3. owner' \in [Tables -> [Attempts -> Attempts \cup {None}]]
    BY <1>10, <2>1 DEF CleanupReleases, Released
  <2>4. OwnEntries'
    BY <2>1, <2>2
  <2> QED
    BY <2>1, <2>2, <2>3, <2>4
<1>11. CASE DeleteSession(a)
  BY <1>11 DEF DeleteSession, GoTo
<1> QED
  BY <1>1, <1>2, <1>3, <1>4, <1>5, <1>6, <1>7, <1>8, <1>9, <1>10, <1>11 DEF HandlerStep

(* Every step of Next preserves the inductive invariant.                   *)
LEMMA InvStep == IInv /\ [Next]_vars => IInv'
<1> SUFFICES ASSUME IInv, [Next]_vars PROVE IInv'
  OBVIOUS
<1>1. CASE UNCHANGED vars
  BY <1>1 DEF vars, clientVars, serverVars, IInv, TypeOK, FreshKeys, NotYetAccepted,
              LoopsServe, OwnEntries, Entered, ShownTruly
<1> QED
  BY <1>1, ClientInv, HandlerInv DEF Next

-----------------------------------------------------------------------------
(* The theorems, for every number of connections *)

(* The inductive invariant holds in every reachable state.                 *)
THEOREM Invariance == Spec => []IInv
<1>1. Init => IInv
  BY InitInv
<1>2. IInv /\ [Next]_vars => IInv'
  BY InvStep
<1> QED
  BY <1>1, <1>2, PTL DEF Spec

(* Every variable keeps its type; the session id is always one of ours.    *)
THEOREM TypeCorrect == Spec => []TypeOK
<1>1. IInv => TypeOK
  BY DEF IInv
<1> QED
  BY <1>1, Invariance, PTL

(* A serving handler finds its own bridge, gate and session under its key, *)
(* and no other's cursor or parts, whatever late cleanups do.              *)
THEOREM ServingSafe == Spec => []ServingOwnsItsKey
<1>1. IInv => ServingOwnsItsKey
  BY Consequences
<1> QED
  BY <1>1, Invariance, PTL

(* Only a setup that failed leaves an entry of a table behind.             *)
THEOREM NoLeaks == Spec => []NothingLeftBehind
<1>1. IInv => NothingLeftBehind
  BY Consequences
<1> QED
  BY <1>1, Invariance, PTL

(* The window does not say Connected of a session that is over.            *)
THEOREM WindowTruthful == Spec => []ShownTruly
<1>1. IInv => ShownTruly
  BY DEF IInv
<1> QED
  BY <1>1, Invariance, PTL

(* No two connections share a session id: what the tables, of which only   *)
(* the bridge's looks at whose entry it takes away, rely on.               *)
KeysAreFresh ==
  \A a, b \in Attempts : stage[a] # "none" /\ stage[b] # "none" /\ key[a] = key[b] => a = b

(* KeysAreFresh: every connection of the client has a key of its own.      *)
THEOREM NoSharedKey == Spec => []KeysAreFresh
<1>1. IInv => KeysAreFresh
  BY DEF IInv, FreshKeys, KeysAreFresh
<1> QED
  BY <1>1, Invariance, PTL

(* A bridge that a failed setup left in its table stays there for good: no *)
(* later connection has its key, and no handler is left to take it away.   *)
CrashedBridgeStays ==
  [][\A a \in Attempts :
       stage[a] = "crashed" => stage'[a] = "crashed" /\ owner'["bridge"][a] = owner["bridge"][a]]_vars

(* CrashedBridgeStays: what a failed setup leaves behind is never cleaned  *)
(* up.                                                                     *)
THEOREM LeakIsForGood == Spec => CrashedBridgeStays
<1>1. ASSUME IInv, [Next]_vars, NEW a \in Attempts, stage[a] = "crashed"
      PROVE  stage'[a] = "crashed" /\ owner'["bridge"][a] = owner["bridge"][a]
  <2>0. /\ TypeOK /\ (\A c \in Attempts : key[c] = c) /\ loops[a] = {}
        /\ phase = "trying" => attempt # a
    BY <1>1 DEF IInv, FreshKeys, LoopsServe, NotYetAccepted
  <2>1. CASE UNCHANGED vars
    BY <1>1, <2>1 DEF vars, serverVars
  <2>2. CASE ClientStep \/ AudioFails \/ UserStops \/ StopReturns \/ UserReconnects
    <3>1. owner' = owner
      BY <2>2 DEF ClientStep, Connects, ThreadStarts, ConnectSucceeds, ConnectFails,
                  ConnectRejected, Accept, WatcherCloses, SendersStop, LinkLost,
                  LeaveConnection, Woken, AudioFails, UserStops, StopReturns,
                  UserReconnects, serverVars
    <3>2. stage' = stage \/ (phase = "trying" /\ stage' = [stage EXCEPT ![attempt] = "accepted"])
      BY <2>2 DEF ClientStep, Connects, ThreadStarts, ConnectSucceeds, ConnectFails,
                  ConnectRejected, Accept, WatcherCloses, SendersStop, LinkLost,
                  LeaveConnection, Woken, AudioFails, UserStops, StopReturns,
                  UserReconnects, serverVars
    <3> QED
      BY <1>1, <2>0, <3>1, <3>2 DEF TypeOK
  <2>3. ASSUME NEW c \in Attempts, NetworkDrops(c) \/ HandlerStep(c)
        PROVE  stage'[a] = "crashed" /\ owner'["bridge"][a] = owner["bridge"][a]
    <3>1. CASE c = a
      BY <1>1, <2>0, <2>3, <3>1
         DEF NetworkDrops, HandlerStep, RegisterBridge, SetupFails, Setup, CursorArrives,
             ToolBuilds, UpstreamEnds, DownstreamEnds, CleanupBegins, CleanupReleases,
             DeleteSession, GoTo, serverVars
    <3>2. CASE c # a
      <4>1. stage'[a] = "crashed"
        BY <1>1, <2>0, <2>3, <3>2
           DEF NetworkDrops, HandlerStep, RegisterBridge, SetupFails, Setup, CursorArrives,
               ToolBuilds, UpstreamEnds, DownstreamEnds, CleanupBegins, CleanupReleases,
               DeleteSession, GoTo, TypeOK, serverVars
      <4>2. owner'["bridge"][a] = owner["bridge"][a]
        <5>1. CASE CleanupReleases(c)
          BY <2>0, <3>2, <5>1 DEF CleanupReleases, Released, TypeOK
        <5>2. CASE RegisterBridge(c) \/ Setup(c) \/ DeleteSession(c) \/ CursorArrives(c)
                   \/ ToolBuilds(c)
          BY <2>0, <3>2, <5>2
             DEF RegisterBridge, Setup, DeleteSession, CursorArrives, ToolBuilds, TypeOK
        <5>3. CASE NetworkDrops(c) \/ SetupFails(c) \/ UpstreamEnds(c) \/ DownstreamEnds(c)
                   \/ CleanupBegins(c)
          BY <5>3 DEF NetworkDrops, SetupFails, UpstreamEnds, DownstreamEnds, CleanupBegins,
                      serverVars
        <5> QED
          BY <2>3, <5>1, <5>2, <5>3 DEF HandlerStep
      <4> QED
        BY <4>1, <4>2
    <3> QED
      BY <3>1, <3>2
  <2> QED
    BY <1>1, <2>1, <2>2, <2>3 DEF Next
<1>2. ASSUME IInv, [Next]_vars
      PROVE  [\A a \in Attempts :
                stage[a] = "crashed" =>
                  stage'[a] = "crashed" /\ owner'["bridge"][a] = owner["bridge"][a]]_vars
  BY <1>1, <1>2
<1> QED
  BY <1>2, Invariance, PTL DEF Spec, CrashedBridgeStays

-----------------------------------------------------------------------------
(* Stopping *)

(* How many steps the client's thread can still take once it is stopped.   *)
StepsLeft(p) ==
  CASE p = "starting"               -> 3
    [] p = "trying"                 -> 2
    [] p \in {"online", "waiting"} -> 1
    [] OTHER                        -> 0

(* After stop() the client opens no further connection, and each step it   *)
(* takes brings it nearer to its end: what StopIsObeyed needs besides the  *)
(* client's fairness.                                                      *)
StopCountsDown ==
  [][stopEvt => /\ stopEvt' /\ UNCHANGED <<attempt, sid>>
                /\ StepsLeft(phase') <= StepsLeft(phase)
                /\ \/ ~ClientStep
                   \/ StepsLeft(phase') < StepsLeft(phase)]_vars

(* StopCountsDown: a stopped client takes at most three more steps.        *)
THEOREM StopIsFinal == Spec => StopCountsDown
<1>1. ASSUME IInv, [Next]_vars, stopEvt
      PROVE  /\ stopEvt' /\ UNCHANGED <<attempt, sid>>
             /\ StepsLeft(phase') <= StepsLeft(phase)
             /\ \/ ~ClientStep \/ UNCHANGED vars
                \/ StepsLeft(phase') < StepsLeft(phase)
  <2>0. phase \in Phases
    BY <1>1 DEF IInv, TypeOK
  <2>3. /\ StepsLeft("starting") = 3 /\ StepsLeft("trying") = 2
        /\ StepsLeft("online") = 1 /\ StepsLeft("waiting") = 1
        /\ StepsLeft("ended") = 0 /\ StepsLeft("dead") = 0
    BY DEF StepsLeft
  <2>4. StepsLeft(phase) \in Nat
    BY <2>0, <2>3
  <2>1. CASE ClientStep
    <3>1. NextRound \/ AfterError => phase' = "ended" /\ UNCHANGED <<attempt, sid>>
      BY <1>1 DEF NextRound, AfterError, StopSeen
    <3>2. CASE ThreadStarts
      BY <1>1, <2>3, <3>2 DEF ThreadStarts, StopSeen
    <3>3. CASE Connects
      <4>1. /\ phase = "trying" /\ phase' \in {"online", "ended", "dead"}
            /\ stopEvt' = stopEvt /\ UNCHANGED <<attempt, sid>>
        BY <1>1, <3>1, <3>3 DEF Connects, ConnectSucceeds, ConnectFails, ConnectRejected
      <4> QED
        BY <1>1, <2>3, <4>1
    <3>4. CASE WatcherCloses \/ SendersStop \/ LinkLost \/ Woken
      <4>1. /\ phase \in {"online", "waiting"} /\ phase' = "ended"
            /\ stopEvt' = stopEvt /\ UNCHANGED <<attempt, sid>>
        BY <1>1, <3>1, <3>4
           DEF WatcherCloses, SendersStop, LinkLost, Woken, LeaveConnection
      <4> QED
        BY <1>1, <2>3, <4>1
    <3> QED
      BY <2>1, <3>2, <3>3, <3>4 DEF ClientStep
  <2>2. CASE ~ClientStep
    <3>1. CASE AudioFails
      BY <1>1, <2>2, <2>3, <3>1 DEF AudioFails
    <3>2. CASE UserStops \/ StopReturns \/ UserReconnects
      <4>1. stopEvt' = stopEvt /\ UNCHANGED <<attempt, sid, phase>>
        BY <1>1, <3>2 DEF UserStops, StopReturns, UserReconnects
      <4> QED
        BY <1>1, <2>2, <2>4, <4>1
    <3>3. CASE UNCHANGED clientVars
      BY <1>1, <2>2, <2>4, <3>3 DEF clientVars
    <3>4. UNCHANGED clientVars \/ AudioFails \/ UserStops \/ StopReturns \/ UserReconnects
      BY <1>1, <2>2
         DEF Next, vars, NetworkDrops, HandlerStep, RegisterBridge, SetupFails, Setup,
             CursorArrives, ToolBuilds, UpstreamEnds, DownstreamEnds, CleanupBegins,
             CleanupReleases, DeleteSession
    <3> QED
      BY <3>1, <3>2, <3>3, <3>4
  <2> QED
    BY <2>1, <2>2
<1> QED
  BY <1>1, Invariance, PTL DEF Spec, StopCountsDown

(* A thread that has ended stays so, and the window does not say Connected *)
(* again.                                                                  *)
EndIsFinal ==
  [][phase = "ended" \/ phase = "dead" => phase' = phase /\ ~connected']_vars

(* EndIsFinal: nothing brings a client back that has ended, not even       *)
(* Reconnect.                                                              *)
THEOREM EndedForGood == Spec => EndIsFinal
<1>1. ASSUME IInv, IInv', [Next]_vars, phase = "ended" \/ phase = "dead"
      PROVE  phase' = phase /\ ~connected'
  <2>1. phase' = phase
    BY <1>1
       DEF Next, vars, clientVars, ClientStep, Connects, ThreadStarts, ConnectSucceeds,
           ConnectFails, ConnectRejected, WatcherCloses, SendersStop, LinkLost, Woken,
           AudioFails, UserStops, StopReturns, UserReconnects, NetworkDrops, HandlerStep,
           RegisterBridge, SetupFails, Setup, CursorArrives, ToolBuilds, UpstreamEnds,
           DownstreamEnds, CleanupBegins, CleanupReleases, DeleteSession
  <2> QED
    BY <1>1, <2>1 DEF IInv, ShownTruly
<1> QED
  BY <1>1, Invariance, PTL DEF Spec, EndIsFinal

(* A request to reconnect is not lost: while the client is online it stays *)
(* set, and the client's next step leaves the connection, for a new        *)
(* session or for the pause; what follows the pause is a new session, or   *)
(* the end.  It is what ReconnectHonoured needs besides the fairness.      *)
RequestIsKept ==
  [][/\ \/ ~(phase = "online" /\ reconnect)
        \/ phase' = "online" /\ reconnect' /\ sid' = sid /\ ~ClientStep
        \/ phase' = "trying" /\ sid' = sid + 1
        \/ phase' \in {"waiting", "ended", "dead"}
     /\ \/ phase # "waiting"
        \/ phase' = "waiting" /\ sid' = sid /\ ~ClientStep
        \/ phase' = "trying" /\ sid' = sid + 1
        \/ phase' = "ended"]_vars

(* RequestIsKept: Reconnect, pressed while online, gives up the session.   *)
THEOREM ReconnectIsKept == Spec => RequestIsKept
<1> DEFINE Kept == /\ \/ ~(phase = "online" /\ reconnect)
                      \/ phase' = "online" /\ reconnect' /\ sid' = sid /\ ~ClientStep
                      \/ phase' = "trying" /\ sid' = sid + 1
                      \/ phase' \in {"waiting", "ended", "dead"}
                   /\ \/ phase # "waiting"
                      \/ phase' = "waiting" /\ sid' = sid /\ ~ClientStep
                      \/ phase' = "trying" /\ sid' = sid + 1
                      \/ phase' = "ended"
<1>1. ASSUME [Next]_vars PROVE [Kept]_vars
  <2>1. NextRound => phase' = "ended" \/ (phase' = "trying" /\ sid' = sid + 1)
    BY DEF NextRound, NextSession
  <2>2. AfterError => phase' = "ended" \/ phase' = "waiting"
    BY DEF AfterError
  <2>3. CASE WatcherCloses \/ SendersStop \/ LinkLost
    <3>1. phase = "online" /\ (NextRound \/ AfterError)
      BY <2>3 DEF WatcherCloses, SendersStop, LinkLost, LeaveConnection
    <3> QED
      BY <2>1, <2>2, <3>1
  <2>4. CASE Woken
    BY <2>1, <2>4 DEF Woken
  <2>5. CASE ThreadStarts \/ Connects
    BY <2>5 DEF ThreadStarts, Connects, ConnectSucceeds, ConnectFails, ConnectRejected
  <2>6. CASE AudioFails
    BY <2>6 DEF AudioFails
  <2>7. CASE ~ClientStep /\ UNCHANGED <<phase, sid>> /\ (reconnect => reconnect')
    BY <2>7
  <2>8. \/ ClientStep \/ AudioFails \/ UNCHANGED vars
        \/ UNCHANGED <<phase, sid>> /\ (reconnect => reconnect')
    BY <1>1
       DEF Next, UserStops, StopReturns, UserReconnects, NetworkDrops, HandlerStep,
           RegisterBridge, SetupFails, Setup, CursorArrives, ToolBuilds, UpstreamEnds,
           DownstreamEnds, CleanupBegins, CleanupReleases, DeleteSession, clientVars
  <2> QED
    BY <2>3, <2>4, <2>5, <2>6, <2>7, <2>8 DEF ClientStep
<1> QED
  BY <1>1, PTL DEF Spec, RequestIsKept
=============================================================================
