-------------------------- MODULE AudioGateProofs --------------------------
(***************************************************************************)
(* Proofs about AudioGate, for any number of handoffs, of chunks and of    *)
(* contents: both ends of the gate agree and the client is never left mute,*)
(* only the latest handoff's timer reopens, and clearing the backlog takes *)
(* all the audio out of the queue and nothing else.                        *)
(*                                                                         *)
(* drop_realtime_backlog is a recursive function.  What it computes is     *)
(* shown by induction on the requests it has looked at, with the induction *)
(* step stated over sets (a set of numbers that holds 0 and the successor  *)
(* of each member holds them all), since the provers cannot instantiate a  *)
(* predicate.                                                              *)
(***************************************************************************)
EXTENDS AudioGate, WellFoundedInduction, TLAPS

(* The timers that may still fire: only that of the latest handoff, and the*)
(* gate knows its name, so that the next handoff, or the end of the        *)
(* connection, can cancel it.                                              *)
OneTimer ==
  \A h \in Handoffs :
    task[h] = "sleeping" => /\ reopenTask = h
                            /\ \A g \in Handoffs : g > h => task[g] = "unborn"

(* Handoffs come one after another.                                        *)
InTurn ==
  \A h \in Handoffs, g \in Handoffs : g < h /\ task[g] = "unborn" => task[h] = "unborn"

(* The gate outlives its socket.                                           *)
Bound == linked => registered

GateInv ==
  /\ allow \in BOOLEAN
  /\ reopenTask \in 0 .. MaxHandoffs
  /\ task \in [Handoffs -> TaskStates]
  /\ toClient \in Seq({"closed", "open"})
  /\ clientOpen \in BOOLEAN
  /\ OneTimer
  /\ InTurn
  /\ Bound
  /\ GatesAgree

LEMMA NumbersOfHandoffs == Handoffs \subseteq Nat \ {0} /\ MaxHandoffs \in Nat
BY BoundsAssumption DEF Handoffs

LEMMA InitGateInv == Init => GateInv
BY NumbersOfHandoffs
   DEF Init, GateInv, OneTimer, InTurn, Bound, GatesAgree, ClientView, TaskStates, Handoffs

(* A frame that was sent is what the client will believe in the end.       *)
LEMMA FrameIsLast ==
  ASSUME toClient \in Seq({"closed", "open"}), NEW frame \in {"closed", "open"},
         linked, toClient' = Sent(frame)
  PROVE  /\ toClient' \in Seq({"closed", "open"})
         /\ ClientView' = (frame = "open")
BY DEF Sent, ClientView

(* Handling a frame does not change what the client will believe.          *)
LEMMA HandlingKeepsTheView ==
  ASSUME toClient \in Seq({"closed", "open"}), HandleAudioGate
  PROVE  /\ toClient' \in Seq({"closed", "open"})
         /\ clientOpen' \in BOOLEAN
         /\ ClientView' = ClientView
<1>1. toClient # <<>> /\ toClient' = Tail(toClient) /\ clientOpen' = (Head(toClient) = "open")
  BY DEF HandleAudioGate
<1>2. CASE Len(toClient) = 1
  <2>1. toClient' = <<>> /\ toClient[Len(toClient)] = Head(toClient)
    BY <1>1, <1>2
  <2> QED BY <1>1, <2>1 DEF ClientView
<1>3. CASE Len(toClient) > 1
  <2>1. /\ toClient' # <<>>
        /\ toClient' \in Seq({"closed", "open"})
        /\ toClient'[Len(toClient')] = toClient[Len(toClient)]
    <3>1. toClient' \in Seq({"closed", "open"}) /\ Len(toClient') = Len(toClient) - 1
      BY <1>1
    <3>2. \A i \in 1 .. Len(toClient) - 1 : toClient'[i] = toClient[i + 1]
      BY <1>1
    <3> QED BY <1>3, <3>1, <3>2
  <2> QED BY <1>1, <2>1 DEF ClientView
<1>4. Len(toClient) \in Nat /\ Len(toClient) # 0
  BY <1>1
<1>5. Len(toClient) = 1 \/ Len(toClient) > 1
  <2>1. \A n \in Nat : n # 0 => n = 1 \/ n > 1
    OBVIOUS
  <2> QED BY <1>4, <2>1, Zenon
<1> QED BY <1>2, <1>3, <1>5

(* Clearing the gate leaves no timer.                                      *)
LEMMA ClearingCancels ==
  ASSUME GateInv, registered, ClearGate
  PROVE  /\ allow' = TRUE
         /\ reopenTask' \in 0 .. MaxHandoffs
         /\ task' \in [Handoffs -> TaskStates]
         /\ OneTimer'
         /\ InTurn'
BY NumbersOfHandoffs
   DEF GateInv, ClearGate, CancelPrevious, OneTimer, InTurn, TaskStates

LEMMA NextGateInv == GateInv /\ [Next]_vars => GateInv'
<1> SUFFICES ASSUME GateInv, [Next]_vars PROVE GateInv'
  OBVIOUS
<1> USE DEF GateInv, OneTimer, InTurn, Bound, GatesAgree
<1>1. CASE SendContent \/ Consume \/ Capture \/ MicSend \/ UpstreamAudio
  BY <1>1 DEF SendContent, Consume, Capture, MicSend, UpstreamAudio, gateVars,
              clientVars, queueVars, ClientView
<1>2. ASSUME NEW h \in Handoffs, Handoff(h) PROVE GateInv'
  <2>1. task' \in [Handoffs -> TaskStates] /\ reopenTask' \in 0 .. MaxHandoffs
    BY <1>2, NumbersOfHandoffs DEF Handoff, CancelPrevious, TaskStates, Handoffs
  <2>2. OneTimer'
    <3>1. \A g \in Handoffs : g # h => task'[g] # "sleeping"
      BY <1>2 DEF Handoff, CancelPrevious
    <3>2. \A g \in Handoffs : g > h => task[g] = "unborn"
      BY <1>2 DEF Handoff
    <3>3. reopenTask' = h
      BY <1>2 DEF Handoff
    <3> QED BY <3>1, <3>2, <3>3, <1>2, NumbersOfHandoffs DEF Handoff, CancelPrevious
  <2>4. InTurn'
    <3>1. \A g \in Handoffs : task'[g] = "unborn" => task[g] = "unborn" /\ g # h
      BY <1>2 DEF Handoff, CancelPrevious
    <3>2. \A g \in Handoffs : g < h => task[g] # "unborn"
      BY <1>2, NumbersOfHandoffs DEF Handoff, Handoffs
    <3>3. \A g \in Handoffs : g > h => task'[g] = "unborn"
      <4>1. \A g \in Handoffs : g > h => task[g] = "unborn"
        BY <1>2, NumbersOfHandoffs DEF Handoff
      <4> QED BY <4>1, <1>2, NumbersOfHandoffs DEF Handoff, CancelPrevious
    <3> QED BY <3>1, <3>2, <3>3, NumbersOfHandoffs
  <2>3. toClient' \in Seq({"closed", "open"}) /\ (linked => ClientView' = FALSE)
    BY <1>2, FrameIsLast DEF Handoff, Sent
  <2> QED BY <1>2, <2>1, <2>2, <2>3, <2>4 DEF Handoff
<1>3. ASSUME NEW h \in Handoffs, Reopen(h) PROVE GateInv'
  <2>1. task' \in [Handoffs -> TaskStates] /\ reopenTask' \in 0 .. MaxHandoffs
    BY <1>3, NumbersOfHandoffs DEF Reopen, TaskStates
  <2>2. OneTimer' /\ InTurn'
    BY <1>3 DEF Reopen
  <2>3. toClient' \in Seq({"closed", "open"})
    BY <1>3, FrameIsLast DEF Reopen, ReopenFrames, Sent
  <2>4. linked => ClientView' = TRUE /\ allow'
    BY <1>3, FrameIsLast DEF Reopen, ReopenFrames
  <2> QED BY <1>3, <2>1, <2>2, <2>3, <2>4 DEF Reopen
<1>4. CASE DownstreamEnds \/ CloseSocket \/ PeerGone
  BY <1>4 DEF DownstreamEnds, CloseSocket, PeerGone, gateVars, clientVars, queueVars,
              ClientView
<1>5. CASE DownstreamFails
  <2>1. CASE registered
    BY <1>5, <2>1, ClearingCancels DEF DownstreamFails, clientVars, queueVars
  <2>2. CASE ~registered
    BY <1>5, <2>2 DEF DownstreamFails, ClearGate, clientVars, queueVars
  <2> QED BY <2>1, <2>2
<1>6. CASE Cleanup
  BY <1>6, ClearingCancels DEF Cleanup, clientVars, queueVars
<1>7. CASE HandleAudioGate
  <2>1. UNCHANGED <<downstream, linked, registered, allow, reopenTask, task>>
    BY <1>7 DEF HandleAudioGate, gateVars
  <2> QED BY <1>7, <2>1, HandlingKeepsTheView
<1>8. CASE UNCHANGED vars
  BY <1>8 DEF vars, ClientView
<1> QED BY <1>1, <1>2, <1>3, <1>4, <1>5, <1>6, <1>7, <1>8 DEF Next

(* The invariant holds in every state of every conversation.               *)
THEOREM GateInvariance == Spec => []GateInv
BY InitGateInv, NextGateInv, PTL DEF Spec

(* Once the client has read its frames, it agrees with the server on who   *)
(* may be heard, however handoffs and reopenings overlapped.               *)
THEOREM EndsAgree == Spec => []GatesAgree
<1>1. GateInv => GatesAgree
  BY DEF GateInv
<1> QED BY <1>1, GateInvariance, PTL

(* While the conversation runs, the gate is opened by the timer of the     *)
(* latest handoff and by nothing else.                                     *)
THEOREM OnlyTheLatestReopens == Spec => LatestTimerReopens
<1>1. ASSUME GateInv, [Next]_vars
      PROVE  [~allow /\ allow' =>
                \/ downstream' # "running"
                \/ \E h \in Handoffs :
                     /\ task[h] = "sleeping" /\ task'[h] = "done"
                     /\ \A g \in Handoffs : g > h => task[g] = "unborn"]_vars
  <2> SUFFICES ASSUME ~allow, allow'
               PROVE  \/ downstream' # "running"
                      \/ \E h \in Handoffs :
                           /\ task[h] = "sleeping" /\ task'[h] = "done"
                           /\ \A g \in Handoffs : g > h => task[g] = "unborn"
    OBVIOUS
  <2>1. CASE \E h \in Handoffs : Reopen(h)
    <3>1. PICK h \in Handoffs : Reopen(h)
      BY <2>1
    <3>2. task[h] = "sleeping" /\ task'[h] = "done"
      BY <1>1, <3>1 DEF Reopen, GateInv
    <3>3. \A g \in Handoffs : g > h => task[g] = "unborn"
      BY <1>1, <3>2 DEF GateInv, OneTimer
    <3> QED BY <3>2, <3>3
  <2>2. CASE DownstreamFails \/ Cleanup
    BY <2>2 DEF DownstreamFails, Cleanup
  <2>3. CASE ~(\E h \in Handoffs : Reopen(h)) /\ ~(DownstreamFails \/ Cleanup)
    <3>1. [Next]_vars => allow' = allow \/ (\E h \in Handoffs : Handoff(h))
      BY <2>3 DEF Next, vars, SendContent, Consume, DownstreamEnds, CloseSocket,
                  PeerGone, Capture, MicSend, HandleAudioGate, UpstreamAudio, gateVars
    <3>2. (\E h \in Handoffs : Handoff(h)) => allow' = FALSE
      BY DEF Handoff
    <3> QED BY <1>1, <3>1, <3>2
  <2> QED BY <2>1, <2>2, <2>3
<1> QED BY <1>1, GateInvariance, PTL DEF Spec, LatestTimerReopens

-----------------------------------------------------------------------------
(* Induction, without a predicate as a parameter.                          *)

(* A set of numbers has a least member.                                    *)
LEMMA LeastMember ==
  ASSUME NEW T, T \subseteq Nat, T # {}
  PROVE  \E n \in T : \A m \in T : n <= m
<1>1. \A m \in Nat, n \in Nat : <<m, n>> \in OpToRel(<, Nat) <=> m < n
  BY DEF OpToRel
<1>2. PICK n \in T : \A m \in T : ~(<<m, n>> \in OpToRel(<, Nat))
  BY NatLessThanWellFounded, WFMin, Zenon
<1>3. ASSUME NEW m \in T PROVE n <= m
  <2>1. ~(m < n)
    BY <1>1, <1>2
  <2> QED BY <2>1
<1> QED BY <1>3

(* A set that holds 0 and the successor of every member holds every number.*)
LEMMA SetInduction ==
  ASSUME NEW T, 0 \in T, \A n \in Nat : n \in T => n + 1 \in T
  PROVE  Nat \subseteq T
<1> SUFFICES ASSUME Nat \ T # {} PROVE FALSE
  OBVIOUS
<1>1. PICK n \in Nat \ T : \A m \in Nat \ T : n <= m
  BY LeastMember
<1>2. n - 1 \in Nat \ T
  BY <1>1
<1> QED BY <1>1, <1>2

-----------------------------------------------------------------------------
(* The backlog *)

(* One round of the loop: the list k after a look at request r.            *)
Look(k, r) == IF r = Audio THEN k ELSE Append(k, r)

(* The lists g, each after one round more: the history of the list is the  *)
(* g that this leaves as it is.                                            *)
Rounds(q, g) ==
  [n \in 0 .. Len(q) |-> IF n = 0 THEN <<>>
                         ELSE IF q[n] = Audio THEN g[n - 1]
                         ELSE Append(g[n - 1], q[n])]

LEMMA HistoryExists ==
  ASSUME NEW q \in Seq(Requests)
  PROVE  \E g : g = Rounds(q, g)
<1> DEFINE Upto(g, m) == /\ g = [n \in 0 .. m |-> g[n]]
                         /\ g[0] = <<>>
                         /\ \A n \in 1 .. m : g[n] = Look(g[n - 1], q[n])
<1> DEFINE T == {m \in Nat : \E g : Upto(g, m)}
<1>1. 0 \in T
  <2> DEFINE g == [n \in 0 .. 0 |-> <<>>]
  <2>1. Upto(g, 0)
    OBVIOUS
  <2> QED BY <2>1
<1>2. ASSUME NEW m \in Nat, m \in T PROVE m + 1 \in T
  <2>1. PICK g : Upto(g, m)
    BY <1>2
  <2> DEFINE h == [n \in 0 .. (m + 1) |-> IF n = m + 1 THEN Look(g[m], q[n]) ELSE g[n]]
  <2>2. h = [n \in 0 .. (m + 1) |-> h[n]]
    OBVIOUS
  <2>3. h[m + 1] = Look(g[m], q[m + 1]) /\ \A n \in 0 .. m : h[n] = g[n]
    OBVIOUS
  <2> HIDE DEF h
  <2>4. h[0] = <<>>
    BY <2>1, <2>3
  <2>5. ASSUME NEW n \in 1 .. (m + 1) PROVE h[n] = Look(h[n - 1], q[n])
    <3>1. n - 1 \in 0 .. m /\ h[n - 1] = g[n - 1]
      BY <2>3
    <3>2. CASE n = m + 1
      BY <3>1, <3>2, <2>3
    <3>3. CASE n \in 1 .. m
      <4>1. g[n] = Look(g[n - 1], q[n])
        BY <2>1, <3>3
      <4> QED BY <3>1, <3>3, <2>3, <4>1
    <3> QED BY <3>2, <3>3
  <2> QED BY <2>2, <2>4, <2>5
<1>3. Nat \subseteq T
  <2> HIDE DEF T
  <2> QED BY <1>1, <1>2, SetInduction
<1>4. PICK g : Upto(g, Len(q))
  BY <1>3
<1>5. g = Rounds(q, g)
  <2> DEFINE f == Rounds(q, g)
  <2>1. f = [n \in 0 .. Len(q) |-> f[n]]
    BY DEF Rounds
  <2>3. f[0] = <<>> /\ \A n \in 1 .. Len(q) : f[n] = Look(g[n - 1], q[n])
    BY DEF Rounds, Look
  <2> HIDE DEF f
  <2>4. \A n \in 0 .. Len(q) : n = 0 \/ n \in 1 .. Len(q)
    OBVIOUS
  <2>5. \A n \in 0 .. Len(q) : f[n] = g[n]
    BY <1>4, <2>3, <2>4
  <2>2. g = f
    BY <1>4, <2>1, <2>5
  <2> QED BY <2>2 DEF f
<1> QED BY <1>5

(* What is put back is the list after the last request.                    *)
LEMMA BacklogHistory ==
  ASSUME NEW q \in Seq(Requests)
  PROVE  \E g : /\ g[0] = <<>>
                /\ \A n \in 1 .. Len(q) : g[n] = Look(g[n - 1], q[n])
                /\ WithoutBacklog(q) = g[Len(q)]
<1> DEFINE g == CHOOSE k : k = Rounds(q, k)
<1>1. g = Rounds(q, g)
  BY HistoryExists
<1>2. WithoutBacklog(q) = g[Len(q)]
  BY DEF WithoutBacklog, Rounds
<1> HIDE DEF g
<1>3. g[0] = <<>> /\ \A n \in 1 .. Len(q) : g[n] = Look(g[n - 1], q[n])
  <2> DEFINE f == Rounds(q, g)
  <2>1. f[0] = <<>> /\ \A n \in 1 .. Len(q) : f[n] = Look(g[n - 1], q[n])
    BY DEF Rounds, Look
  <2> HIDE DEF f
  <2>2. g = f
    BY <1>1 DEF f
  <2> QED BY <2>1, <2>2
<1> QED BY <1>2, <1>3

(* The contents among the first n requests.                                *)
FirstContents(q, n) == {q[i] : i \in 1 .. n} \ {Audio}

(* k holds the contents among the first n requests of q, and nothing else. *)
Holds(k, q, n) ==
  /\ k \in Seq(Requests)
  /\ Len(k) <= n
  /\ \A i \in 1 .. Len(k) : k[i] # Audio
  /\ {k[i] : i \in 1 .. Len(k)} = FirstContents(q, n)
  /\ InSendingOrder(k)

(* A round of the loop keeps it so.                                        *)
LEMMA LookHolds ==
  ASSUME NEW q \in Seq(Requests), InSendingOrder(q),
         NEW n \in Nat, n + 1 \in 1 .. Len(q), NEW k, Holds(k, q, n)
  PROVE  Holds(Look(k, q[n + 1]), q, n + 1)
<1>0. q[n + 1] \in Requests /\ k \in Seq(Requests) /\ Len(k) \in Nat
  BY DEF Holds
<1>1. FirstContents(q, n + 1) = FirstContents(q, n) \cup ({q[n + 1]} \ {Audio})
  <2>1. 1 .. (n + 1) = (1 .. n) \cup {n + 1}
    OBVIOUS
  <2> QED BY <2>1 DEF FirstContents
<1>2. CASE q[n + 1] = Audio
  BY <1>1, <1>2 DEF Look, Holds
<1>3. CASE q[n + 1] # Audio
  <2> DEFINE l == Append(k, q[n + 1])
  <2>1. Look(k, q[n + 1]) = l
    BY <1>3 DEF Look
  <2>2. /\ l \in Seq(Requests) /\ Len(l) = Len(k) + 1
        /\ l[Len(k) + 1] = q[n + 1]
        /\ \A i \in 1 .. Len(k) : l[i] = k[i]
    BY <1>0
  <2> HIDE DEF l
  <2>3. 1 .. Len(l) = (1 .. Len(k)) \cup {Len(k) + 1}
    BY <1>0, <2>2
  <2>4. \A i \in 1 .. Len(l) : l[i] # Audio
    BY <1>3, <2>2, <2>3 DEF Holds
  <2>5. {l[i] : i \in 1 .. Len(l)} = FirstContents(q, n + 1)
    <3>1. {l[i] : i \in 1 .. Len(l)} = {k[i] : i \in 1 .. Len(k)} \cup {q[n + 1]}
      BY <2>2, <2>3, SMTT(40)
    <3> QED BY <3>1, <1>1, <1>3 DEF Holds
  <2>6. \A i \in 1 .. Len(k) : k[i] < q[n + 1]
    <3>1. \A i \in 1 .. Len(k) : \E j \in 1 .. n : k[i] = q[j] /\ q[j] # Audio
      BY DEF Holds, FirstContents
    <3>2. \A j \in 1 .. n : q[j] # Audio => q[j] < q[n + 1]
      BY <1>3 DEF InSendingOrder
    <3> QED BY <3>1, <3>2
  <2>7. InSendingOrder(l)
    <3> SUFFICES ASSUME NEW i \in 1 .. Len(l), NEW j \in 1 .. Len(l), i < j
                 PROVE  l[i] < l[j]
      BY DEF InSendingOrder
    <3>1. i \in 1 .. Len(k)
      BY <1>0, <2>2
    <3>2. CASE j = Len(k) + 1
      BY <3>1, <3>2, <2>2, <2>6
    <3>3. CASE j \in 1 .. Len(k)
      BY <3>1, <3>3, <2>2 DEF Holds, InSendingOrder
    <3> QED BY <3>2, <3>3, <2>3
  <2>8. Len(l) <= n + 1
    BY <1>0, <2>2 DEF Holds
  <2> QED BY <2>1, <2>2, <2>4, <2>5, <2>7, <2>8 DEF Holds
<1> QED BY <1>2, <1>3

(* drop_realtime_backlog: no audio is left, and the contents are those that*)
(* were there, in their order.                                             *)
THEOREM BacklogIsAudio ==
  ASSUME NEW q \in Seq(Requests), InSendingOrder(q)
  PROVE  /\ WithoutBacklog(q) \in Seq(Requests)
         /\ \A i \in 1 .. Len(WithoutBacklog(q)) : WithoutBacklog(q)[i] # Audio
         /\ ContentsOf(WithoutBacklog(q)) = ContentsOf(q)
         /\ InSendingOrder(WithoutBacklog(q))
<1>1. PICK g : /\ g[0] = <<>>
               /\ \A n \in 1 .. Len(q) : g[n] = Look(g[n - 1], q[n])
               /\ WithoutBacklog(q) = g[Len(q)]
  BY BacklogHistory
<1> DEFINE T == {n \in Nat : n <= Len(q) => Holds(g[n], q, n)}
<1>2. 0 \in T
  <2>1. Holds(<<>>, q, 0)
    BY DEF Holds, FirstContents, InSendingOrder
  <2> QED BY <1>1, <2>1
<1>3. ASSUME NEW n \in Nat, n \in T PROVE n + 1 \in T
  <2>1. CASE n + 1 <= Len(q)
    <3>1. n + 1 \in 1 .. Len(q) /\ Holds(g[n], q, n)
      BY <1>3, <2>1
    <3>2. g[n + 1] = Look(g[n], q[n + 1])
      <4>1. g[n + 1] = Look(g[(n + 1) - 1], q[n + 1])
        BY <1>1, <3>1
      <4> QED BY <4>1
    <3>3. Holds(g[n + 1], q, n + 1)
      BY <3>1, <3>2, LookHolds
    <3> QED BY <3>3
  <2>2. CASE ~(n + 1 <= Len(q))
    BY <2>2
  <2> QED BY <2>1, <2>2
<1>4. Nat \subseteq T
  <2> HIDE DEF T
  <2> QED BY <1>2, <1>3, SetInduction
<1>5. Holds(WithoutBacklog(q), q, Len(q))
  BY <1>1, <1>4
<1> QED BY <1>5 DEF Holds, FirstContents, ContentsOf

-----------------------------------------------------------------------------
(* The queue, and the timer that a closed gate waits for                   *)

(* A closed gate has a timer: the one that will open it again.             *)
ShutGateHasTimer ==
  registered /\ ~allow => \E h \in Handoffs : task[h] = "sleeping"

(* What GateInv says nothing of.                                           *)
QueueInv ==
  /\ downstream \in {"running", "failing", "ended"}
  /\ linked \in BOOLEAN /\ registered \in BOOLEAN
  /\ micq \in Nat /\ uplink \in Nat /\ micq + uplink <= MaxChunks
  /\ queue \in Seq(Requests)
  /\ contents \in 0 .. MaxContents
  /\ \A i \in 1 .. Len(queue) : queue[i] <= contents
  /\ InSendingOrder(queue)
  /\ NoAudioBehindClosedGate
  /\ ShutGateHasTimer

LEMMA Bounds == {MaxHandoffs, MaxChunks, MaxContents} \subseteq Nat /\ Requests \subseteq Nat
BY BoundsAssumption DEF Requests, Audio

LEMMA InitQueueInv == Init => QueueInv
BY Bounds DEF Init, QueueInv, InSendingOrder, NoAudioBehindClosedGate, ShutGateHasTimer

(* A content goes to the end of the queue.                                 *)
LEMMA SendingContent ==
  ASSUME QueueInv, SendContent
  PROVE  /\ queue' \in Seq(Requests)
         /\ contents' = contents + 1 /\ contents' \in 0 .. MaxContents
         /\ \A i \in 1 .. Len(queue') : queue'[i] <= contents'
         /\ InSendingOrder(queue')
         /\ ContentsOf(queue') = ContentsOf(queue) \cup {contents'}
         /\ NoAudioBehindClosedGate'
<1>1. /\ contents' = contents + 1 /\ contents' \in 1 .. MaxContents
      /\ queue' = Append(queue, contents') /\ queue \in Seq(Requests)
      /\ contents' \in Requests /\ contents' # Audio
      /\ allow' = allow
  BY Bounds DEF QueueInv, SendContent, gateVars, Requests, Audio
<1>2. /\ queue' \in Seq(Requests)
      /\ Len(queue') = Len(queue) + 1 /\ Len(queue) \in Nat
      /\ queue'[Len(queue) + 1] = contents'
      /\ \A i \in 1 .. Len(queue) : queue'[i] = queue[i]
  BY <1>1
<1>3. 1 .. Len(queue') = (1 .. Len(queue)) \cup {Len(queue) + 1}
  BY <1>2
<1>4. \A i \in 1 .. Len(queue) : queue[i] < contents'
  <2> SUFFICES ASSUME NEW i \in 1 .. Len(queue) PROVE queue[i] < contents'
    OBVIOUS
  <2>1. queue[i] \in Requests /\ queue[i] <= contents
    BY <1>1 DEF QueueInv
  <2>2. contents \in Nat
    BY DEF QueueInv
  <2>3. queue[i] \in Nat
    BY <2>1, Bounds
  <2> QED BY <1>1, <2>1, <2>2, <2>3
<1>5. \A i \in 1 .. Len(queue') : queue'[i] <= contents'
  <2> SUFFICES ASSUME NEW i \in 1 .. Len(queue') PROVE queue'[i] <= contents'
    OBVIOUS
  <2>1. CASE i = Len(queue) + 1
    BY <2>1, <1>1, <1>2
  <2>2. CASE i \in 1 .. Len(queue)
    <3>1. queue[i] \in Requests /\ queue[i] < contents' /\ queue'[i] = queue[i]
      BY <2>2, <1>1, <1>2, <1>4
    <3>2. queue[i] \in Nat /\ contents' \in Nat
      BY <1>1, <3>1, Bounds
    <3> QED BY <3>1, <3>2
  <2> QED BY <2>1, <2>2, <1>3
<1>6. InSendingOrder(queue')
  <2> SUFFICES ASSUME NEW i \in 1 .. Len(queue'), NEW j \in 1 .. Len(queue'), i < j,
                      queue'[i] # Audio, queue'[j] # Audio
               PROVE  queue'[i] < queue'[j]
    BY DEF InSendingOrder
  <2>1. i \in 1 .. Len(queue)
    BY <1>2
  <2>2. CASE j = Len(queue) + 1
    BY <2>1, <2>2, <1>2, <1>4
  <2>3. CASE j \in 1 .. Len(queue)
    BY <2>1, <2>3, <1>2 DEF QueueInv, InSendingOrder
  <2> QED BY <2>2, <2>3, <1>3
<1>7. ContentsOf(queue') = ContentsOf(queue) \cup {contents'}
  BY <1>1, <1>2, <1>3 DEF ContentsOf
<1>8. NoAudioBehindClosedGate'
  BY <1>1, <1>2, <1>3 DEF QueueInv, NoAudioBehindClosedGate
<1> QED BY <1>1, <1>2, <1>5, <1>6, <1>7, <1>8

(* The head leaves.                                                        *)
LEMMA Consuming ==
  ASSUME QueueInv, Consume
  PROVE  /\ queue # <<>> /\ queue' = Tail(queue)
         /\ queue' \in Seq(Requests)
         /\ \A i \in 1 .. Len(queue') : queue'[i] <= contents'
         /\ InSendingOrder(queue')
         /\ NoAudioBehindClosedGate'
<1>1. /\ queue # <<>> /\ queue' = Tail(queue) /\ queue \in Seq(Requests)
      /\ contents' = contents /\ allow' = allow
  BY DEF QueueInv, Consume, gateVars
<1>2. /\ queue' \in Seq(Requests)
      /\ Len(queue') = Len(queue) - 1 /\ Len(queue) \in Nat
      /\ \A i \in 1 .. Len(queue') : i + 1 \in 1 .. Len(queue) /\ queue'[i] = queue[i + 1]
  BY <1>1
<1>3. \A i \in 1 .. Len(queue') : queue'[i] <= contents'
  BY <1>1, <1>2 DEF QueueInv
<1>4. InSendingOrder(queue')
  <2> SUFFICES ASSUME NEW i \in 1 .. Len(queue'), NEW j \in 1 .. Len(queue'), i < j,
                      queue'[i] # Audio, queue'[j] # Audio
               PROVE  queue'[i] < queue'[j]
    BY DEF InSendingOrder
  <2>1. i + 1 < j + 1 /\ i + 1 \in 1 .. Len(queue) /\ j + 1 \in 1 .. Len(queue)
    BY <1>2
  <2> QED BY <1>2, <2>1 DEF QueueInv, InSendingOrder
<1>5. NoAudioBehindClosedGate'
  BY <1>1, <1>2 DEF QueueInv, NoAudioBehindClosedGate
<1> QED BY <1>1, <1>2, <1>3, <1>4, <1>5

(* A chunk goes to the end of the queue, or nowhere.                       *)
LEMMA TakingAudio ==
  ASSUME QueueInv, UpstreamAudio
  PROVE  /\ queue' \in Seq(Requests)
         /\ \A i \in 1 .. Len(queue') : queue'[i] <= contents'
         /\ InSendingOrder(queue')
         /\ ContentsOf(queue') = ContentsOf(queue)
         /\ NoAudioBehindClosedGate'
<1>1. /\ queue' = IF allow THEN Append(queue, Audio) ELSE queue
      /\ contents' = contents /\ allow' = allow
      /\ queue \in Seq(Requests) /\ Audio \in Requests /\ contents \in Nat
  BY DEF QueueInv, UpstreamAudio, gateVars, Requests
<1>2. CASE ~allow
  BY <1>1, <1>2 DEF QueueInv, NoAudioBehindClosedGate
<1>3. CASE allow
  <2>1. /\ queue' \in Seq(Requests)
        /\ Len(queue') = Len(queue) + 1 /\ Len(queue) \in Nat
        /\ queue'[Len(queue) + 1] = Audio
        /\ \A i \in 1 .. Len(queue) : queue'[i] = queue[i]
    BY <1>1, <1>3
  <2>2. 1 .. Len(queue') = (1 .. Len(queue)) \cup {Len(queue) + 1}
    BY <2>1
  <2>3. \A i \in 1 .. Len(queue') : queue'[i] <= contents'
    BY <1>1, <2>1, <2>2 DEF QueueInv, Audio
  <2>4. InSendingOrder(queue')
    BY <2>1, <2>2 DEF QueueInv, InSendingOrder
  <2>5. ContentsOf(queue') = ContentsOf(queue)
    BY <2>1, <2>2 DEF ContentsOf
  <2> QED BY <1>1, <1>3, <2>1, <2>3, <2>4, <2>5 DEF NoAudioBehindClosedGate
<1> QED BY <1>2, <1>3

(* The backlog leaves, and no content with it.                             *)
LEMMA HandingOver ==
  ASSUME QueueInv, NEW h \in Handoffs, Handoff(h)
  PROVE  /\ queue' \in Seq(Requests)
         /\ \A i \in 1 .. Len(queue') : queue'[i] <= contents'
         /\ InSendingOrder(queue')
         /\ ContentsOf(queue') = ContentsOf(queue)
         /\ NoAudioBehindClosedGate'
<1>1. queue' = WithoutBacklog(queue) /\ contents' = contents
  BY DEF Handoff
<1>2. /\ queue' \in Seq(Requests)
      /\ \A i \in 1 .. Len(queue') : queue'[i] # Audio
      /\ ContentsOf(queue') = ContentsOf(queue)
      /\ InSendingOrder(queue')
  BY <1>1, BacklogIsAudio DEF QueueInv
<1>3. \A i \in 1 .. Len(queue') : queue'[i] <= contents'
  <2>1. \A i \in 1 .. Len(queue') : \E j \in 1 .. Len(queue) : queue'[i] = queue[j]
    BY <1>2 DEF ContentsOf
  <2> QED BY <1>1, <2>1 DEF QueueInv
<1> QED BY <1>2, <1>3 DEF NoAudioBehindClosedGate

(* Each step keeps it.                                                     *)
LEMMA NextQueueInv == GateInv /\ QueueInv /\ [Next]_vars => QueueInv'
<1> SUFFICES ASSUME GateInv, QueueInv, [Next]_vars PROVE QueueInv'
  OBVIOUS
<1>0. MaxChunks \in Nat
  BY Bounds
<1>1. CASE SendContent
  BY <1>1, SendingContent
     DEF SendContent, QueueInv, ShutGateHasTimer, gateVars, clientVars
<1>2. CASE Consume
  BY <1>2, Consuming DEF Consume, QueueInv, ShutGateHasTimer, gateVars, clientVars
<1>3. CASE UpstreamAudio
  <2>1. uplink' \in Nat /\ micq' \in Nat /\ micq' + uplink' <= MaxChunks
    BY <1>0, <1>3 DEF UpstreamAudio, QueueInv
  <2> QED BY <1>3, <2>1, TakingAudio DEF UpstreamAudio, QueueInv, ShutGateHasTimer, gateVars
<1>4. ASSUME NEW h \in Handoffs, Handoff(h) PROVE QueueInv'
  <2>1. task'[h] = "sleeping"
    BY <1>4 DEF Handoff, CancelPrevious
  <2>2. ShutGateHasTimer'
    BY <2>1 DEF ShutGateHasTimer
  <2> QED BY <1>4, <2>2, HandingOver DEF Handoff, QueueInv
<1>5. ASSUME NEW h \in Handoffs, Reopen(h) PROVE QueueInv'
  <2>1. ShutGateHasTimer'
    BY <1>5 DEF Reopen, ShutGateHasTimer
  <2>2. NoAudioBehindClosedGate'
    BY <1>5 DEF Reopen, QueueInv, NoAudioBehindClosedGate, queueVars
  <2> QED BY <1>5, <2>1, <2>2 DEF Reopen, QueueInv, queueVars, InSendingOrder
<1>6. CASE DownstreamEnds \/ CloseSocket \/ PeerGone
  <2>1. UNCHANGED <<registered, allow, task, micq, uplink, queue, contents>>
    BY <1>6 DEF DownstreamEnds, CloseSocket, PeerGone, gateVars, clientVars, queueVars
  <2>2. downstream' \in {"running", "failing", "ended"} /\ linked' \in BOOLEAN
    BY <1>6 DEF DownstreamEnds, CloseSocket, PeerGone, QueueInv
  <2>3. NoAudioBehindClosedGate' /\ ShutGateHasTimer' /\ InSendingOrder(queue')
    BY <2>1 DEF QueueInv, NoAudioBehindClosedGate, ShutGateHasTimer, InSendingOrder
  <2> QED BY <2>1, <2>2, <2>3 DEF QueueInv
<1>7. CASE DownstreamFails \/ Cleanup
  <2>1. ShutGateHasTimer'
    BY <1>7 DEF DownstreamFails, Cleanup, ClearGate, QueueInv, ShutGateHasTimer
  <2>2. NoAudioBehindClosedGate'
    BY <1>7 DEF DownstreamFails, Cleanup, ClearGate, QueueInv, NoAudioBehindClosedGate,
                queueVars
  <2> QED BY <1>7, <2>1, <2>2
             DEF DownstreamFails, Cleanup, QueueInv, clientVars, queueVars, InSendingOrder
<1>8. CASE Capture \/ MicSend \/ HandleAudioGate
  <2>1. micq' \in Nat /\ uplink' \in Nat /\ micq' + uplink' <= MaxChunks
    BY <1>0, <1>8, SMTT(40) DEF Capture, MicSend, HandleAudioGate, QueueInv
  <2> QED BY <1>8, <2>1, SMTT(40)
             DEF Capture, MicSend, HandleAudioGate, QueueInv, gateVars, queueVars,
                 NoAudioBehindClosedGate, ShutGateHasTimer, InSendingOrder
<1>9. CASE UNCHANGED vars
  BY <1>9 DEF vars, QueueInv, NoAudioBehindClosedGate, ShutGateHasTimer, InSendingOrder
<1> QED BY <1>1, <1>2, <1>3, <1>4, <1>5, <1>6, <1>7, <1>8, <1>9 DEF Next

(* Both invariants hold in every state of every conversation.              *)
THEOREM QueueInvariance == Spec => [](GateInv /\ QueueInv)
BY InitGateInv, InitQueueInv, NextGateInv, NextQueueInv, PTL DEF Spec

(* Every variable keeps its type.                                          *)
THEOREM Typing == Spec => []TypeOK
<1>1. GateInv /\ QueueInv => TypeOK
  <2> SUFFICES ASSUME GateInv, QueueInv PROVE TypeOK
    OBVIOUS
  <2>1. micq \in 0 .. MaxChunks /\ uplink \in 0 .. MaxChunks
    BY Bounds DEF QueueInv
  <2> QED BY <2>1 DEF GateInv, QueueInv, TypeOK
<1> QED BY <1>1, QueueInvariance, PTL

(* While the gate is closed no audio waits for the model, whatever the     *)
(* queue held when it was closed.                                          *)
THEOREM NoAudioWaits == Spec => []NoAudioBehindClosedGate
<1>1. QueueInv => NoAudioBehindClosedGate
  BY DEF QueueInv
<1> QED BY <1>1, QueueInvariance, PTL

(* No step loses, repeats or reorders a content that waits in the queue.   *)
THEOREM ContentsKeepTheirOrder == Spec => ContentsInOrder
<1>1. ASSUME GateInv, QueueInv, [Next]_vars
      PROVE  [/\ InSendingOrder(queue')
              /\ \/ ContentsOf(queue') = ContentsOf(queue)
                 \/ /\ ContentsOf(queue') = ContentsOf(queue) \cup {contents'}
                    /\ contents' = contents + 1
                 \/ queue # <<>> /\ queue' = Tail(queue)]_vars
  <2>1. InSendingOrder(queue')
    BY <1>1, NextQueueInv DEF QueueInv
  <2>2. CASE SendContent
    BY <1>1, <2>1, <2>2, SendingContent
  <2>3. CASE Consume
    BY <1>1, <2>1, <2>3, Consuming
  <2>4. CASE UpstreamAudio
    BY <1>1, <2>1, <2>4, TakingAudio
  <2>5. ASSUME NEW h \in Handoffs, Handoff(h) PROVE ContentsOf(queue') = ContentsOf(queue)
    BY <1>1, <2>5, HandingOver
  <2>6. \/ SendContent \/ Consume \/ UpstreamAudio \/ \E h \in Handoffs : Handoff(h)
        \/ queue' = queue
    BY <1>1 DEF Next, vars, Reopen, DownstreamEnds, DownstreamFails, CloseSocket, PeerGone,
                Cleanup, Capture, MicSend, HandleAudioGate, queueVars
  <2> QED BY <2>1, <2>2, <2>3, <2>4, <2>5, <2>6
<1> QED BY <1>1, QueueInvariance, PTL DEF Spec, ContentsInOrder

(* A client whose gate is closed, on a link that is up, has the frame that *)
(* opens it under way, or a timer that will send one, or is about to lose  *)
(* the link.                                                               *)
MuteEnds ==
  linked /\ ~clientOpen =>
    \/ \E i \in 1 .. Len(toClient) : toClient[i] = "open"
    \/ \E h \in Handoffs : task[h] = "sleeping"
    \/ downstream = "failing"

(* The user is never muted with nothing left that would end it: what       *)
(* ClientReopens needs besides the fairness of the timers.                 *)
THEOREM NeverMutedForGood == Spec => []MuteEnds
<1>1. GateInv /\ QueueInv => MuteEnds
  <2> SUFFICES ASSUME GateInv, QueueInv, linked, ~clientOpen, downstream # "failing",
                      \A i \in 1 .. Len(toClient) : toClient[i] # "open"
               PROVE  \E h \in Handoffs : task[h] = "sleeping"
    BY DEF MuteEnds
  <2>1. ~ClientView
    <3>1. CASE toClient = <<>>
      BY <3>1 DEF ClientView
    <3>2. CASE toClient # <<>>
      <4>1. Len(toClient) \in 1 .. Len(toClient)
        BY <3>2 DEF GateInv
      <4> QED BY <3>2, <4>1 DEF ClientView
    <3> QED BY <3>1, <3>2
  <2>2. ~allow
    BY <2>1 DEF GateInv, GatesAgree
  <2>3. registered
    BY DEF GateInv, Bound
  <2> QED BY <2>2, <2>3 DEF QueueInv, ShutGateHasTimer
<1> QED BY <1>1, QueueInvariance, PTL
=============================================================================
