----------------------------- MODULE AudioGate -----------------------------
(***************************************************************************)
(* The microphone gate of one connection: while the conversation is handed *)
(* from one agent to another, the server drops audio and tells the client  *)
(* to stop sending it, and a timer task opens both ends again.             *)
(*                                                                         *)
(* server/callbacks/handoff_guard.py, server/live/audio_gate.py,           *)
(* server/live/resettable_queue.py, the audio branch of ws() in            *)
(* server/server.py, and _mic_sender and _handle_audio_gate of             *)
(* client/companion_runtime.py.                                            *)
(*                                                                         *)
(* The body of "async with gate.lock" never suspends, so each is one step; *)
(* the send that follows it queues on the bridge's FIFO send_lock without  *)
(* suspending first, so toClient, which holds the frames waiting for the   *)
(* lock and those on the wire, grows in that same step.                    *)
(***************************************************************************)
EXTENDS Naturals, Sequences

CONSTANTS
  MaxHandoffs,  \* bound on the transfers of a conversation
  MaxChunks,    \* bound on the audio chunks on their way to the model
  MaxContents   \* bound on the content requests

ASSUME BoundsAssumption == {MaxHandoffs, MaxChunks, MaxContents} \subseteq Nat

VARIABLES
  downstream,  \* downstream(): run_live running, an error being reported, ended
  linked,      \* the WebSocket is open
  registered,  \* the gate is in _gates
  allow,       \* gate.allow_audio_upload
  reopenTask,  \* gate.reopen_task: the handoff that created it, 0 for None
  task,        \* the reopen task of each handoff
  toClient,    \* audio_gate frames the client has not handled
  clientOpen,  \* _audio_gate_open of the client
  micq,        \* chunks in the client's _mic_queue
  uplink,      \* chunks sent and not yet read by upstream()
  queue,       \* the ResettableLiveRequestQueue
  contents     \* how many contents were sent to it

vars == <<downstream, linked, registered, allow, reopenTask, task, toClient,
          clientOpen, micq, uplink, queue, contents>>
gateVars   == <<registered, allow, reopenTask, task>>
clientVars == <<toClient, clientOpen, micq, uplink>>
queueVars  == <<queue, contents>>

Handoffs   == 1 .. MaxHandoffs
TaskStates == {"unborn", "sleeping", "done", "cancelled"}
Audio      == 0
Requests   == {Audio} \cup 1 .. MaxContents

TypeOK ==
  /\ downstream \in {"running", "failing", "ended"}
  /\ {linked, registered, allow, clientOpen} \subseteq BOOLEAN
  /\ reopenTask \in 0 .. MaxHandoffs
  /\ task \in [Handoffs -> TaskStates]
  /\ toClient \in Seq({"closed", "open"})
  /\ micq \in 0 .. MaxChunks
  /\ uplink \in 0 .. MaxChunks
  /\ queue \in Seq(Requests)
  /\ contents \in 0 .. MaxContents

(* The client has just connected and ws() has registered the gate.         *)
Init ==
  /\ downstream = "running" /\ linked = TRUE /\ registered = TRUE
  /\ allow = TRUE /\ reopenTask = 0
  /\ task = [h \in Handoffs |-> "unborn"]
  /\ toClient = <<>> /\ clientOpen = TRUE
  /\ micq = 0 /\ uplink = 0
  /\ queue = <<>> /\ contents = 0

-----------------------------------------------------------------------------
(* The live request queue *)

(* Fault: drop_realtime_backlog empties the whole queue.                   *)
WithoutBacklog_All(q) == <<>>

(* Fault: the handoff leaves the backlog in the queue.                     *)
WithoutBacklog_Kept(q) == q

(* drop_realtime_backlog takes the requests off one by one, forgets audio  *)
(* and puts what it kept back: kept[n] is that list after n requests.      *)
WithoutBacklog(q) ==
  LET kept[n \in 0 .. Len(q)] ==
        IF n = 0 THEN <<>>
        ELSE IF q[n] = Audio THEN kept[n - 1]
        ELSE Append(kept[n - 1], q[n])
  IN  kept[Len(q)]

(* send_content, except of the orphaned response to transfer_to_agent,     *)
(* which is dropped and leaves no trace.                                   *)
SendContent ==
  /\ downstream = "running"
  /\ contents < MaxContents
  /\ contents' = contents + 1
  /\ queue' = Append(queue, contents + 1)
  /\ UNCHANGED <<downstream, linked, gateVars, clientVars>>

(* run_live takes the next request.                                        *)
Consume ==
  /\ downstream = "running"
  /\ queue # <<>>
  /\ queue' = Tail(queue)
  /\ UNCHANGED <<downstream, linked, gateVars, clientVars, contents>>

-----------------------------------------------------------------------------
(* The gate *)

(* The frame is sent when get_bridge finds the connection's bridge.        *)
Sent(frame) == IF linked THEN Append(toClient, frame) ELSE toClient

(* Fault: the callback leaves the earlier reopen task running.             *)
CancelPrevious_Not == task

(* task.cancel() of the task that gate.reopen_task named.                  *)
CancelPrevious ==
  [h \in Handoffs |-> IF h = reopenTask /\ task[h] = "sleeping"
                        THEN "cancelled" ELSE task[h]]

(* transfer_audio_gate_before_tool_callback, which lets the transfer go on.*)
Handoff(h) ==
  /\ downstream = "running"
  /\ task[h] = "unborn"
  /\ \A g \in 1 .. (h - 1) : task[g] # "unborn"
  /\ registered
  /\ allow' = FALSE
  /\ queue' = WithoutBacklog(queue)
  /\ task' = [CancelPrevious EXCEPT ![h] = "sleeping"]
  /\ reopenTask' = h
  /\ toClient' = Sent("closed")
  /\ UNCHANGED <<downstream, linked, registered, clientOpen, micq, uplink, contents>>

(* Fault: reopen_transfer_audio_gate tells nobody.                         *)
ReopenFrames_None == toClient

(* Fault: the state and the reason of the frame are swapped.               *)
ReopenFrames_Swapped == IF linked THEN Append(toClient, "transfer_to_agent") ELSE toClient

(* The client is told that the gate is open.                               *)
ReopenFrames == Sent("open")

(* The delay is over: _reopen_after_transfer_delay opens the gate it finds.*)
Reopen(h) ==
  /\ task[h] = "sleeping"
  /\ task' = [task EXCEPT ![h] = "done"]
  /\ IF registered
       THEN /\ allow' = TRUE
            /\ reopenTask' = IF reopenTask = h THEN 0 ELSE reopenTask
            /\ toClient' = ReopenFrames
       ELSE UNCHANGED <<allow, reopenTask, toClient>>
  /\ UNCHANGED <<downstream, linked, registered, clientOpen, micq, uplink, queueVars>>

(* clear_transfer_audio_gate: open, and no timer; the client is not told.  *)
ClearGate ==
  IF registered
    THEN allow' = TRUE /\ reopenTask' = 0 /\ task' = CancelPrevious
    ELSE UNCHANGED <<allow, reopenTask, task>>

-----------------------------------------------------------------------------
(* The connection *)

(* run_live ends by itself.                                                *)
DownstreamEnds ==
  /\ downstream = "running"
  /\ downstream' = "ended"
  /\ UNCHANGED <<linked, gateVars, clientVars, queueVars>>

(* downstream() catches an error and clears the gate; it still has to send *)
(* a trace before it closes the socket.                                    *)
DownstreamFails ==
  /\ downstream = "running"
  /\ downstream' = "failing"
  /\ ClearGate
  /\ UNCHANGED <<linked, registered, clientVars, queueVars>>

(* The trace is sent, or raises; the socket is closed either way, by the   *)
(* server (1011) or because it was dead.                                   *)
CloseSocket ==
  /\ downstream = "failing"
  /\ downstream' = "ended"
  /\ linked' = FALSE
  /\ UNCHANGED <<gateVars, clientVars, queueVars>>

PeerGone ==
  /\ linked
  /\ linked' = FALSE
  /\ UNCHANGED <<downstream, gateVars, clientVars, queueVars>>

(* The finally block of ws(): clear_transfer_audio_gate, then              *)
(* unregister_audio_gate.                                                  *)
Cleanup ==
  /\ downstream = "ended" /\ ~linked /\ registered
  /\ ClearGate
  /\ registered' = FALSE
  /\ UNCHANGED <<downstream, linked, clientVars, queueVars>>

-----------------------------------------------------------------------------
(* Audio *)

(* The PortAudio callback puts a chunk in the mic queue.                   *)
Capture ==
  /\ linked
  /\ micq + uplink < MaxChunks
  /\ micq' = micq + 1
  /\ UNCHANGED <<downstream, linked, gateVars, toClient, clientOpen, uplink, queueVars>>

(* _mic_sender takes a chunk and sends it, or drops it at a closed gate.   *)
MicSend ==
  /\ linked
  /\ micq > 0
  /\ micq' = micq - 1
  /\ uplink' = IF clientOpen THEN uplink + 1 ELSE uplink
  /\ UNCHANGED <<downstream, linked, gateVars, toClient, clientOpen, queueVars>>

(* _handle_audio_gate: closing also drains the mic queue.                  *)
HandleAudioGate ==
  /\ linked
  /\ toClient # <<>>
  /\ toClient' = Tail(toClient)
  /\ clientOpen' = (Head(toClient) = "open")
  /\ micq' = IF Head(toClient) = "closed" THEN 0 ELSE micq
  /\ UNCHANGED <<downstream, linked, gateVars, uplink, queueVars>>

(* upstream() reads a chunk; a closed gate drops it.  The queue keeps      *)
(* taking audio after run_live has ended; nothing reads it any more.       *)
UpstreamAudio ==
  /\ uplink > 0
  /\ registered
  /\ uplink' = uplink - 1
  /\ queue' = IF allow THEN Append(queue, Audio) ELSE queue
  /\ Len(queue) < MaxChunks + MaxContents
  /\ UNCHANGED <<downstream, linked, gateVars, toClient, clientOpen, micq, contents>>

-----------------------------------------------------------------------------
Next ==
  \/ SendContent \/ Consume
  \/ \E h \in Handoffs : Handoff(h) \/ Reopen(h)
  \/ DownstreamEnds \/ DownstreamFails \/ CloseSocket \/ PeerGone \/ Cleanup
  \/ Capture \/ MicSend \/ HandleAudioGate \/ UpstreamAudio

(* Timers fire, the client reads its socket and an error is reported; nobody has to speak, hand  *)
(* over or disconnect.                                                     *)
Fairness ==
  /\ \A h \in Handoffs : WF_vars(Reopen(h))
  /\ WF_vars(HandleAudioGate)
  /\ WF_vars(CloseSocket)

Spec == Init /\ [][Next]_vars
FairSpec == Spec /\ Fairness

-----------------------------------------------------------------------------
(* Properties *)

(* While the gate is closed no audio waits for the model: the agent that   *)
(* takes over does not hear what was queued for the one before.  (A chunk  *)
(* that is read after the gate has reopened passes, whenever it was said.) *)
NoAudioBehindClosedGate ==
  ~allow => \A i \in 1 .. Len(queue) : queue[i] # Audio

(* What the client will believe once it has read every frame.              *)
ClientView == IF toClient = <<>> THEN clientOpen
              ELSE toClient[Len(toClient)] = "open"

(* Both ends agree, in the order the frames arrive: overlapping handoffs   *)
(* and reopenings never leave the client with the older of two states.     *)
(* (While an error is being reported only the server's end is open.)       *)
GatesAgree == linked /\ downstream # "failing" => ClientView = allow

(* Only the timer of the latest handoff opens the gate (or the connection  *)
(* ends): an earlier handoff never cuts a later one's silence short.       *)
LatestTimerReopens ==
  [][~allow /\ allow' =>
       \/ downstream' # "running"
       \/ \E h \in Handoffs : /\ task[h] = "sleeping" /\ task'[h] = "done"
                              /\ \A g \in Handoffs : g > h => task[g] = "unborn"]_vars

ContentsOf(q) == {q[i] : i \in 1 .. Len(q)} \ {Audio}

(* Contents are numbered in the order in which they were sent.             *)
InSendingOrder(q) ==
  \A i \in 1 .. Len(q), j \in 1 .. Len(q) :
    i < j /\ q[i] # Audio /\ q[j] # Audio => q[i] < q[j]

(* Contents enter the queue at its end, as they are sent, and leave it only*)
(* from its head, one at a time: closing the gate drops, repeats and       *)
(* reorders none.                                                          *)
ContentsInOrder ==
  [][/\ InSendingOrder(queue')
     /\ \/ ContentsOf(queue') = ContentsOf(queue)
        \/ ContentsOf(queue') = ContentsOf(queue) \cup {contents'} /\ contents' = contents + 1
        \/ queue # <<>> /\ queue' = Tail(queue)]_vars

(* The user is never muted for good while connected.                       *)
ClientReopens == (~clientOpen) ~> (clientOpen \/ ~linked)
=============================================================================
