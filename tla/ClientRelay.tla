---------------------------- MODULE ClientRelay ----------------------------
(***************************************************************************)
(* One client connection as the server's frames see it: _receiver_loop of  *)
(* client/companion_runtime.py, which reads one frame at a time and awaits *)
(* LocalToolExecutor.handle_message of client/local_executor.py, whose     *)
(* Blender command runs on a worker thread.                                *)
(*                                                                         *)
(* The server is as regular as it can be: it makes one call at a time and  *)
(* sends speech and interrupts only while no call is open, as the agent's  *)
(* event loop awaits its tools.  It gives a call up after 20 s; the client *)
(* does not learn of it.  A tool_call frame may be delivered again.        *)
(***************************************************************************)
EXTENDS Naturals, Sequences, SequencesExt

CONSTANTS
  Calls,      \* call_ids
  MaxRecent,  \* how many call_ids the executor remembers (256)
  MaxFrames,  \* bound on the frames on their way
  MaxSpeech,  \* bound on the audio chunks and on the interrupts of a run
  MaxCopies,  \* bound on the frames that are delivered again
  None

Forms == {"good", "no_tool_name", "bad_args"}

ASSUME RelayAssumption ==
  /\ None \notin Calls \cup Forms
  /\ MaxRecent \in Nat \ {0}
  /\ {MaxFrames, MaxSpeech, MaxCopies} \subseteq Nat

VARIABLES
  linked,      \* the WebSocket is open
  inbox,       \* frames the receiver loop has not read
  awaiting,    \* the call whose handle_message the loop awaits, or None
  threads,     \* calls whose send_command is running on a worker thread
  recentIds,   \* _recent_ids
  recentSet,   \* _recent_id_set
  remembered,  \* history: every call_id remembered, in order
  answers,     \* how many tool_results each call got
  runs,        \* how often each call was handed to Blender
  open,        \* the call the server waits for, or None
  form,        \* the form of each call's frame, None before the server calls
  playback,    \* audio waiting to be played: the generation of each chunk
  barged,      \* interrupts the server has sent
  cleared,     \* interrupts the client has handled
  spoken,      \* audio chunks the server has sent
  copies       \* frames that were delivered again

vars == <<linked, inbox, awaiting, threads, recentIds, recentSet, remembered,
          answers, runs, open, form, playback, barged, cleared, spoken, copies>>
memoryVars == <<recentIds, recentSet, remembered>>
serverVars == <<open, form, barged, spoken, copies>>
soundVars  == <<playback, cleared>>

ToolFrames == [type : {"tool_call"}, call : Calls, form : Forms]
AudioFrames == [type : {"audio"}, generation : 0 .. MaxSpeech]
Interrupt == [type |-> "interrupt"]
Frames == ToolFrames \cup AudioFrames \cup {Interrupt}

TypeOK ==
  /\ linked \in BOOLEAN
  /\ inbox \in Seq(Frames)
  /\ awaiting \in Calls \cup {None}
  /\ threads \subseteq Calls
  /\ recentIds \in Seq(Calls)
  /\ recentSet \subseteq Calls
  /\ remembered \in Seq(Calls)
  /\ answers \in [Calls -> Nat]
  /\ runs \in [Calls -> Nat]
  /\ open \in Calls \cup {None}
  /\ form \in [Calls -> Forms \cup {None}]
  /\ playback \in Seq(0 .. MaxSpeech)
  /\ {barged, cleared, spoken} \subseteq 0 .. MaxSpeech
  /\ copies \in 0 .. MaxCopies

Init ==
  /\ linked = TRUE
  /\ inbox = <<>>
  /\ awaiting = None
  /\ threads = {}
  /\ recentIds = <<>> /\ recentSet = {} /\ remembered = <<>>
  /\ answers = [c \in Calls |-> 0]
  /\ runs = [c \in Calls |-> 0]
  /\ open = None /\ form = [c \in Calls |-> None]
  /\ playback = <<>>
  /\ barged = 0 /\ cleared = 0 /\ spoken = 0 /\ copies = 0

-----------------------------------------------------------------------------
(* The server *)

Deliver(frame) ==
  /\ linked
  /\ Len(inbox) < MaxFrames
  /\ inbox' = Append(inbox, frame)
  /\ UNCHANGED <<linked, awaiting, threads, memoryVars, answers, runs, soundVars>>

ServerCalls(c) ==
  /\ open = None
  /\ form[c] = None
  /\ \E f \in Forms : /\ Deliver([type |-> "tool_call", call |-> c, form |-> f])
                      /\ form' = [form EXCEPT ![c] = f]
  /\ open' = c
  /\ UNCHANGED <<barged, spoken, copies>>

(* wait_for's timeout, or the answer has been read.                        *)
ServerCloses ==
  /\ open # None
  /\ open' = None
  /\ UNCHANGED <<linked, inbox, awaiting, threads, memoryVars, answers, runs,
                 soundVars, form, barged, spoken, copies>>

(* A frame of a call that was made arrives once more.                      *)
Redeliver(c) ==
  /\ form[c] # None
  /\ copies < MaxCopies
  /\ Deliver([type |-> "tool_call", call |-> c, form |-> form[c]])
  /\ copies' = copies + 1
  /\ UNCHANGED <<open, form, barged, spoken>>

ServerSpeaks ==
  /\ open = None
  /\ spoken < MaxSpeech
  /\ Deliver([type |-> "audio", generation |-> barged])
  /\ spoken' = spoken + 1
  /\ UNCHANGED <<open, form, barged, copies>>

(* Gemini reports that the user talks over the answer.                     *)
ServerInterrupts ==
  /\ open = None
  /\ barged < MaxSpeech
  /\ Deliver(Interrupt)
  /\ barged' = barged + 1
  /\ UNCHANGED <<open, form, spoken, copies>>

-----------------------------------------------------------------------------
(* The receiver loop *)

(* The loop reads the next frame; it cannot while it awaits a tool.        *)
Reads(frame) ==
  /\ linked
  /\ awaiting = None
  /\ inbox # <<>>
  /\ frame = Head(inbox)
  /\ inbox' = Tail(inbox)

ReadAudio ==
  /\ inbox # <<>> /\ Head(inbox) \in AudioFrames
  /\ Reads(Head(inbox))
  /\ playback' = Append(playback, Head(inbox).generation)
  /\ UNCHANGED <<linked, awaiting, threads, memoryVars, answers, runs, cleared, serverVars>>

(* Fault: an interrupt drops only what plays at the moment.                *)
AfterInterrupt_HeadOnly(buf) == IF buf = <<>> THEN buf ELSE Tail(buf)

(* _playback_clear.                                                        *)
AfterInterrupt(buf) == <<>>

ReadInterrupt ==
  /\ Reads(Interrupt)
  /\ playback' = AfterInterrupt(playback)
  /\ cleared' = cleared + 1
  /\ UNCHANGED <<linked, awaiting, threads, memoryVars, answers, runs, serverVars>>

(* The PortAudio callback takes what it needs.                             *)
Play ==
  /\ playback # <<>>
  /\ playback' = Tail(playback)
  /\ UNCHANGED <<linked, inbox, awaiting, threads, memoryVars, answers, runs,
                 cleared, serverVars>>

-----------------------------------------------------------------------------
(* The executor *)

Answer(c) == answers' = [answers EXCEPT ![c] = @ + 1]

Evicts == Len(recentIds) = MaxRecent

(* Fault: the evicted id stays in the set.                                 *)
NewRecentSet_NoDiscard(c) == recentSet \cup {c}

NewRecentSet(c) == (recentSet \ (IF Evicts THEN {Head(recentIds)} ELSE {})) \cup {c}

NewRecentIds(c) == Append(IF Evicts THEN Tail(recentIds) ELSE recentIds, c)

(* _remember_call_id.                                                      *)
Remember(c) ==
  IF c \in recentSet
    THEN UNCHANGED memoryVars
    ELSE /\ recentIds' = NewRecentIds(c)
         /\ recentSet' = NewRecentSet(c)
         /\ remembered' = Append(remembered, c)

(* handle_message of a malformed frame: an error reply that is not         *)
(* remembered.                                                             *)
HandleMalformed(c) ==
  /\ \E f \in Forms \ {"good"} : Reads([type |-> "tool_call", call |-> c, form |-> f])
  /\ Answer(c)
  /\ UNCHANGED <<linked, awaiting, threads, memoryVars, runs, soundVars, serverVars>>

(* Fault: the ids are remembered and never looked up.                      *)
IsDuplicate_Never(c) == FALSE

IsDuplicate(c) == c \in recentSet

(* A call_id that was answered before is ignored.                          *)
HandleDuplicate(c) ==
  /\ Reads([type |-> "tool_call", call |-> c, form |-> "good"])
  /\ IsDuplicate(c)
  /\ UNCHANGED <<linked, awaiting, threads, memoryVars, answers, runs, soundVars, serverVars>>

(* _prepare_blender_command raises: no calibrated cursor.                  *)
HandleUnprepared(c) ==
  /\ Reads([type |-> "tool_call", call |-> c, form |-> "good"])
  /\ ~IsDuplicate(c)
  /\ Answer(c)
  /\ Remember(c)
  /\ UNCHANGED <<linked, awaiting, threads, runs, soundVars, serverVars>>

(* The command goes to a worker thread, and the loop awaits it.            *)
Dispatch(c) ==
  /\ Reads([type |-> "tool_call", call |-> c, form |-> "good"])
  /\ ~IsDuplicate(c)
  /\ awaiting' = c
  /\ threads' = threads \cup {c}
  /\ runs' = [runs EXCEPT ![c] = @ + 1]
  /\ UNCHANGED <<linked, memoryVars, answers, soundVars, serverVars>>

(* After the answer of either kind the id is remembered.                   *)
AfterAnswer(c) == Remember(c)

(* Fault: the Blender socket has no timeout.                               *)
ThreadEnds_Hangs(c) == FALSE /\ UNCHANGED vars

(* send_command returns or raises.  The loop answers and goes on, unless   *)
(* the connection it worked for is gone: then nobody hears of the result.  *)
ThreadEnds(c) ==
  /\ c \in threads
  /\ threads' = threads \ {c}
  /\ IF linked
       THEN Answer(c) /\ AfterAnswer(c) /\ awaiting' = None
       ELSE UNCHANGED <<answers, memoryVars, awaiting>>
  /\ UNCHANGED <<linked, inbox, runs, soundVars, serverVars>>

(* The connection ends: the receiver task is cancelled, its thread is not. *)
Disconnect ==
  /\ linked
  /\ linked' = FALSE
  /\ inbox' = <<>>
  /\ awaiting' = None
  /\ playback' = <<>>
  /\ UNCHANGED <<threads, memoryVars, answers, runs, cleared, serverVars>>

-----------------------------------------------------------------------------
LoopStep ==
  \/ ReadAudio \/ ReadInterrupt
  \/ \E c \in Calls : \/ HandleMalformed(c) \/ HandleDuplicate(c)
                      \/ HandleUnprepared(c) \/ Dispatch(c)

Next ==
  \/ ServerCloses \/ ServerSpeaks \/ ServerInterrupts
  \/ \E c \in Calls : ServerCalls(c) \/ Redeliver(c) \/ ThreadEnds(c)
  \/ LoopStep \/ Play \/ Disconnect

(* The loop reads on, and send_command ends, by its 180 s timeout at last. *)
Fairness == WF_vars(LoopStep) /\ \A c \in Calls : WF_vars(ThreadEnds(c))

Spec == Init /\ [][Next]_vars
FairSpec == Spec /\ Fairness

-----------------------------------------------------------------------------
(* Properties *)

(* The two halves of the executor's memory hold the same ids, each once,   *)
(* and never more than the bound.                                          *)
MemoryConsistent ==
  /\ recentSet = Range(recentIds)
  /\ Len(recentIds) <= MaxRecent
  /\ IsInjective(recentIds)

(* A call among the last MaxRecent that were answered is not run again.    *)
LastRemembered == {remembered[i] : i \in {j \in 1 .. Len(remembered) :
                                            j + MaxRecent > Len(remembered)}}
NotRerun ==
  [][\A c \in Calls : runs'[c] # runs[c] => c \notin LastRemembered]_vars

(* Nothing said before an interrupt is still played after it.              *)
NoStaleSpeech == \A i \in 1 .. Len(playback) : playback[i] = cleared

(* CONTRACTS.md 2.3: "barge-in: clear local audio playback immediately".   *)
(* An interrupt that has arrived does not wait for a tool to finish.       *)
BargeInIsImmediate ==
  Interrupt \in Range(inbox) => awaiting = None

(* A tool_call frame that the loop has before it is answered, or was       *)
(* answered before, or the connection ends.                                *)
HeadIsCall(c) == inbox # <<>> /\ Head(inbox) \in ToolFrames /\ Head(inbox).call = c
EveryCallAnswered ==
  \A c \in Calls : HeadIsCall(c) ~> (answers[c] > 0 \/ ~linked)
=============================================================================
