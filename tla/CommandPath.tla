---------------------------- MODULE CommandPath ----------------------------
(***************************************************************************)
(* A tool call from the agent to Blender and back, with every timeout on   *)
(* its way: call_local_tool waits 20 s for the client                      *)
(* (server/runtime/session_bridge.py), the client's receiver awaits one    *)
(* call at a time (client/local_executor.py) and send_command waits 180 s  *)
(* for Blender (BlenderLink).  An agent whose call has timed out may make  *)
(* it again while the first is still on its way.                           *)
(*                                                                         *)
(* The receiver is not the only one that uses the connection to Blender:   *)
(* a connection to the server that is lost leaves its worker thread        *)
(* behind, and the companion's window sends commands from the main thread  *)
(* (recalibrate) and closes the socket when it stops.                      *)
(***************************************************************************)
EXTENDS BlenderLink

CONSTANTS
  Main,      \* the main thread; the others are the executor's workers
  MaxLosses  \* bound on the lost connections to the server

ASSUME PathAssumption ==
  /\ Main \in Threads
  /\ MaxLosses \in Nat

VARIABLES
  call,    \* what each command is for: a tool call, as the agent knows it,
           \* or the window
  inbox,   \* tool_call frames the client has not read
  doing,   \* the call the receiver awaits, or None
  line,    \* history: the calls made over this connection, in order
  losses,  \* connections to the server lost so far
  stopped  \* the window has stopped the runtime and closed the socket

pathVars == <<call, inbox, doing, line, losses, stopped>>
allVars  == <<vars, pathVars>>

Workers == Threads \ {Main}

PathTypeOK ==
  /\ TypeOK
  /\ call \in [Cmds -> {"unused", "window", "open", "ok", "error", "timeout"}]
  /\ inbox \in Seq(Cmds)
  /\ doing \in Cmds \cup {None}
  /\ line \in Seq(Cmds)
  /\ losses \in 0 .. MaxLosses
  /\ stopped \in BOOLEAN

PathInit ==
  /\ Init
  /\ call = [c \in Cmds |-> "unused"]
  /\ inbox = <<>> /\ doing = None /\ line = <<>>
  /\ losses = 0 /\ stopped = FALSE

-----------------------------------------------------------------------------
(* The server *)

(* A call, or the repetition of one that has timed out.                    *)
CallTool(c) ==
  /\ call[c] = "unused"
  /\ ~stopped
  /\ call' = [call EXCEPT ![c] = "open"]
  /\ inbox' = Append(inbox, c)
  /\ line' = Append(line, c)
  /\ UNCHANGED <<vars, doing, losses, stopped>>

(* wait_for's 20 s are over, or the bridge is gone: the client never       *)
(* learns of it.                                                           *)
GiveUp(c) ==
  /\ call[c] = "open"
  /\ call' = [call EXCEPT ![c] = "timeout"]
  /\ UNCHANGED <<vars, inbox, doing, line, losses, stopped>>

-----------------------------------------------------------------------------
(* The client *)

(* Fault: the receiver does not await the tools.                           *)
ReceiverReady_Always == TRUE

(* handle_message is awaited before the next frame is read.                *)
ReceiverReady == doing = None

(* The next call goes to a worker thread.                                  *)
Dispatch(t) ==
  /\ ReceiverReady
  /\ inbox # <<>>
  /\ Begin(t, Head(inbox))
  /\ doing' = Head(inbox)
  /\ inbox' = Tail(inbox)
  /\ UNCHANGED <<call, line, losses, stopped>>

(* handle_message refuses the next call before it leaves the client.       *)
Refuse ==
  /\ ReceiverReady
  /\ inbox # <<>>
  /\ Refused(Head(inbox))
  /\ doing' = Head(inbox)
  /\ inbox' = Tail(inbox)
  /\ UNCHANGED <<call, line, losses, stopped>>

(* Fault: a command that raised is reported as done.                       *)
Results_Swallowed(c) == {"ok"}

(* A reply is a result or Blender's error; a transport failure is an error.*)
Results(c) == IF Taken(c) THEN {"ok", "error"} ELSE {"error"}

(* The worker is done and the tool_result reaches the server, where a call *)
(* that was given up has no Future any more.                               *)
Answer ==
  /\ doing # None
  /\ reply[doing] # Pending
  /\ doing' = None
  /\ call' \in IF call[doing] = "open"
                 THEN {[call EXCEPT ![doing] = r] : r \in Results(doing)}
                 ELSE {call}
  /\ UNCHANGED <<vars, inbox, line, losses, stopped>>

(* The receiver is cancelled with what it had read; its worker is not.     *)
Dropped == inbox' = <<>> /\ doing' = None /\ line' = <<>>

LoseConnection ==
  /\ losses < MaxLosses
  /\ ~stopped
  /\ losses' = losses + 1
  /\ Dropped
  /\ UNCHANGED <<vars, call, stopped>>

(* recalibrate sends get_view_geometry and the commands of the guides.     *)
WindowSends(c) ==
  /\ ~stopped
  /\ call[c] = "unused"
  /\ call' = [call EXCEPT ![c] = "window"]
  /\ Begin(Main, c)
  /\ UNCHANGED <<inbox, doing, line, losses, stopped>>

(* stop() of the window: the runtime first, the socket at last.            *)
WindowStops ==
  /\ ~stopped
  /\ stopped' = TRUE
  /\ Dropped
  /\ IF sock = None THEN pc[Main] = "idle" /\ UNCHANGED vars ELSE Disconnect(Main)
  /\ UNCHANGED <<call, losses>>

-----------------------------------------------------------------------------
PathThreadStep(t) == ThreadStep(t) /\ UNCHANGED pathVars

PathNext ==
  \/ \E c \in Cmds : CallTool(c) \/ GiveUp(c) \/ WindowSends(c)
  \/ \E t \in Workers : Dispatch(t)
  \/ Refuse \/ Answer \/ LoseConnection \/ WindowStops
  \/ \E t \in Threads : PathThreadStep(t)
  \/ AddonStep /\ UNCHANGED pathVars

PathSpec == PathInit /\ [][PathNext]_allVars

(* As in BlenderLink: threads run on, and socket timeouts fire.            *)
PathFairSpec == PathSpec /\ \A t \in Threads : WF_allVars(PathThreadStep(t))

-----------------------------------------------------------------------------
(* Properties *)

(* Nobody but the receiver of the first connection has used the socket.    *)
ReceiverAlone == losses = 0 /\ \A c \in Cmds : call[c] # "window"

(* Two commands are in flight at once only if a lost connection has left a *)
(* worker behind, or the window sends commands: the receiver alone never   *)
(* makes two overlap, however many calls time out at the server.           *)
ReceiverTakesTurns == overlapped => ~ReceiverAlone

(* A call that is repeated while the first one is still running does not   *)
(* overtake it: of the calls of one connection a later one has run and an  *)
(* earlier one not only when the client's 180 s had passed for that one,   *)
(* its transport had failed or the client had refused it.                  *)
NoOvertaking ==
  ReceiverAlone =>
    \A i, j \in 1 .. Len(line) :
      i < j /\ executed[line[j]] > 0 /\ executed[line[i]] = 0 => reply[line[i]] = Failed

(* What the agent is told is done was done, and once: an "ok" means that   *)
(* this very call has run in Blender, unless two commands overlapped.      *)
OkMeansItRan ==
  ~overlapped => \A c \in Cmds : call[c] = "ok" => executed[c] = 1
=============================================================================
