---------------------------- MODULE BlenderLink ----------------------------
(***************************************************************************)
(* The TCP seam between the client and Blender: BlenderConnection of       *)
(* client/blender_bridge.py, and the handler threads and main-thread       *)
(* timers of ForgeServer in addon/forge_addon.py.                          *)
(*                                                                         *)
(* One BlenderConnection is shared, without a lock, by the worker threads  *)
(* of run_in_executor (the current connection's, and those a reconnect     *)
(* left behind) and by the main thread, which recalibrates.  A step is     *)
(* what a thread does between two reads of self.sock or two socket calls.  *)
(*                                                                         *)
(* Messages have no framing: a reader holds what it has read until that    *)
(* parses, which a single message does and two run together never do.  A   *)
(* message is read whole: fragments are not modelled.                      *)
(***************************************************************************)
EXTENDS Naturals, Sequences, FiniteSets

CONSTANTS
  Threads,  \* threads of the client that call send_command
  Cmds,     \* invocations of send_command; a reply is named by its command
  Socks,    \* sockets that can be created, one for each command suffices
  None

ASSUME NamesAssumption ==
  /\ None \notin Threads \cup Cmds \cup Socks
  /\ {"unused", "pending", "failed"} \cap Cmds = {}

VARIABLES
  sock,      \* self.sock
  conn,      \* state of each socket
  pc,        \* where each thread is in send_command
  cmd,       \* the command each thread is sending
  mine,      \* the socket _receive_full_response was called with
  chunks,    \* what it has read
  reply,     \* how each invocation ended: the reply it took, or "failed"
  toAddon,   \* commands in each socket's stream
  toClient,  \* replies in each socket's stream
  buffer,    \* what the addon's handler thread has read and not parsed
  timers,    \* commands registered to run on Blender's main thread
  executed,  \* how often each command has run there
  overlapped \* history: a send_command began while another was in progress

vars == <<sock, conn, pc, cmd, mine, chunks, reply, toAddon, toClient, buffer,
          timers, executed, overlapped>>
threadVars == <<pc, cmd, mine, chunks, reply>>
addonVars  == <<buffer, timers, executed>>

Places == {"idle", "connect", "connecting", "send", "bind", "receive"}
Pending == "pending"
Failed  == "failed"
NotRun  == "unused"

TypeOK ==
  /\ sock \in Socks \cup {None}
  /\ conn \in [Socks -> {"unused", "new", "connected", "dropped", "closed"}]
  /\ pc \in [Threads -> Places]
  /\ cmd \in [Threads -> Cmds \cup {None}]
  /\ mine \in [Threads -> Socks \cup {None}]
  /\ chunks \in [Threads -> Seq(Cmds)]
  /\ reply \in [Cmds -> Cmds \cup {NotRun, Pending, Failed}]
  /\ toAddon \in [Socks -> Seq(Cmds)]
  /\ toClient \in [Socks -> Seq(Cmds)]
  /\ buffer \in [Socks -> Seq(Cmds)]
  /\ timers \subseteq Cmds \X Socks
  /\ executed \in [Cmds -> Nat]
  /\ overlapped \in BOOLEAN
  /\ \A t \in Threads : /\ pc[t] # "idle" => cmd[t] \in Cmds
                        /\ pc[t] = "receive" => mine[t] \in Socks

Init ==
  /\ sock = None
  /\ conn = [s \in Socks |-> "unused"]
  /\ pc = [t \in Threads |-> "idle"]
  /\ cmd = [t \in Threads |-> None]
  /\ mine = [t \in Threads |-> None]
  /\ chunks = [t \in Threads |-> <<>>]
  /\ reply = [c \in Cmds |-> NotRun]
  /\ toAddon = [s \in Socks |-> <<>>]
  /\ toClient = [s \in Socks |-> <<>>]
  /\ buffer = [s \in Socks |-> <<>>]
  /\ timers = {}
  /\ executed = [c \in Cmds |-> 0]
  /\ overlapped = FALSE

(* A socket object somebody still refers to: dropping the last reference   *)
(* closes it, which is all that ever closes a socket send_command gave up. *)
Referenced(s) == s = sock \/ \E t \in Threads : mine[t] = s

(* What reads see: one message parses, no message and several do not.      *)
Parses(messages) == Len(messages) = 1

(* recv returns some non-empty prefix of the stream.                       *)
Prefixes(stream) == 1 .. Len(stream)
First(stream, n) == SubSeq(stream, 1, n)
Rest(stream, n)  == SubSeq(stream, n + 1, Len(stream))

-----------------------------------------------------------------------------
(* send_command *)

(* The invocation of thread t ends with result r.                          *)
EndWith(t, r) ==
  /\ reply' = [reply EXCEPT ![cmd[t]] = r]
  /\ pc' = [pc EXCEPT ![t] = "idle"]
  /\ cmd' = [cmd EXCEPT ![t] = None]
  /\ mine' = [mine EXCEPT ![t] = None]
  /\ chunks' = [chunks EXCEPT ![t] = <<>>]

GoTo(t, place) ==
  /\ pc' = [pc EXCEPT ![t] = place]
  /\ UNCHANGED <<cmd, mine, chunks, reply>>

(* send_command is entered: is there a socket?                             *)
Begin(t, c) ==
  /\ pc[t] = "idle"
  /\ reply[c] = NotRun
  /\ cmd' = [cmd EXCEPT ![t] = c]
  /\ reply' = [reply EXCEPT ![c] = Pending]
  /\ pc' = [pc EXCEPT ![t] = IF sock = None THEN "connect" ELSE "send"]
  /\ overlapped' = (overlapped \/ \E u \in Threads : pc[u] # "idle")
  /\ UNCHANGED <<sock, conn, mine, chunks, toAddon, toClient, addonVars>>

(* The caller refuses the command itself: there is no tool, the arguments  *)
(* are no object, no cursor is calibrated.  send_command is not entered.   *)
Refused(c) ==
  /\ reply[c] = NotRun
  /\ reply' = [reply EXCEPT ![c] = Failed]
  /\ UNCHANGED <<sock, conn, pc, cmd, mine, chunks, toAddon, toClient, addonVars,
                 overlapped>>

(* connect(): a new socket is stored before it is connected.  One that     *)
(* another thread has stored since is used if the test of self.sock saw    *)
(* it, and otherwise replaced.                                             *)
MakeSocket(t) ==
  /\ pc[t] = "connect"
  /\ \/ sock # None /\ GoTo(t, "send") /\ UNCHANGED <<sock, conn>>
     \/ \E s \in Socks :
          /\ conn[s] = "unused"
          /\ conn' = [conn EXCEPT ![s] = "new"]
          /\ sock' = s
          /\ GoTo(t, "connecting")
  /\ UNCHANGED <<toAddon, toClient, addonVars, overlapped>>

(* self.sock.connect succeeds, on whatever socket self.sock now is.        *)
Connected(t) ==
  /\ pc[t] = "connecting"
  /\ sock # None
  /\ conn[sock] = "new"
  /\ conn' = [conn EXCEPT ![sock] = "connected"]
  /\ GoTo(t, "send")
  /\ UNCHANGED <<sock, toAddon, toClient, addonVars, overlapped>>

(* It raises: Blender does not listen, or the socket is already connected, *)
(* or another thread has set self.sock to None.                            *)
NotConnected(t) ==
  /\ pc[t] = "connecting"
  /\ sock' = None
  /\ EndWith(t, Failed)
  /\ UNCHANGED <<conn, toAddon, toClient, addonVars, overlapped>>

CanSend == sock \in {s \in Socks : conn[s] = "connected"}

(* sendall on the current self.sock.                                       *)
Send(t) ==
  /\ pc[t] = "send"
  /\ CanSend
  /\ toAddon' = [toAddon EXCEPT ![sock] = Append(@, cmd[t])]
  /\ GoTo(t, "bind")
  /\ UNCHANGED <<sock, conn, toClient, addonVars, overlapped>>

(* The assertion fails, or the socket is not connected or closed by the    *)
(* addon.  (A send to a closed peer that goes unnoticed fails in receive.) *)
SendFails(t) ==
  /\ pc[t] = "send"
  /\ ~CanSend
  /\ sock' = None
  /\ EndWith(t, Failed)
  /\ UNCHANGED <<conn, toAddon, toClient, addonVars, overlapped>>

(* self.sock is read again to call _receive_full_response.                 *)
Bind(t) ==
  /\ pc[t] = "bind"
  /\ IF sock = None
       THEN EndWith(t, Failed)
       ELSE /\ mine' = [mine EXCEPT ![t] = sock]
            /\ pc' = [pc EXCEPT ![t] = "receive"]
            /\ UNCHANGED <<cmd, chunks, reply>>
  /\ UNCHANGED <<sock, conn, toAddon, toClient, addonVars, overlapped>>

(* A chunk is read; when everything read so far parses, it is the reply.   *)
Receive(t) ==
  /\ pc[t] = "receive"
  /\ \E n \in Prefixes(toClient[mine[t]]) :
       LET read == chunks[t] \o First(toClient[mine[t]], n) IN
       /\ toClient' = [toClient EXCEPT ![mine[t]] = Rest(@, n)]
       /\ IF Parses(read)
            THEN EndWith(t, read[1])
            ELSE /\ chunks' = [chunks EXCEPT ![t] = read]
                 /\ UNCHANGED <<pc, cmd, mine, reply>>
  /\ UNCHANGED <<sock, conn, toAddon, addonVars, overlapped>>

(* Fault: a timeout leaves the socket in place.                            *)
AfterFailure_Kept == sock

(* The failed socket is given up, whichever one self.sock is by now.       *)
AfterFailure == None

(* Fault: the socket is read without a timeout.                            *)
ReceiveFails_NoTimeout(t) ==
  /\ pc[t] = "receive"
  /\ conn[mine[t]] = "closed" /\ toClient[mine[t]] = <<>>
  /\ sock' = AfterFailure
  /\ EndWith(t, Failed)
  /\ UNCHANGED <<conn, toAddon, toClient, addonVars, overlapped>>

(* 180 s without a chunk, or the peer has closed.                          *)
ReceiveFails(t) ==
  /\ pc[t] = "receive"
  /\ sock' = AfterFailure
  /\ EndWith(t, Failed)
  /\ UNCHANGED <<conn, toAddon, toClient, addonVars, overlapped>>

(* disconnect(), by a thread that is not in send_command itself.  What has  *)
(* been sent may still be read by the addon; what came back is lost.       *)
Disconnect(t) ==
  /\ pc[t] = "idle"
  /\ sock # None
  /\ conn' = [conn EXCEPT ![sock] = IF @ = "connected" THEN "dropped" ELSE "closed"]
  /\ toClient' = [toClient EXCEPT ![sock] = <<>>]
  /\ sock' = None
  /\ UNCHANGED <<threadVars, toAddon, addonVars, overlapped>>

-----------------------------------------------------------------------------
(* The addon *)

(* The handler thread of s is at its end of the connection.                *)
Served(s) == conn[s] \in {"connected", "dropped"}

(* A handler thread reads; what parses is registered with bpy.app.timers.  *)
AddonReceive(s) ==
  /\ Served(s)
  /\ \E n \in Prefixes(toAddon[s]) :
       LET read == buffer[s] \o First(toAddon[s], n) IN
       /\ toAddon' = [toAddon EXCEPT ![s] = Rest(@, n)]
       /\ IF Parses(read)
            THEN /\ timers' = timers \cup {<<read[1], s>>}
                 /\ buffer' = [buffer EXCEPT ![s] = <<>>]
            ELSE /\ buffer' = [buffer EXCEPT ![s] = read]
                 /\ UNCHANGED timers
  /\ UNCHANGED <<sock, conn, threadVars, toClient, executed, overlapped>>

(* Fault: the timer's function does not unregister itself.                 *)
Unregistered_Not(timer) == timers

(* execute_wrapper returns None: the timer is one-shot.                    *)
Unregistered(timer) == timers \ {timer}

(* execute_wrapper on the main thread: run the handler, send the response; *)
(* a send to a closed socket is swallowed.                                 *)
Execute(timer) ==
  LET c == timer[1]
      s == timer[2]
  IN /\ timer \in timers
     /\ timers' = Unregistered(timer)
     /\ executed' = [executed EXCEPT ![c] = @ + 1]
     /\ toClient' = IF Referenced(s) /\ conn[s] = "connected"
                      THEN [toClient EXCEPT ![s] = Append(@, c)]
                      ELSE toClient
     /\ UNCHANGED <<sock, conn, threadVars, toAddon, buffer, overlapped>>

(* The handler thread ends: the client has closed, or the server has been  *)
(* stopped.  Commands already registered still run.                        *)
AddonCloses(s) ==
  /\ Served(s)
  /\ conn' = [conn EXCEPT ![s] = "closed"]
  /\ UNCHANGED <<sock, threadVars, toAddon, toClient, addonVars, overlapped>>

-----------------------------------------------------------------------------
ThreadStep(t) ==
  \/ MakeSocket(t) \/ Connected(t) \/ NotConnected(t)
  \/ Send(t) \/ SendFails(t) \/ Bind(t) \/ Receive(t) \/ ReceiveFails(t)

AddonStep ==
  \/ \E s \in Socks : AddonReceive(s) \/ AddonCloses(s)
  \/ \E timer \in timers : Execute(timer)

Next ==
  \/ \E t \in Threads, c \in Cmds : Begin(t, c)
  \/ \E c \in Cmds : Refused(c)
  \/ \E t \in Threads : ThreadStep(t) \/ Disconnect(t)
  \/ AddonStep

(* Threads run and socket timeouts fire; Blender's main thread may be busy *)
(* for as long as it likes.                                                *)
Fairness == \A t \in Threads : WF_vars(ThreadStep(t))

Spec == Init /\ [][Next]_vars
FairSpec == Spec /\ Fairness

-----------------------------------------------------------------------------
(* Properties *)

Taken(c) == reply[c] \in Cmds

(* A command never takes another command's reply, as long as the caller    *)
(* keeps to one send_command at a time, whatever timed out before.         *)
OwnReply == ~overlapped => \A c \in Cmds : Taken(c) => reply[c] = c

(* No handler thread holds bytes that can never become a command, and no   *)
(* reader bytes that can never become a reply: nobody waits for a parse    *)
(* that cannot succeed.  Again for one send_command at a time.             *)
StreamsParse ==
  ~overlapped =>
    /\ \A s \in Socks : Len(buffer[s]) <= 1
    /\ \A t \in Threads : Len(chunks[t]) <= 1

(* A command runs in Blender at most once, whatever the client makes of it.*)
AtMostOnce == \A c \in Cmds : executed[c] <= 1

(* Every send_command returns or raises, even when Blender never answers   *)
(* or the stream no longer parses.                                         *)
EveryCommandEnds == \A c \in Cmds : (reply[c] = Pending) ~> (reply[c] # Pending)
=============================================================================
