---------------------------- MODULE AddonServer ----------------------------
(***************************************************************************)
(* The life of the socket server inside Blender: ForgeServer.start, stop,  *)
(* _server_loop and _handle_client of addon/forge_addon.py, the panel's    *)
(* operators and the autostart that call them, and ensure_blender_running  *)
(* of client/blender_launcher.py, which attaches to a Blender whose server *)
(* answers or spawns one.                                                  *)
(*                                                                         *)
(* Operators, autostart and timers run on the main thread of a Blender,    *)
(* one at a time; a server has one thread that accepts and one for each    *)
(* client.  BlenderLink models what a connection carries; a connection     *)
(* carries one command here.                                               *)
(***************************************************************************)
EXTENDS Naturals

CONSTANTS
  User,        \* the Blender the user may have open
  Spawned,     \* the Blender the launcher starts
  Scenes,      \* scenes of a file, each with a forge_server_running of its own
  MaxServers,  \* bounds how many ForgeServer objects are made
  Conns,       \* connections that clients make
  None

Blenders == {User, Spawned}
Servers == 1 .. MaxServers

ASSUME AddonAssumption ==
  /\ MaxServers \in Nat \ {0}
  /\ User # Spawned /\ None \notin Blenders \cup Servers

VARIABLES
  status,    \* of each Blender process
  busy,      \* its main thread is in a long operation of the user's
  forge,     \* bpy.types.forge_server
  panel,     \* forge_server_running of each scene
  owner,     \* the Blender a ForgeServer was made in
  running,   \* its self.running
  listening, \* its listening socket is open
  loop,      \* its accepting thread
  link,      \* each connection: its handler thread in the addon
  server,    \* the server it was made to
  command,   \* its command
  answered,  \* its reply was sent on an open socket
  launcher,  \* where ensure_blender_running is
  handle     \* what it returned

processVars == <<status, busy, forge, panel>>
serverVars  == <<owner, running, listening, loop>>
connVars    == <<link, server, command, answered>>
launchVars  == <<launcher, handle>>
vars == <<processVars, serverVars, connVars, launchVars>>

(* Where a connection can be that the client may still use; "held" is one  *)
(* without a handler thread.                                               *)
Alive == {"backlog", "accepted", "held", "open"}

Handles == [attached : BOOLEAN, process : {Spawned, None}]

TypeOK ==
  /\ status \in [Blenders -> {"off", "booting", "up", "gone"}]
  /\ busy \in [Blenders -> BOOLEAN]
  /\ forge \in [Blenders -> Servers \cup {None}]
  /\ panel \in [Blenders -> [Scenes -> BOOLEAN]]
  /\ owner \in [Servers -> Blenders \cup {None}]
  /\ running \in [Servers -> BOOLEAN]
  /\ listening \in [Servers -> BOOLEAN]
  /\ loop \in [Servers -> {"none", "accepting", "ended", "failed"}]
  /\ link \in [Conns -> {"unused", "closed"} \cup Alive]
  /\ server \in [Conns -> Servers \cup {None}]
  /\ command \in [Conns -> {"none", "sent", "registered", "run"}]
  /\ answered \in [Conns -> BOOLEAN]
  /\ launcher \in {"idle", "probing", "polling", "done", "failed"}
  /\ handle \in Handles \cup {None}
  /\ handle # None => (handle.attached <=> handle.process = None)
  /\ \A b \in Blenders : forge[b] # None => owner[forge[b]] = b

Init ==
  /\ status \in {[b \in Blenders |-> "off"],
                 [b \in Blenders |-> IF b = User THEN "up" ELSE "off"]}
  /\ busy = [b \in Blenders |-> FALSE]
  /\ forge = [b \in Blenders |-> None]
  /\ panel = [b \in Blenders |-> [s \in Scenes |-> FALSE]]
  /\ owner = [s \in Servers |-> None]
  /\ running = [s \in Servers |-> FALSE]
  /\ listening = [s \in Servers |-> FALSE]
  /\ loop = [s \in Servers |-> "none"]
  /\ link = [c \in Conns |-> "unused"]
  /\ server = [c \in Conns |-> None]
  /\ command = [c \in Conns |-> "none"]
  /\ answered = [c \in Conns |-> FALSE]
  /\ launcher = "idle" /\ handle = None

-----------------------------------------------------------------------------
(* start and stop, on the main thread of Blender b *)

MainThread(b) == status[b] = "up" /\ ~busy[b]

PortFree == \A s \in Servers : ~listening[s]

(* The connections that nobody accepts any more.                           *)
ResetBacklog(s) ==
  link' = [c \in Conns |-> IF server[c] = s /\ link[c] = "backlog"
                             THEN "closed" ELSE link[c]]

(* ForgeServer.stop: the handler threads are not told.                     *)
Stop(s) ==
  /\ running' = [running EXCEPT ![s] = FALSE]
  /\ listening' = [listening EXCEPT ![s] = FALSE]
  /\ ResetBacklog(s)

(* Fault: a server that runs is started again.                             *)
AlreadyRuns_Never(s) == FALSE

AlreadyRuns(s) == running[s]

(* ForgeServer.start: another program may hold the port, and its failure   *)
(* is printed and swallowed.                                               *)
StartServer(s) ==
  \/ /\ AlreadyRuns(s)
     /\ UNCHANGED <<running, listening, loop, link>>
  \/ /\ ~AlreadyRuns(s)
     /\ PortFree
     /\ running' = [running EXCEPT ![s] = TRUE]
     /\ listening' = [listening EXCEPT ![s] = TRUE]
     /\ loop' = [loop EXCEPT ![s] = "accepting"]
     /\ UNCHANGED link
  \/ /\ ~AlreadyRuns(s)
     /\ Stop(s)
     /\ UNCHANGED loop

(* A ForgeServer is made unless there is one.                              *)
ServerOf(b, s) ==
  IF forge[b] # None THEN s = forge[b]
  ELSE owner[s] = None /\ \A t \in 1 .. s - 1 : owner[t] # None

StartIn(b) ==
  \E s \in Servers :
    /\ ServerOf(b, s)
    /\ forge' = [forge EXCEPT ![b] = s]
    /\ owner' = [owner EXCEPT ![s] = b]
    /\ StartServer(s)

(* FORGE_OT_StartServer, where the current scene's panel offers it.        *)
Connect(b, scene) ==
  /\ MainThread(b)
  /\ ~panel[b][scene]
  /\ StartIn(b)
  /\ panel' = [panel EXCEPT ![b][scene] = TRUE]
  /\ UNCHANGED <<status, busy, server, command, answered, launchVars>>

(* _autostart_from_env, on a timer, once Blender is up.                    *)
Autostart ==
  /\ status[Spawned] = "booting"
  /\ status' = [status EXCEPT ![Spawned] = "up"]
  /\ StartIn(Spawned)
  /\ panel' = [panel EXCEPT ![Spawned] = [s \in Scenes |-> TRUE]]
  /\ UNCHANGED <<busy, server, command, answered, launchVars>>

(* Fault: the server is forgotten and not stopped.                         *)
Released_NotStopped(b) == UNCHANGED <<running, listening, link>>

Released(b) ==
  IF forge[b] = None THEN UNCHANGED <<running, listening, link>> ELSE Stop(forge[b])

(* FORGE_OT_StopServer; disabling the addon (unregister) does the same.    *)
Disconnect(b, scene) ==
  /\ MainThread(b)
  /\ panel[b][scene]
  /\ Released(b)
  /\ forge' = [forge EXCEPT ![b] = None]
  /\ panel' = [panel EXCEPT ![b][scene] = FALSE]
  /\ UNCHANGED <<status, busy, owner, loop, server, command, answered, launchVars>>

-----------------------------------------------------------------------------
(* The threads of a server *)

(* The accepting thread's variable holds the client for which no thread    *)
(* could be started; the next client, or the thread's end, lets go of it.  *)
LetGo(s) ==
  [c \in Conns |-> IF server[c] = s /\ link[c] = "held" THEN "closed" ELSE link[c]]

(* The client gets a thread of its own, or the failure to start one is     *)
(* printed and the loop goes on.                                           *)
Accept(s) ==
  /\ loop[s] = "accepting"
  /\ running[s]
  /\ \E c \in Conns, place \in {"accepted", "held"} :
       /\ server[c] = s /\ link[c] = "backlog"
       /\ link' = [LetGo(s) EXCEPT ![c] = place]
  /\ UNCHANGED <<processVars, serverVars, server, command, answered, launchVars>>

LoopLeft(s, how) ==
  /\ loop[s] = "accepting"
  /\ loop' = [loop EXCEPT ![s] = how]
  /\ link' = LetGo(s)
  /\ UNCHANGED <<processVars, owner, running, listening, server, command, answered,
                 launchVars>>

(* Fault: a second without a client is the end of it.                      *)
LoopStops_OnTimeout(s) == TRUE

(* The flag, or accept on the closed socket, ends the loop in good order.  *)
LoopStops(s) == ~running[s]

LoopEnds(s) == LoopStops(s) /\ LoopLeft(s, "ended")

(* accept raises any other OSError on the open socket, for want of file    *)
(* descriptors for one: the thread breaks off, and neither the flag nor    *)
(* the socket, on which clients go on being queued, tells of it.           *)
AcceptFails(s) == running[s] /\ LoopLeft(s, "failed")

(* _handle_client tests running and then waits in recv, without a timeout. *)
HandlerEnters(c) ==
  /\ link[c] = "accepted"
  /\ link' = [link EXCEPT ![c] = IF running[server[c]] THEN "open" ELSE "closed"]
  /\ UNCHANGED <<processVars, serverVars, server, command, answered, launchVars>>

(* A whole command was read: its timer is registered before the flag,      *)
(* which ends the thread, is looked at again.                              *)
HandlerReads(c) ==
  /\ link[c] = "open"
  /\ command[c] = "sent"
  /\ command' = [command EXCEPT ![c] = "registered"]
  /\ link' = [link EXCEPT ![c] = IF running[server[c]] THEN "open" ELSE "closed"]
  /\ UNCHANGED <<processVars, serverVars, server, answered, launchVars>>

(* Fault: nothing is sent for a server that was stopped meanwhile.         *)
Replies_WhileRunning(c) == link[c] = "open" /\ running[server[c]]

(* The reply is sent unless its thread, or the client, closed the socket.  *)
Replies(c) == link[c] = "open"

(* execute_wrapper: the command runs, even after Disconnect.               *)
RunTimer(c) ==
  /\ command[c] = "registered"
  /\ MainThread(owner[server[c]])
  /\ command' = [command EXCEPT ![c] = "run"]
  /\ answered' = [answered EXCEPT ![c] = Replies(c)]
  /\ UNCHANGED <<processVars, serverVars, link, server, launchVars>>

-----------------------------------------------------------------------------
(* Clients, users and processes *)

ClientConnects(c) ==
  /\ link[c] = "unused"
  /\ \E s \in Servers : listening[s] /\ server' = [server EXCEPT ![c] = s]
  /\ link' = [link EXCEPT ![c] = "backlog"]
  /\ UNCHANGED <<processVars, serverVars, command, answered, launchVars>>

ClientSends(c) ==
  /\ link[c] \in Alive
  /\ command[c] = "none"
  /\ command' = [command EXCEPT ![c] = "sent"]
  /\ UNCHANGED <<processVars, serverVars, link, server, answered, launchVars>>

ClientCloses(c) ==
  /\ link[c] \in Alive
  /\ link' = [link EXCEPT ![c] = "closed"]
  /\ UNCHANGED <<processVars, serverVars, server, command, answered, launchVars>>

UserWorks(b) ==
  /\ status[b] = "up"
  /\ busy' = [busy EXCEPT ![b] = ~@]
  /\ UNCHANGED <<status, forge, panel, serverVars, connVars, launchVars>>

UserOpensBlender ==
  /\ status[User] = "off"
  /\ status' = [status EXCEPT ![User] = "up"]
  /\ UNCHANGED <<busy, forge, panel, serverVars, connVars, launchVars>>

BlenderExits(b) ==
  /\ status[b] \in {"booting", "up"}
  /\ status' = [status EXCEPT ![b] = "gone"]
  /\ busy' = [busy EXCEPT ![b] = FALSE]
  /\ running' = [s \in Servers |-> running[s] /\ owner[s] # b]
  /\ listening' = [s \in Servers |-> listening[s] /\ owner[s] # b]
  /\ loop' = [s \in Servers |-> IF owner[s] = b /\ loop[s] = "accepting"
                                  THEN "ended" ELSE loop[s]]
  /\ link' = [c \in Conns |-> IF server[c] # None /\ owner[server[c]] = b
                                THEN "closed" ELSE link[c]]
  /\ forge' = [forge EXCEPT ![b] = None]
  /\ UNCHANGED <<panel, owner, server, command, answered, launchVars>>

-----------------------------------------------------------------------------
(* ensure_blender_running *)

(* _socket_responds: get_scene_info is answered within a second, which a   *)
(* busy main thread does not, nor a server without its thread.             *)
Responds(b) ==
  \E s \in Servers :
    running[s] /\ loop[s] = "accepting" /\ owner[s] = b /\ MainThread(b)
NoneResponds == \A b \in Blenders : ~Responds(b)

LauncherBegins ==
  /\ launcher = "idle"
  /\ launcher' = "probing"
  /\ UNCHANGED <<processVars, serverVars, connVars, handle>>

Attach ==
  /\ launcher = "probing"
  /\ launcher' = "done"
  /\ ~NoneResponds
  /\ handle' = [attached |-> TRUE, process |-> None]
  /\ UNCHANGED <<processVars, serverVars, connVars>>

(* Popen; there may be no Blender to start.                                *)
Spawn ==
  /\ launcher = "probing"
  /\ NoneResponds
  /\ \/ launcher' = "polling" /\ status' = [status EXCEPT ![Spawned] = "booting"]
     \/ launcher' = "failed" /\ UNCHANGED status
  /\ UNCHANGED <<busy, forge, panel, serverVars, connVars, handle>>

Launched == [attached |-> FALSE, process |-> Spawned]

(* Whichever Blender holds the port may answer the poll.                   *)
PollSucceeds ==
  /\ launcher = "polling"
  /\ launcher' = "done"
  /\ ~NoneResponds
  /\ handle' = Launched
  /\ UNCHANGED <<processVars, serverVars, connVars>>

(* The process ended or, sooner or later, the deadline passed.             *)
PollFails ==
  /\ launcher = "polling"
  /\ launcher' = "failed"
  /\ UNCHANGED <<processVars, serverVars, connVars, handle>>

-----------------------------------------------------------------------------
Next ==
  \/ \E b \in Blenders : \/ \E scene \in Scenes : Connect(b, scene) \/ Disconnect(b, scene)
                         \/ UserWorks(b) \/ BlenderExits(b)
  \/ Autostart \/ UserOpensBlender
  \/ \E s \in Servers : Accept(s) \/ LoopEnds(s) \/ AcceptFails(s)
  \/ \E c \in Conns : \/ HandlerEnters(c) \/ HandlerReads(c) \/ RunTimer(c)
                      \/ ClientConnects(c) \/ ClientSends(c) \/ ClientCloses(c)
  \/ LauncherBegins \/ Attach \/ Spawn \/ PollSucceeds \/ PollFails

Spec == Init /\ [][Next]_vars

(* Threads run, and Blender runs the timers that are due whenever its main *)
(* loop turns; the user's long operations, which keep it from turning, end.*)
FairSpec ==
  /\ Spec
  /\ \A s \in Servers : WF_vars(Accept(s))
  /\ \A c \in Conns : /\ WF_vars(HandlerEnters(c)) /\ WF_vars(HandlerReads(c))
                      /\ SF_vars(RunTimer(c))
  /\ \A b \in Blenders : WF_vars(busy[b] /\ UserWorks(b))

-----------------------------------------------------------------------------
(* Properties *)

(* A listening socket belongs to the server its Blender can still stop:    *)
(* no Disconnect, failed start or exit leaves one behind that would keep   *)
(* the port and serve commands nobody can stop.                            *)
ListenersAreReachable ==
  \A s \in Servers : listening[s] => running[s] /\ forge[owner[s]] = s

(* Only Disconnect and the end of Blender stop a server: Connect pressed   *)
(* in another scene, whose panel does not know of the server, leaves it    *)
(* listening.                                                              *)
StopsOnlyWhenTold ==
  [][\A s \in Servers :
       listening[s] /\ ~listening'[s] => forge'[owner[s]] # s]_vars

(* A command on a connection of a server that goes on running is answered  *)
(* while its client waits, whatever happens on the other connections; only *)
(* one that has no handler thread may wait for good, because accept failed *)
(* or the thread could not be started.                                     *)
CommandsAnswered ==
  \A c \in Conns :
    command[c] = "sent" /\ link[c] \in Alive
      ~> \/ answered[c]
         \/ link[c] = "closed"
         \/ server[c] # None /\ ~running[server[c]]
         \/ link[c] = "backlog" /\ loop[server[c]] = "failed"
         \/ link[c] = "held"

(* A client never waits in vain: once its command has run, its connection  *)
(* is closed, or its reply was sent, even if the server was stopped at any *)
(* moment between.                                                         *)
RepliesAreNotLost ==
  \A c \in Conns : command[c] = "run" /\ link[c] = "open" => answered[c]
=============================================================================
