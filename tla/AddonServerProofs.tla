------------------------- MODULE AddonServerProofs -------------------------
(***************************************************************************)
(* Proofs about AddonServer, for any number of scenes, of servers and of   *)
(* connections: no listening socket is ever out of reach, a server stops   *)
(* only when somebody stops it, no client waits for a reply that was       *)
(* dropped, and no command waits at a server that was stopped.             *)
(***************************************************************************)
EXTENDS AddonServer, TLAPS

(* A server that is open belongs to a Blender.                             *)
Owned == \A s \in Servers : running[s] \/ listening[s] => owner[s] \in Blenders

(* A command gets its timer on a connection that was open.                 *)
ReadWhileOpen ==
  \A c \in Conns :
    command[c] \in {"registered", "run"} => link[c] \in {"open", "closed"}

AddonInv ==
  /\ TypeOK
  /\ Owned
  /\ ListenersAreReachable
  /\ ReadWhileOpen
  /\ RepliesAreNotLost

(* Setting one flag.                                                       *)
LEMMA OneFlag ==
  ASSUME NEW S, NEW f \in [S -> BOOLEAN], NEW x, NEW r \in BOOLEAN
  PROVE  /\ [f EXCEPT ![x] = r] \in [S -> BOOLEAN]
         /\ \A y \in S : [f EXCEPT ![x] = r][y] = IF y = x THEN r ELSE f[y]
OBVIOUS

LEMMA Toggled ==
  ASSUME NEW S, NEW f \in [S -> BOOLEAN], NEW x
  PROVE  [f EXCEPT ![x] = ~@] \in [S -> BOOLEAN]
OBVIOUS

LEMMA InitAddonInv == Init => AddonInv
BY AddonAssumption
   DEF Init, AddonInv, TypeOK, Owned, ListenersAreReachable, ReadWhileOpen,
       RepliesAreNotLost, Handles, Blenders

(* What starting a server in a Blender does to the servers.                *)
LEMMA Starting ==
  ASSUME AddonInv, NEW b \in Blenders, StartIn(b)
  PROVE  /\ forge' \in [Blenders -> Servers \cup {None}]
         /\ owner' \in [Servers -> Blenders \cup {None}]
         /\ running' \in [Servers -> BOOLEAN]
         /\ listening' \in [Servers -> BOOLEAN]
         /\ loop' \in [Servers -> {"none", "accepting", "ended", "failed"}]
         /\ link' \in [Conns -> {"unused", "closed"} \cup Alive]
         /\ \A a \in Blenders : forge'[a] # None => owner'[forge'[a]] = a
         /\ Owned'
         /\ ListenersAreReachable'
         /\ \A c \in Conns : link'[c] = link[c] \/ link'[c] = "closed"
         /\ \A s \in Servers : listening[s] => listening'[s]
<1> USE AddonAssumption
<1>1. PICK s \in Servers : /\ ServerOf(b, s)
                           /\ forge' = [forge EXCEPT ![b] = s]
                           /\ owner' = [owner EXCEPT ![s] = b]
                           /\ StartServer(s)
  BY DEF StartIn
<1>2. owner[s] \in {b, None} /\ (owner[s] = b => forge[b] = s)
  BY <1>1 DEF ServerOf, AddonInv, TypeOK
<1>3. forge[b] \in {s, None}
  BY <1>1 DEF ServerOf, AddonInv, TypeOK
<1>4. /\ forge' \in [Blenders -> Servers \cup {None}]
      /\ owner' \in [Servers -> Blenders \cup {None}]
      /\ running' \in [Servers -> BOOLEAN]
      /\ listening' \in [Servers -> BOOLEAN]
      /\ loop' \in [Servers -> {"none", "accepting", "ended", "failed"}]
  <2>1. /\ forge' \in [Blenders -> Servers \cup {None}]
        /\ owner' \in [Servers -> Blenders \cup {None}]
    BY <1>1 DEF AddonInv, TypeOK
  <2>2. /\ running' = running \/ \E r \in BOOLEAN : running' = [running EXCEPT ![s] = r]
        /\ listening' = listening \/ \E r \in BOOLEAN : listening' = [listening EXCEPT ![s] = r]
        /\ loop' = loop \/ loop' = [loop EXCEPT ![s] = "accepting"]
    BY <1>1 DEF StartServer, Stop
  <2>3. running' \in [Servers -> BOOLEAN]
    BY <2>2, SMTT(40) DEF AddonInv, TypeOK
  <2>4. listening' \in [Servers -> BOOLEAN]
    BY <2>2, SMTT(40) DEF AddonInv, TypeOK
  <2>5. loop' \in [Servers -> {"none", "accepting", "ended", "failed"}]
    BY <2>2 DEF AddonInv, TypeOK
  <2> QED BY <2>1, <2>3, <2>4, <2>5
<1>5. /\ link' \in [Conns -> {"unused", "closed"} \cup Alive]
      /\ \A c \in Conns : link'[c] = link[c] \/ link'[c] = "closed"
  BY <1>1 DEF StartServer, Stop, ResetBacklog, AddonInv, TypeOK
<1>6. \A a \in Blenders : forge'[a] # None => owner'[forge'[a]] = a
  BY <1>1, <1>2 DEF AddonInv, TypeOK
<1>7. /\ \A t \in Servers : t # s => running'[t] = running[t] /\ listening'[t] = listening[t]
      /\ listening'[s] => running'[s]
      /\ listening[s] => listening'[s]
  BY <1>1 DEF StartServer, AlreadyRuns, Stop, AddonInv, TypeOK, ListenersAreReachable
<1>8. Owned'
  BY <1>1, <1>7 DEF Owned, AddonInv, TypeOK
<1>9. ASSUME NEW t \in Servers, listening'[t] PROVE running'[t] /\ forge'[owner'[t]] = t
  <2>1. CASE t = s
    BY <2>1, <1>1, <1>7, <1>9 DEF AddonInv, TypeOK
  <2>2. CASE t # s
    <3>1. running[t] /\ forge[owner[t]] = t /\ owner[t] \in Blenders
      BY <2>2, <1>7, <1>9 DEF AddonInv, ListenersAreReachable, Owned
    <3>2. owner[t] # b
      BY <3>1, <2>2, <1>3
    <3> QED BY <3>1, <3>2, <2>2, <1>1, <1>7 DEF AddonInv, TypeOK
  <2> QED BY <2>1, <2>2
<1>10. \A t \in Servers : listening[t] => listening'[t]
  BY <1>7
<1> QED BY <1>4, <1>5, <1>6, <1>8, <1>9, <1>10 DEF ListenersAreReachable

(* Connections that only close take nothing from a client.                 *)
LEMMA Closing ==
  ASSUME ReadWhileOpen, RepliesAreNotLost, UNCHANGED <<command, answered>>,
         \A c \in Conns : link'[c] = link[c] \/ link'[c] = "closed"
  PROVE  ReadWhileOpen' /\ RepliesAreNotLost'
BY DEF ReadWhileOpen, RepliesAreNotLost

(* What accepting a client does to the connections.                        *)
LEMMA Accepting ==
  ASSUME TypeOK, NEW s \in Servers, Accept(s)
  PROVE  \E c \in Conns :
           /\ link[c] = "backlog" /\ link'[c] \in {"accepted", "held"}
           /\ server[c] = s /\ loop[s] = "accepting"
           /\ \A d \in Conns : d # c => link'[d] = link[d] \/ link'[d] = "closed"
           /\ link' \in [Conns -> {"unused", "closed"} \cup Alive]
<1>1. PICK c \in Conns, place \in {"accepted", "held"} :
        /\ server[c] = s /\ link[c] = "backlog"
        /\ link' = [LetGo(s) EXCEPT ![c] = place]
  BY DEF Accept
<1>2. /\ LetGo(s) \in [Conns -> {"unused", "closed"} \cup Alive]
      /\ \A d \in Conns : LetGo(s)[d] = link[d] \/ LetGo(s)[d] = "closed"
  BY DEF LetGo, TypeOK
<1>3. place \in {"unused", "closed"} \cup Alive
  BY <1>1 DEF Alive
<1>4. link' \in [Conns -> {"unused", "closed"} \cup Alive]
  BY <1>1, <1>2, <1>3
<1>5. link'[c] = place /\ \A d \in Conns : d # c => link'[d] = LetGo(s)[d]
  BY <1>1, <1>2
<1>6. loop[s] = "accepting"
  BY DEF Accept
<1> QED BY <1>1, <1>2, <1>4, <1>5, <1>6

LEMMA NextAddonInv == AddonInv /\ [Next]_vars => AddonInv'
<1> SUFFICES ASSUME AddonInv, [Next]_vars PROVE AddonInv'
  OBVIOUS
<1> USE AddonAssumption DEF AddonInv
<1>1. ASSUME NEW b \in Blenders, NEW scene \in Scenes, Connect(b, scene) PROVE AddonInv'
  <2>1. StartIn(b) /\ UNCHANGED <<status, busy, server, command, answered, launcher, handle>>
    BY <1>1 DEF Connect, launchVars
  <2>2. panel' \in [Blenders -> [Scenes -> BOOLEAN]]
    BY <1>1 DEF Connect, TypeOK
  <2>3. TypeOK'
    BY <2>1, <2>2, Starting DEF TypeOK
  <2> QED BY <2>1, <2>3, Starting, Closing
<1>2. CASE Autostart
  <2>1. StartIn(Spawned) /\ UNCHANGED <<busy, server, command, answered, launcher, handle>>
    BY <1>2 DEF Autostart, launchVars
  <2>2. /\ panel' \in [Blenders -> [Scenes -> BOOLEAN]]
        /\ status' \in [Blenders -> {"off", "booting", "up", "gone"}]
    BY <1>2 DEF Autostart, TypeOK
  <2>3. Spawned \in Blenders
    BY DEF Blenders
  <2>4. TypeOK'
    BY <2>1, <2>2, <2>3, Starting DEF TypeOK
  <2> QED BY <2>1, <2>3, <2>4, Starting, Closing
<1>3. ASSUME NEW b \in Blenders, NEW scene \in Scenes, Disconnect(b, scene) PROVE AddonInv'
  <2> USE <1>3 DEF Disconnect, launchVars
  <2>1. \A c \in Conns : link'[c] = link[c] \/ link'[c] = "closed"
    BY DEF Released, Stop, ResetBacklog, TypeOK
  <2>2. \A s \in Servers : /\ listening'[s] => listening[s] /\ s # forge[b]
                           /\ running'[s] = (running[s] /\ s # forge[b])
    <3>1. CASE forge[b] = None
      <4>1. UNCHANGED <<running, listening>> /\ \A s \in Servers : s # forge[b]
        BY <3>1 DEF Released
      <4>2. \A s \in Servers : running[s] \in BOOLEAN
        BY DEF TypeOK
      <4>3. ASSUME NEW s \in Servers PROVE running'[s] = (running[s] /\ s # forge[b])
        BY <4>1, <4>2, Zenon
      <4> QED BY <4>1, <4>3, Zenon
    <3>2. CASE forge[b] # None
      <4>1. /\ forge[b] \in Servers
            /\ running' = [running EXCEPT ![forge[b]] = FALSE]
            /\ listening' = [listening EXCEPT ![forge[b]] = FALSE]
        BY <3>2 DEF Released, Stop, TypeOK
      <4>2. running \in [Servers -> BOOLEAN] /\ listening \in [Servers -> BOOLEAN]
        BY DEF TypeOK
      <4>3. \A s \in Servers : /\ running'[s] = IF s = forge[b] THEN FALSE ELSE running[s]
                               /\ listening'[s] = IF s = forge[b] THEN FALSE ELSE listening[s]
        BY <4>1, <4>2, OneFlag, Zenon
      <4>4. \A s \in Servers : running[s] \in BOOLEAN
        BY <4>2
      <4> QED BY ONLY <4>3, <4>4, Zenon
    <3> QED BY <3>1, <3>2
  <2>3. TypeOK'
    <3>1. forge' \in [Blenders -> Servers \cup {None}]
      BY DEF TypeOK
    <3>2. panel' \in [Blenders -> [Scenes -> BOOLEAN]]
      BY DEF TypeOK
    <3>3. running' \in [Servers -> BOOLEAN] /\ listening' \in [Servers -> BOOLEAN]
      <4>1. \/ UNCHANGED <<running, listening>>
            \/ /\ running' = [running EXCEPT ![forge[b]] = FALSE]
               /\ listening' = [listening EXCEPT ![forge[b]] = FALSE]
        BY DEF Released, Stop
      <4>2. running \in [Servers -> BOOLEAN] /\ listening \in [Servers -> BOOLEAN]
        BY DEF TypeOK
      <4> QED BY <4>1, <4>2, OneFlag, Zenon
    <3>4. link' \in [Conns -> {"unused", "closed"} \cup Alive]
      BY DEF Released, Stop, ResetBacklog, TypeOK
    <3>5. \A a \in Blenders : forge'[a] # None => owner'[forge'[a]] = a
      BY DEF TypeOK
    <3> QED BY <3>1, <3>2, <3>3, <3>4, <3>5 DEF TypeOK
  <2>4. Owned'
    BY <2>2 DEF Owned
  <2>5. ListenersAreReachable'
    BY <2>2 DEF ListenersAreReachable, Owned, TypeOK
  <2> QED BY <2>1, <2>3, <2>4, <2>5, Closing
<1>4. ASSUME NEW b \in Blenders, UserWorks(b) \/ UserOpensBlender PROVE AddonInv'
  <2>1. UNCHANGED <<forge, panel, serverVars, connVars, launchVars>>
    BY <1>4 DEF UserWorks, UserOpensBlender
  <2>2. /\ status' \in [Blenders -> {"off", "booting", "up", "gone"}]
        /\ busy' \in [Blenders -> BOOLEAN]
    <3>1. User \in Blenders
      BY DEF Blenders
    <3>2. \/ status' = status /\ busy' = [busy EXCEPT ![b] = ~@]
          \/ status' = [status EXCEPT ![User] = "up"] /\ busy' = busy
      BY <1>4 DEF UserWorks, UserOpensBlender
    <3>3. /\ status \in [Blenders -> {"off", "booting", "up", "gone"}]
          /\ busy \in [Blenders -> BOOLEAN]
      BY DEF TypeOK
    <3>4. status' \in [Blenders -> {"off", "booting", "up", "gone"}]
      BY ONLY <3>1, <3>2, <3>3, SMT
    <3>5. busy' \in [Blenders -> BOOLEAN]
      <4>1. [busy EXCEPT ![b] = ~@] \in [Blenders -> BOOLEAN]
        BY ONLY <3>3, Toggled
      <4>2. busy' = busy \/ busy' = [busy EXCEPT ![b] = ~@]
        BY ONLY <3>2
      <4> QED BY ONLY <3>3, <4>1, <4>2
    <3> QED BY <3>4, <3>5
  <2>3. TypeOK'
    BY <2>1, <2>2 DEF TypeOK, serverVars, connVars, launchVars
  <2> QED BY <2>1, <2>3 DEF serverVars, connVars, Owned, ListenersAreReachable,
                            ReadWhileOpen, RepliesAreNotLost
<1>5. ASSUME NEW b \in Blenders, BlenderExits(b) PROVE AddonInv'
  <2> USE <1>5 DEF BlenderExits, launchVars
  <2>1. \A c \in Conns : link'[c] = link[c] \/ link'[c] = "closed"
    BY DEF TypeOK
  <2>2. TypeOK'
    BY DEF TypeOK
  <2>3. Owned'
    BY DEF Owned
  <2>4. ListenersAreReachable'
    BY ZenonT(60) DEF ListenersAreReachable, Owned, TypeOK
  <2> QED BY <2>1, <2>2, <2>3, <2>4, Closing
<1>5a. UNCHANGED <<processVars, serverVars>> => Owned' /\ ListenersAreReachable'
  BY DEF processVars, serverVars, Owned, ListenersAreReachable
<1>6. ASSUME NEW s \in Servers, Accept(s) PROVE AddonInv'
  <2>1. UNCHANGED <<processVars, serverVars, server, command, answered, launchVars>>
    BY <1>6 DEF Accept
  <2>2. PICK c \in Conns : /\ link[c] = "backlog" /\ link'[c] \in {"accepted", "held"}
                           /\ \A d \in Conns : d # c => link'[d] = link[d] \/ link'[d] = "closed"
                           /\ link' \in [Conns -> {"unused", "closed"} \cup Alive]
    BY <1>6, Accepting
  <2>3. TypeOK'
    BY <2>1, <2>2 DEF TypeOK, processVars, serverVars, launchVars
  <2>4. ReadWhileOpen' /\ RepliesAreNotLost'
    BY <2>1, <2>2 DEF ReadWhileOpen, RepliesAreNotLost
  <2> QED BY <2>1, <2>3, <2>4, <1>5a
<1>7. ASSUME NEW s \in Servers, LoopEnds(s) \/ AcceptFails(s) PROVE AddonInv'
  <2>1. LoopLeft(s, "ended") \/ LoopLeft(s, "failed")
    BY <1>7 DEF LoopEnds, AcceptFails
  <2>2. /\ \A c \in Conns : link'[c] = link[c] \/ link'[c] = "closed"
        /\ link' \in [Conns -> {"unused", "closed"} \cup Alive]
    BY <2>1 DEF LoopLeft, LetGo, TypeOK
  <2>3. loop' \in [Servers -> {"none", "accepting", "ended", "failed"}]
    BY <2>1 DEF LoopLeft, TypeOK
  <2>4. UNCHANGED <<processVars, owner, running, listening, server, command, answered,
                    launchVars>>
    BY <2>1 DEF LoopLeft
  <2>5. TypeOK' /\ Owned' /\ ListenersAreReachable'
    BY <2>2, <2>3, <2>4 DEF TypeOK, Owned, ListenersAreReachable, processVars, launchVars
  <2> QED BY <2>2, <2>4, <2>5, Closing
<1>8. ASSUME NEW c \in Conns,
             HandlerEnters(c) \/ HandlerReads(c) \/ RunTimer(c)
               \/ ClientConnects(c) \/ ClientSends(c) \/ ClientCloses(c)
      PROVE  AddonInv'
  <2>1. Owned' /\ ListenersAreReachable'
    BY <1>8, <1>5a DEF HandlerEnters, HandlerReads, RunTimer, ClientConnects,
                       ClientSends, ClientCloses
  <2>2. TypeOK'
    <3>1. UNCHANGED <<processVars, serverVars, launchVars>>
      BY <1>8 DEF HandlerEnters, HandlerReads, RunTimer, ClientConnects, ClientSends,
                  ClientCloses
    <3>2. link' \in [Conns -> {"unused", "closed"} \cup Alive]
      <4>1. \/ link' = link
            \/ \E v \in {"backlog", "open", "closed"} : link' = [link EXCEPT ![c] = v]
        BY <1>8 DEF HandlerEnters, HandlerReads, RunTimer, ClientConnects, ClientSends,
                    ClientCloses
      <4>2. {"backlog", "open", "closed"} \subseteq {"unused", "closed"} \cup Alive
        BY DEF Alive
      <4> QED BY <4>1, <4>2 DEF TypeOK
    <3>3. server' \in [Conns -> Servers \cup {None}]
      BY <1>8 DEF TypeOK, HandlerEnters, HandlerReads, RunTimer, ClientConnects,
                  ClientSends, ClientCloses
    <3>4. command' \in [Conns -> {"none", "sent", "registered", "run"}]
      BY <1>8 DEF TypeOK, HandlerEnters, HandlerReads, RunTimer, ClientConnects,
                  ClientSends, ClientCloses
    <3>5. answered' \in [Conns -> BOOLEAN]
      <4>1. Replies(c) \in BOOLEAN
        BY DEF Replies
      <4>2. answered' = answered \/ answered' = [answered EXCEPT ![c] = Replies(c)]
        BY <1>8 DEF HandlerEnters, HandlerReads, RunTimer, ClientConnects, ClientSends,
                    ClientCloses
      <4> QED BY <4>1, <4>2 DEF TypeOK
    <3> QED BY <3>1, <3>2, <3>3, <3>4, <3>5
            DEF TypeOK, processVars, serverVars, launchVars
  <2>3. ReadWhileOpen'
    BY <1>8 DEF TypeOK, ReadWhileOpen, HandlerEnters, HandlerReads, RunTimer,
                ClientConnects, ClientSends, ClientCloses
  <2>4. RepliesAreNotLost'
    <3>1. CASE RunTimer(c)
      <4>1. \A d \in Conns : d # c => /\ command'[d] = command[d] /\ link'[d] = link[d]
                                      /\ answered'[d] = answered[d]
        BY <3>1 DEF RunTimer, TypeOK
      <4>2. answered'[c] = (link'[c] = "open")
        BY <3>1 DEF RunTimer, Replies, TypeOK
      <4> QED BY <4>1, <4>2 DEF RepliesAreNotLost
    <3>2. CASE ~RunTimer(c)
      <4>1. UNCHANGED answered
        BY <1>8, <3>2 DEF HandlerEnters, HandlerReads, ClientConnects, ClientSends,
                          ClientCloses
      <4>2. \A d \in Conns :
              command'[d] = "run" /\ link'[d] = "open" => command[d] = "run" /\ link[d] = "open"
        BY <1>8, <3>2 DEF TypeOK, ReadWhileOpen, HandlerEnters, HandlerReads,
                          ClientConnects, ClientSends, ClientCloses
      <4> QED BY <4>1, <4>2 DEF RepliesAreNotLost
    <3> QED BY <3>1, <3>2
  <2> QED BY <2>1, <2>2, <2>3, <2>4
<1>9. CASE LauncherBegins \/ Attach \/ Spawn \/ PollSucceeds \/ PollFails
  <2>1. UNCHANGED <<busy, forge, panel, serverVars, connVars>>
    BY <1>9 DEF LauncherBegins, Attach, Spawn, PollSucceeds, PollFails, processVars
  <2>2. status' \in [Blenders -> {"off", "booting", "up", "gone"}]
    BY <1>9 DEF LauncherBegins, Attach, Spawn, PollSucceeds, PollFails, processVars, TypeOK
  <2>3. launcher' \in {"idle", "probing", "polling", "done", "failed"}
    BY <1>9 DEF LauncherBegins, Attach, Spawn, PollSucceeds, PollFails
  <2>4. \/ handle' = handle
        \/ handle' = [attached |-> TRUE, process |-> None]
        \/ handle' = [attached |-> FALSE, process |-> Spawned]
    BY <1>9 DEF LauncherBegins, Attach, Spawn, PollSucceeds, PollFails, Launched
  <2>5. handle' \in Handles \cup {None}
    <3>1. [attached |-> TRUE, process |-> None] \in Handles
      BY DEF Handles
    <3>2. [attached |-> FALSE, process |-> Spawned] \in Handles
      BY DEF Handles
    <3>3. handle \in Handles \cup {None}
      BY DEF TypeOK
    <3> QED BY <2>4, <3>1, <3>2, <3>3
  <2>6. handle' # None => (handle'.attached <=> handle'.process = None)
    <3>1. Spawned # None
      BY DEF Blenders
    <3> QED BY <2>4, <3>1 DEF TypeOK
  <2>7. TypeOK'
    BY <2>1, <2>2, <2>3, <2>5, <2>6 DEF TypeOK, serverVars, connVars
  <2> QED BY <2>1, <2>7 DEF serverVars, connVars, Owned, ListenersAreReachable,
                            ReadWhileOpen, RepliesAreNotLost
<1>10. CASE UNCHANGED vars
  BY <1>10 DEF vars, processVars, serverVars, connVars, launchVars, TypeOK, Owned,
               ListenersAreReachable, ReadWhileOpen, RepliesAreNotLost
<1>11. Spawned \in Blenders
  BY DEF Blenders
<1> QED BY <1>1, <1>2, <1>3, <1>4, <1>5, <1>6, <1>7, <1>8, <1>9, <1>10, <1>11 DEF Next

(* The invariant holds whoever connects, stops or exits, and when.         *)
THEOREM AddonInvariance == Spec => []AddonInv
BY InitAddonInv, NextAddonInv, PTL DEF Spec

(* TypeOK, for any number of scenes, servers and connections.              *)
THEOREM AddonTypeCorrect == Spec => []TypeOK
<1>1. AddonInv => TypeOK
  BY DEF AddonInv
<1> QED BY <1>1, AddonInvariance, PTL

(* Whatever holds the port can be told to let go of it.                    *)
THEOREM NoOrphanListener == Spec => []ListenersAreReachable
<1>1. AddonInv => ListenersAreReachable
  BY DEF AddonInv
<1> QED BY <1>1, AddonInvariance, PTL

(* A command that has run leaves no client waiting.                        *)
THEOREM NoReplyIsLost == Spec => []RepliesAreNotLost
<1>1. AddonInv => RepliesAreNotLost
  BY DEF AddonInv
<1> QED BY <1>1, AddonInvariance, PTL

(* A server ends with its Blender or by Disconnect; starting another, or   *)
(* the same one again, never ends it.                                      *)
THEOREM StoppedByIntent == Spec => StopsOnlyWhenTold
<1>1. ASSUME AddonInv, [Next]_vars
      PROVE  [\A s \in Servers :
                listening[s] /\ ~listening'[s] => forge'[owner[s]] # s]_vars
  <2> SUFFICES ASSUME NEW s \in Servers, listening[s], ~listening'[s]
               PROVE  forge'[owner[s]] # s
    OBVIOUS
  <2> USE AddonAssumption, <1>1 DEF AddonInv
  <2>1. CASE \E b \in Blenders : StartIn(b)
    BY <2>1, Starting
  <2>2. CASE \E b \in Blenders, scene \in Scenes : Disconnect(b, scene)
    <3>1. PICK b \in Blenders : (\E scene \in Scenes : Disconnect(b, scene))
      BY <2>2
    <3>2. s = forge[b] /\ forge' = [forge EXCEPT ![b] = None]
      BY <3>1 DEF Disconnect, Released, Stop, TypeOK
    <3> QED BY <3>2 DEF TypeOK
  <2>3. CASE \E b \in Blenders : BlenderExits(b)
    <3>1. PICK b \in Blenders : BlenderExits(b)
      BY <2>3
    <3>2. owner[s] = b /\ forge' = [forge EXCEPT ![b] = None]
      BY <3>1 DEF BlenderExits, TypeOK
    <3> QED BY <3>2 DEF TypeOK
  <2>4. CASE UNCHANGED listening
    BY <2>4
  <2>5. \/ UNCHANGED listening
        \/ \E b \in Blenders : StartIn(b) \/ BlenderExits(b)
        \/ \E b \in Blenders, scene \in Scenes : Disconnect(b, scene)
    BY DEF Next, Blenders, Connect, Autostart, UserWorks, UserOpensBlender, Accept, LoopEnds,
           AcceptFails, LoopLeft, HandlerEnters, HandlerReads, RunTimer, ClientConnects, ClientSends,
           ClientCloses, LauncherBegins, Attach, Spawn, PollSucceeds, PollFails,
           serverVars, vars
  <2> QED BY <2>1, <2>2, <2>3, <2>4, <2>5
<1> QED BY <1>1, AddonInvariance, PTL DEF Spec, StopsOnlyWhenTold
-----------------------------------------------------------------------------
(* Who serves a command *)

(* What runs listens, its Blender is up, and its thread accepts unless     *)
(* accept itself has failed.                                               *)
ServersWork ==
  \A s \in Servers :
    running[s] => /\ listening[s] /\ status[owner[s]] = "up"
                  /\ loop[s] \in {"accepting", "failed"}

(* One socket listens on the port.                                         *)
OneListener == \A s, t \in Servers : listening[s] /\ listening[t] => s = t

(* A connection that is not closed leads to a Blender that is up, one that *)
(* waits to be accepted to a server that runs, and one without a handler   *)
(* thread to an accepting thread that will let go of it.                   *)
ConnectionsLead ==
  \A c \in Conns : link[c] \in Alive =>
    /\ server[c] \in Servers
    /\ owner[server[c]] \in Blenders
    /\ status[owner[server[c]]] = "up"
    /\ link[c] = "backlog" => running[server[c]]
    /\ link[c] = "held" => loop[server[c]] = "accepting"

(* The launcher has started nothing before it spawns.                      *)
SpawnedOnce == launcher \in {"idle", "probing"} => status[Spawned] = "off"

Served == ServersWork /\ OneListener /\ ConnectionsLead /\ SpawnedOnce

LEMMA InitServed == Init => Served
BY AddonAssumption
   DEF Init, Served, ServersWork, OneListener, ConnectionsLead, SpawnedOnce, Alive, Blenders

(* What stop does to the servers and to the connections.                   *)
LEMMA Stopping ==
  ASSUME TypeOK, NEW s \in Servers, Stop(s)
  PROVE  /\ \A t \in Servers : /\ t # s => running'[t] = running[t] /\ listening'[t] = listening[t]
                               /\ ~running'[s] /\ ~listening'[s]
         /\ \A c \in Conns : /\ link'[c] = link[c] \/ link'[c] = "closed"
                             /\ server[c] = s => link'[c] # "backlog"
<1>1. /\ running \in [Servers -> BOOLEAN] /\ listening \in [Servers -> BOOLEAN]
      /\ running' = [running EXCEPT ![s] = FALSE]
      /\ listening' = [listening EXCEPT ![s] = FALSE]
  BY DEF TypeOK, Stop
<1>2. \A t \in Servers : /\ running'[t] = IF t = s THEN FALSE ELSE running[t]
                         /\ listening'[t] = IF t = s THEN FALSE ELSE listening[t]
  BY <1>1, OneFlag, Zenon
<1>3. \A c \in Conns : /\ link'[c] = link[c] \/ link'[c] = "closed"
                       /\ server[c] = s => link'[c] # "backlog"
  BY DEF Stop, ResetBacklog
<1> QED BY <1>2, <1>3

(* Nobody is served worse for a start, whether it succeeds or not.         *)
LEMMA StartingServes ==
  ASSUME AddonInv, Served, NEW b \in Blenders, StartIn(b), status'[b] = "up", server' = server,
         \A a \in Blenders : status'[a] = status[a] \/ a = b
  PROVE  ServersWork' /\ OneListener' /\ ConnectionsLead'
<1> USE AddonAssumption
<1>1. PICK s \in Servers : /\ ServerOf(b, s)
                           /\ owner' = [owner EXCEPT ![s] = b]
                           /\ StartServer(s)
  BY DEF StartIn
<1>2. /\ owner[s] \in {b, None} /\ owner'[s] = b
      /\ \A t \in Servers : t # s => owner'[t] = owner[t]
      /\ \A t \in Servers : owner[t] \in Blenders => owner'[t] = owner[t]
  BY <1>1 DEF ServerOf, AddonInv, TypeOK
<1>3. \A t \in Servers : owner[t] \in Blenders /\ status[owner[t]] = "up" => status'[owner'[t]] = "up"
  BY <1>2
<1>4. \A t \in Servers : /\ running[t] => /\ listening[t] /\ loop[t] \in {"accepting", "failed"}
                                          /\ status[owner[t]] = "up" /\ owner[t] \in Blenders
                         /\ listening[t] => running[t]
  BY DEF Served, ServersWork, AddonInv, Owned, ListenersAreReachable
<1>5. ASSUME UNCHANGED <<running, listening, loop>>,
             \A c \in Conns : /\ link'[c] = link[c] \/ link'[c] = "closed"
      PROVE  ServersWork' /\ OneListener' /\ ConnectionsLead'
  <2>1. ServersWork'
    BY <1>3, <1>4, <1>5 DEF ServersWork
  <2>2. OneListener'
    BY <1>5 DEF Served, OneListener
  <2>3. ASSUME NEW c \in Conns, link'[c] \in Alive
        PROVE  /\ server'[c] \in Servers /\ owner'[server'[c]] \in Blenders
               /\ status'[owner'[server'[c]]] = "up"
               /\ link'[c] = "backlog" => running'[server'[c]]
               /\ link'[c] = "held" => loop'[server'[c]] = "accepting"
    <3>1. link[c] = link'[c]
      BY <1>5, <2>3 DEF Alive
    <3> QED BY <3>1, <2>3, <1>2, <1>3, <1>5 DEF Served, ConnectionsLead
  <2> QED BY <2>1, <2>2, <2>3 DEF ConnectionsLead
<1>6. CASE AlreadyRuns(s) /\ UNCHANGED <<running, listening, loop, link>>
  BY <1>5, <1>6
<1>7. CASE /\ PortFree
           /\ running' = [running EXCEPT ![s] = TRUE]
           /\ listening' = [listening EXCEPT ![s] = TRUE]
           /\ loop' = [loop EXCEPT ![s] = "accepting"]
           /\ UNCHANGED link
  <2>1. /\ running \in [Servers -> BOOLEAN] /\ listening \in [Servers -> BOOLEAN]
        /\ loop \in [Servers -> {"none", "accepting", "ended", "failed"}]
    BY DEF AddonInv, TypeOK
  <2>2. \A t \in Servers : /\ t # s => ~running'[t] /\ ~listening'[t]
                           /\ running'[s] /\ listening'[s] /\ loop'[s] = "accepting"
    BY <1>4, <1>7, <2>1 DEF PortFree
  <2>3. ServersWork' /\ OneListener'
    BY <1>2, <2>2 DEF ServersWork, OneListener
  <2>4. \A c \in Conns : link[c] # "backlog" \/ link[c] \notin Alive
    BY <1>4, <1>7 DEF PortFree, Served, ConnectionsLead
  <2>5. ConnectionsLead'
    BY <1>2, <1>3, <1>7, <2>4 DEF Served, ConnectionsLead
  <2> QED BY <2>3, <2>5
<1>8. CASE ~AlreadyRuns(s) /\ Stop(s) /\ UNCHANGED loop
  <2>1. ~running[s] /\ ~listening[s]
    BY <1>4, <1>8 DEF AlreadyRuns
  <2>2. /\ running \in [Servers -> BOOLEAN] /\ listening \in [Servers -> BOOLEAN]
        /\ running' = [running EXCEPT ![s] = FALSE]
        /\ listening' = [listening EXCEPT ![s] = FALSE]
    BY <1>8 DEF AddonInv, TypeOK, Stop
  <2>3. running' = running /\ listening' = listening
    BY <2>1, <2>2, Zenon DEF Served
  <2> QED BY <1>5, <1>8, <2>3, Stopping DEF AddonInv
<1> QED BY <1>1, <1>6, <1>7, <1>8 DEF StartServer

(* Steps at which servers and connections only end, of Blenders that stay. *)
LEMMA EndingServes ==
  ASSUME AddonInv, Served, owner' = owner, server' = server,
         \A s \in Servers : /\ running'[s] => /\ running[s]
                                              /\ loop'[s] = loop[s] \/ loop'[s] = "failed"
                                              /\ listening'[s] = listening[s]
                                              /\ status'[owner[s]] = status[owner[s]]
                            /\ listening'[s] => listening[s],
         \A c \in Conns : link'[c] \in Alive =>
           /\ link[c] = link'[c]
           /\ status'[owner[server[c]]] = status[owner[server[c]]]
           /\ link[c] = "backlog" => running'[server[c]]
           /\ link[c] = "held" => loop'[server[c]] = loop[server[c]]
  PROVE  ServersWork' /\ OneListener' /\ ConnectionsLead'
<1>1. ServersWork'
  BY DEF Served, ServersWork
<1>2. OneListener'
  BY DEF Served, OneListener
<1>3. ConnectionsLead'
  BY DEF Served, ConnectionsLead
<1> QED BY <1>1, <1>2, <1>3

LEMMA NextServed == AddonInv /\ Served /\ [Next]_vars => Served'
<1> SUFFICES ASSUME AddonInv, Served, [Next]_vars PROVE Served'
  OBVIOUS
<1> USE AddonAssumption
<1>0. Spawned \in Blenders /\ User \in Blenders /\ User # Spawned /\ TypeOK
  BY DEF Blenders, AddonInv
<1>1. ASSUME NEW b \in Blenders, NEW scene \in Scenes, Connect(b, scene) PROVE Served'
  <2>1. /\ StartIn(b) /\ status[b] = "up" /\ UNCHANGED <<status, server, launcher>>
    BY <1>1 DEF Connect, MainThread, launchVars
  <2> QED BY <2>1, StartingServes DEF Served, SpawnedOnce
<1>2. CASE Autostart
  <2>1. /\ StartIn(Spawned) /\ status[Spawned] = "booting"
        /\ status' = [status EXCEPT ![Spawned] = "up"] /\ UNCHANGED <<server, launcher>>
    BY <1>2 DEF Autostart, launchVars
  <2>2. status'[Spawned] = "up" /\ \A a \in Blenders : status'[a] = status[a] \/ a = Spawned
    BY <1>0, <2>1 DEF TypeOK
  <2>3. SpawnedOnce'
    BY <2>1 DEF Served, SpawnedOnce
  <2> QED BY <1>0, <2>1, <2>2, <2>3, StartingServes DEF Served
<1>3. ASSUME NEW b \in Blenders, NEW scene \in Scenes, Disconnect(b, scene) PROVE Served'
  <2>1. Released(b) /\ UNCHANGED <<status, owner, loop, server, launcher>>
    BY <1>3 DEF Disconnect, launchVars
  <2>2. CASE forge[b] = None
    BY <2>1, <2>2, EndingServes DEF Released, Served, SpawnedOnce, ConnectionsLead
  <2>3. CASE forge[b] # None
    <3>1. forge[b] \in Servers /\ Stop(forge[b])
      BY <2>1, <2>3, <1>0 DEF Released, TypeOK
    <3>2. ASSUME NEW c \in Conns, link'[c] \in Alive
          PROVE  link[c] = link'[c] /\ (link[c] = "backlog" => running'[server[c]])
      <4>1. link[c] = link'[c]
        BY <3>1, <3>2, <1>0, Stopping DEF Alive
      <4>2. ASSUME link[c] = "backlog" PROVE running'[server[c]]
        <5>1. server[c] \in Servers /\ running[server[c]]
          BY <3>2, <4>1, <4>2 DEF Served, ConnectionsLead
        <5>2. server[c] # forge[b]
          BY <3>1, <4>1, <4>2, <1>0, Stopping
        <5> QED BY <3>1, <5>1, <5>2, <1>0, Stopping
      <4> QED BY <4>1, <4>2
    <3>3. ServersWork' /\ OneListener' /\ ConnectionsLead'
      BY <2>1, <3>1, <3>2, <1>0, Stopping, EndingServes
    <3> QED BY <2>1, <3>3 DEF Served, SpawnedOnce
  <2> QED BY <2>2, <2>3
<1>4. ASSUME NEW b \in Blenders, BlenderExits(b) PROVE Served'
  <2>1. /\ status[b] \in {"booting", "up"} /\ status' = [status EXCEPT ![b] = "gone"]
        /\ running' = [s \in Servers |-> running[s] /\ owner[s] # b]
        /\ listening' = [s \in Servers |-> listening[s] /\ owner[s] # b]
        /\ loop' = [s \in Servers |-> IF owner[s] = b /\ loop[s] = "accepting"
                                        THEN "ended" ELSE loop[s]]
        /\ link' = [c \in Conns |-> IF server[c] # None /\ owner[server[c]] = b
                                      THEN "closed" ELSE link[c]]
        /\ UNCHANGED <<owner, server, launcher>>
    BY <1>4 DEF BlenderExits, launchVars
  <2>2. \A a \in Blenders : a # b => status'[a] = status[a]
    BY <1>0, <2>1 DEF TypeOK
  <2>3. ASSUME NEW s \in Servers, running'[s]
        PROVE  /\ running[s] /\ loop'[s] = loop[s] /\ listening'[s] = listening[s]
               /\ status'[owner[s]] = status[owner[s]]
    <3>1. running[s] /\ owner[s] # b /\ owner[s] \in Blenders
      BY <2>1, <2>3 DEF AddonInv, Owned
    <3>2. listening[s] \in BOOLEAN
      BY <1>0 DEF TypeOK
    <3>3. listening'[s] = (listening[s] /\ owner[s] # b)
      BY <2>1, Zenon
    <3>4. listening'[s] = listening[s]
      BY <3>1, <3>2, <3>3, Zenon
    <3> QED BY <2>1, <2>2, <3>1, <3>4
  <2>4. ASSUME NEW c \in Conns, link'[c] \in Alive
        PROVE  /\ link[c] = link'[c]
               /\ status'[owner[server[c]]] = status[owner[server[c]]]
               /\ link[c] = "backlog" => running'[server[c]]
               /\ link[c] = "held" => loop'[server[c]] = loop[server[c]]
    <3>1. link[c] = link'[c] /\ ~(server[c] # None /\ owner[server[c]] = b)
      BY <2>1, <2>4 DEF Alive
    <3>2. /\ server[c] \in Servers /\ owner[server[c]] \in Blenders
          /\ link[c] = "backlog" => running[server[c]]
      BY <2>4, <3>1 DEF Served, ConnectionsLead
    <3> QED BY <2>1, <2>2, <3>1, <3>2
  <2>5. \A s \in Servers : listening'[s] => listening[s]
    BY <2>1
  <2>6. ServersWork' /\ OneListener' /\ ConnectionsLead'
    BY <2>1, <2>3, <2>4, <2>5, EndingServes
  <2>7. SpawnedOnce'
    BY <2>1, <1>0 DEF Served, SpawnedOnce, TypeOK
  <2> QED BY <2>6, <2>7 DEF Served
<1>5. ASSUME NEW s \in Servers, LoopEnds(s) \/ AcceptFails(s) PROVE Served'
  <2>1. /\ \/ ~running[s] /\ loop' = [loop EXCEPT ![s] = "ended"]
           \/ loop' = [loop EXCEPT ![s] = "failed"]
        /\ link' = LetGo(s)
        /\ UNCHANGED <<status, owner, running, listening, server, launcher>>
    BY <1>5 DEF LoopEnds, LoopStops, AcceptFails, LoopLeft, processVars, launchVars
  <2>2. /\ \A t \in Servers : running[t] => loop'[t] = loop[t] \/ loop'[t] = "failed"
        /\ \A t \in Servers : t # s => loop'[t] = loop[t]
    BY <2>1, <1>0 DEF TypeOK
  <2>3. ASSUME NEW c \in Conns, link'[c] \in Alive
        PROVE  /\ link[c] = link'[c] /\ server[c] \in Servers
               /\ link[c] = "backlog" => running[server[c]]
               /\ link[c] = "held" => server[c] # s
    BY <2>1, <2>3 DEF LetGo, Alive, Served, ConnectionsLead
  <2>4. ServersWork' /\ OneListener' /\ ConnectionsLead'
    BY <2>1, <2>2, <2>3, EndingServes
  <2> QED BY <2>1, <2>4 DEF Served, SpawnedOnce
<1>6. ASSUME UNCHANGED <<status, owner, running, listening, loop, launcher>>,
             \A c \in Conns : link'[c] \in Alive =>
               \/ /\ link[c] \in Alive /\ server'[c] = server[c]
                  /\ link'[c] # "backlog" \/ link[c] = "backlog"
                  /\ link'[c] = "held" => link[c] = "held" \/ loop[server[c]] = "accepting"
               \/ link'[c] # "held" /\ server'[c] \in Servers /\ listening[server'[c]]
      PROVE  Served'
  <2>1. ServersWork' /\ OneListener' /\ SpawnedOnce'
    BY <1>6 DEF Served, ServersWork, OneListener, SpawnedOnce
  <2>2. \A s \in Servers : listening[s] => /\ running[s] /\ owner[s] \in Blenders
                                           /\ status[owner[s]] = "up"
    BY DEF AddonInv, ListenersAreReachable, Owned, Served, ServersWork
  <2>3. ASSUME NEW c \in Conns, link'[c] \in Alive
        PROVE  /\ server'[c] \in Servers /\ owner'[server'[c]] \in Blenders
               /\ status'[owner'[server'[c]]] = "up"
               /\ link'[c] = "backlog" => running'[server'[c]]
               /\ link'[c] = "held" => loop'[server'[c]] = "accepting"
    <3>1. CASE link'[c] # "held" /\ server'[c] \in Servers /\ listening[server'[c]]
      BY <1>6, <2>2, <3>1
    <3>2. CASE /\ link[c] \in Alive /\ server'[c] = server[c]
               /\ link'[c] # "backlog" \/ link[c] = "backlog"
               /\ link'[c] = "held" => link[c] = "held" \/ loop[server[c]] = "accepting"
      BY <1>6, <3>2 DEF Served, ConnectionsLead
    <3> QED BY <1>6, <2>3, <3>1, <3>2
  <2> QED BY <2>1, <2>3 DEF Served, ConnectionsLead
<1>7. ASSUME NEW s \in Servers, Accept(s) PROVE Served'
  <2>1. UNCHANGED <<status, owner, running, listening, loop, launcher, server>>
    BY <1>7 DEF Accept, processVars, serverVars, launchVars
  <2>2. \A c \in Conns : link'[c] \in Alive =>
          /\ link[c] \in Alive
          /\ link'[c] # "backlog" \/ link[c] = "backlog"
          /\ link'[c] = "held" => link[c] = "held" \/ loop[server[c]] = "accepting"
    BY <1>0, <1>7, Accepting DEF Alive
  <2> QED BY <1>6, <2>1, <2>2
<1>8. ASSUME NEW c \in Conns,
             HandlerEnters(c) \/ HandlerReads(c) \/ RunTimer(c) \/ ClientSends(c) \/ ClientCloses(c)
      PROVE  Served'
  <2>1. UNCHANGED <<status, owner, running, listening, loop, launcher, server>>
    BY <1>8 DEF HandlerEnters, HandlerReads, RunTimer, ClientSends, ClientCloses, processVars,
                serverVars, launchVars
  <2>2. \/ link' = link
        \/ link[c] \in Alive /\ \E v \in {"open", "closed"} : link' = [link EXCEPT ![c] = v]
    BY <1>8 DEF HandlerEnters, HandlerReads, RunTimer, ClientSends, ClientCloses, Alive
  <2>3. \A d \in Conns : link'[d] \in Alive =>
          /\ link[d] \in Alive
          /\ link'[d] # "backlog" \/ link[d] = "backlog"
          /\ link'[d] = "held" => link[d] = "held" \/ loop[server[d]] = "accepting"
    BY <2>2, <1>0 DEF TypeOK, Alive
  <2> QED BY <1>6, <2>1, <2>3
<1>9. ASSUME NEW c \in Conns, ClientConnects(c) PROVE Served'
  <2>1. PICK s \in Servers : listening[s] /\ server' = [server EXCEPT ![c] = s]
    BY <1>9 DEF ClientConnects
  <2>2. /\ UNCHANGED <<status, owner, running, listening, loop, launcher>>
        /\ link' = [link EXCEPT ![c] = "backlog"]
    BY <1>9 DEF ClientConnects, processVars, serverVars, launchVars
  <2>3. /\ server'[c] = s /\ link'[c] = "backlog"
        /\ \A d \in Conns : d # c => server'[d] = server[d] /\ link'[d] = link[d]
    BY <2>1, <2>2, <1>0 DEF TypeOK
  <2> QED BY <1>6, <2>1, <2>2, <2>3
<1>10. CASE \/ \E b \in Blenders : UserWorks(b)
            \/ Attach \/ PollSucceeds \/ PollFails \/ UNCHANGED vars
  <2>1. /\ UNCHANGED <<status, owner, running, listening, loop, link, server>>
        /\ launcher' = launcher \/ launcher' \in {"done", "failed"}
    BY <1>10 DEF UserWorks, Attach, PollSucceeds, PollFails, processVars, serverVars,
                 connVars, launchVars, vars
  <2> QED BY <2>1 DEF Served, ServersWork, OneListener, ConnectionsLead, SpawnedOnce
<1>11. CASE LauncherBegins
  <2>1. /\ UNCHANGED <<status, owner, running, listening, loop, link, server>>
        /\ launcher = "idle"
    BY <1>11 DEF LauncherBegins, processVars, serverVars, connVars
  <2> QED BY <2>1 DEF Served, ServersWork, OneListener, ConnectionsLead, SpawnedOnce
<1>12. CASE UserOpensBlender \/ Spawn
  <2>1. PICK b \in Blenders :
          /\ status[b] = "off" /\ \A a \in Blenders : a # b => status'[a] = status[a]
          /\ SpawnedOnce'
    <3>1. CASE UserOpensBlender
      <4>1. status'[Spawned] = status[Spawned]
        BY <3>1, <1>0 DEF UserOpensBlender, TypeOK
      <4>2. status[User] = "off" /\ \A a \in Blenders : a # User => status'[a] = status[a]
        BY <3>1, <1>0 DEF UserOpensBlender, TypeOK
      <4>3. SpawnedOnce'
        BY <3>1, <4>1 DEF UserOpensBlender, launchVars, Served, SpawnedOnce
      <4> QED BY <1>0, <4>2, <4>3
    <3>2. CASE Spawn
      <4>1. status[Spawned] = "off" /\ \A a \in Blenders : a # Spawned => status'[a] = status[a]
        BY <3>2, <1>0 DEF Spawn, TypeOK, Served, SpawnedOnce
      <4>2. SpawnedOnce'
        BY <3>2 DEF Spawn, SpawnedOnce
      <4> QED BY <1>0, <4>1, <4>2
    <3> QED BY <1>12, <3>1, <3>2
  <2>2. UNCHANGED <<owner, running, listening, loop, link, server>>
    BY <1>12 DEF UserOpensBlender, Spawn, serverVars, connVars
  <2>3. ASSUME NEW s \in Servers, owner[s] \in Blenders, status[owner[s]] = "up"
        PROVE  status'[owner[s]] = status[owner[s]]
    BY <2>1, <2>3
  <2>4. \A s \in Servers : running[s] => status'[owner[s]] = status[owner[s]]
    BY <2>3 DEF AddonInv, Owned, Served, ServersWork
  <2>5. \A c \in Conns : link[c] \in Alive =>
          /\ status'[owner[server[c]]] = status[owner[server[c]]]
          /\ link[c] = "backlog" => running[server[c]]
    BY <2>3 DEF Served, ConnectionsLead
  <2> QED BY <2>1, <2>2, <2>4, <2>5, EndingServes DEF Served
<1> QED
  BY <1>1, <1>2, <1>3, <1>4, <1>5, <1>7, <1>8, <1>9, <1>10, <1>11, <1>12 DEF Next

(* A client's command never waits on a connection of a Blender that is     *)
(* gone, nor to be accepted by a server that was stopped: the thread of a  *)
(* server that runs accepts, unless accept itself has failed.  Who has no  *)
(* handler thread is held by a thread that goes on accepting and will let  *)
(* go.  At most one socket listens on the port.  All this holds however    *)
(* starts, failed starts, Disconnects and exits of two Blenders follow one *)
(* another.                                                                *)
THEOREM CommandsAreServed == Spec => []Served
BY InitServed, NextServed, AddonInvariance, PTL DEF Spec

Waiting(c) == command[c] \in {"sent", "registered"} /\ link[c] \in Alive

(* A client's command is not forgotten between the threads: it goes on     *)
(* waiting until it is answered or its connection is closed, and from the  *)
(* handler's hands it never goes back.                                     *)
NoCommandIsForgotten ==
  [][\A c \in Conns : Waiting(c) =>
       \/ answered'[c] \/ link'[c] = "closed"
       \/ /\ Waiting(c)' /\ server'[c] = server[c]
          /\ command[c] = "registered" => command'[c] = "registered"]_vars

(* NoCommandIsForgotten: a command that waits is answered, or its          *)
(* connection ends.                                                        *)
THEOREM CommandsAreKept == Spec => NoCommandIsForgotten
<1>1. ASSUME AddonInv, [Next]_vars, NEW c \in Conns, Waiting(c)
      PROVE  \/ answered'[c] \/ link'[c] = "closed"
             \/ /\ Waiting(c)' /\ server'[c] = server[c]
                /\ command[c] = "registered" => command'[c] = "registered"
  <2>0. TypeOK
    BY <1>1 DEF AddonInv
  <2>1. \/ server' = server
        \/ \E d \in Conns : \E s : link[d] = "unused" /\ server' = [server EXCEPT ![d] = s]
    BY <1>1 DEF Next, Connect, Autostart, Disconnect, UserWorks, UserOpensBlender, BlenderExits,
           Accept, LoopEnds, AcceptFails, LoopLeft, HandlerEnters, HandlerReads, RunTimer,
           ClientConnects, ClientSends,
           ClientCloses, LauncherBegins, Attach, Spawn, PollSucceeds, PollFails,
           connVars, vars
  <2>2. server'[c] = server[c]
    BY <1>1, <2>0, <2>1 DEF TypeOK, Waiting, Alive
  <2>3. CASE \E d \in Conns : \/ HandlerEnters(d) \/ HandlerReads(d) \/ RunTimer(d)
                              \/ ClientConnects(d) \/ ClientSends(d) \/ ClientCloses(d)
    <3>1. PICK d \in Conns : \/ HandlerEnters(d) \/ HandlerReads(d) \/ RunTimer(d)
                             \/ ClientConnects(d) \/ ClientSends(d) \/ ClientCloses(d)
      BY <2>3
    <3>2. CASE d # c
      <4>1. link'[c] = link[c] /\ command'[c] = command[c]
        BY <2>0, <3>1, <3>2 DEF TypeOK, HandlerEnters, HandlerReads, RunTimer, ClientConnects,
                                ClientSends, ClientCloses
      <4> QED BY <1>1, <2>2, <4>1 DEF Waiting
    <3>3. CASE d = c /\ RunTimer(c)
      <4>1. link[c] = "open"
        BY <1>1, <3>3 DEF RunTimer, AddonInv, ReadWhileOpen, Waiting, Alive
      <4>2. answered'[c]
        BY <2>0, <3>3, <4>1, ZenonT(60) DEF RunTimer, Replies, TypeOK
      <4> QED BY <4>2
    <3>4. CASE d = c /\ ~RunTimer(c)
      <4>1. \/ link'[c] = "closed"
            \/ /\ link'[c] \in Alive /\ command'[c] \in {"sent", "registered"}
               /\ command[c] = "registered" => command'[c] = "registered"
        BY <1>1, <2>0, <3>1, <3>4 DEF TypeOK, Waiting, Alive, HandlerEnters, HandlerReads,
                                      ClientConnects, ClientSends, ClientCloses
      <4> QED BY <2>2, <4>1 DEF Waiting
    <3> QED BY <3>1, <3>2, <3>3, <3>4
  <2>4. CASE \E s \in Servers : Accept(s)
    <3>1. command' = command
      BY <2>4 DEF Accept
    <3>2. link'[c] \in {link[c], "accepted", "held", "closed"}
      BY <2>0, <2>4, Accepting
    <3> QED BY <1>1, <2>2, <3>1, <3>2 DEF Waiting, Alive
  <2>5. CASE command' = command /\ \A d \in Conns : link'[d] = link[d] \/ link'[d] = "closed"
    BY <1>1, <2>2, <2>5 DEF Waiting
  <2>6. ASSUME NEW b \in Blenders, StartIn(b)
        PROVE  \A d \in Conns : link'[d] = link[d] \/ link'[d] = "closed"
    BY <1>1, <2>6, Starting
  <2>7. ASSUME NEW b \in Blenders, NEW scene \in Scenes, Connect(b, scene) \/ Disconnect(b, scene)
        PROVE  command' = command /\ \A d \in Conns : link'[d] = link[d] \/ link'[d] = "closed"
    <3>1. CASE Connect(b, scene)
      BY <2>6, <3>1 DEF Connect
    <3>2. CASE Disconnect(b, scene)
      BY <2>0, <3>2, <2>7 DEF Disconnect, Released, Stop, ResetBacklog
    <3> QED BY <2>7, <3>1, <3>2
  <2>8. Autostart => command' = command /\ \A d \in Conns : link'[d] = link[d] \/ link'[d] = "closed"
    BY <2>6 DEF Autostart, Blenders
  <2>9. ASSUME NEW b \in Blenders, BlenderExits(b)
        PROVE  command' = command /\ \A d \in Conns : link'[d] = link[d] \/ link'[d] = "closed"
    BY <2>9 DEF BlenderExits
  <2>10. ASSUME \/ \E b \in Blenders : UserWorks(b)
                \/ UserOpensBlender \/ UNCHANGED vars
                \/ LauncherBegins \/ Attach \/ Spawn \/ PollSucceeds \/ PollFails
         PROVE  command' = command /\ link' = link
    BY <2>10 DEF UserWorks, UserOpensBlender, vars, LauncherBegins, Attach, Spawn,
                 PollSucceeds, PollFails, connVars
  <2>11. ASSUME NEW s \in Servers, LoopEnds(s) \/ AcceptFails(s)
         PROVE  command' = command /\ \A d \in Conns : link'[d] = link[d] \/ link'[d] = "closed"
    BY <2>11 DEF LoopEnds, AcceptFails, LoopLeft, LetGo
  <2> QED BY <1>1, <2>3, <2>4, <2>5, <2>7, <2>8, <2>9, <2>10, <2>11 DEF Next
<1>2. ASSUME AddonInv, [Next]_vars
      PROVE  [\A c \in Conns : Waiting(c) =>
                \/ answered'[c] \/ link'[c] = "closed"
                \/ /\ Waiting(c)' /\ server'[c] = server[c]
                   /\ command[c] = "registered" => command'[c] = "registered"]_vars
  BY <1>1, <1>2
<1> QED BY <1>2, AddonInvariance, PTL DEF Spec, NoCommandIsForgotten
=============================================================================
