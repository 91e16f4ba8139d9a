------------------------- MODULE CommandPathProofs -------------------------
(***************************************************************************)
(* Proofs about BlenderLink and CommandPath, for any number of threads,    *)
(* commands, sockets and lost connections.                                 *)
(*                                                                         *)
(* CommandPath is shown to implement BlenderLink, so what holds of the     *)
(* link holds of the path.  The link's invariant has two halves.  OneCopy  *)
(* follows a command from the thread that sends it to Blender's main       *)
(* thread: it is in one place at a time, and executed only there.  Alone   *)
(* holds as long as no two commands have overlapped: a socket then carries *)
(* at most one message, the current command's if it is the current socket. *)
(* The path adds where the calls are: answered, with the receiver, or in   *)
(* its inbox, in the order in which they were made.  From this follows that*)
(* the path as a whole implements ToolCall until two commands overlap.     *)
(***************************************************************************)
EXTENDS CommandPath, SequenceTheorems, TLAPS

(* What is on its way to the addon's main thread: what its handler thread  *)
(* holds, and then what is still in the stream.                            *)
Wire(s) == buffer[s] \o toAddon[s]

OnWire(c, s) == \E i \in 1 .. Len(Wire(s)) : Wire(s)[i] = c

(* The commands that have run.                                             *)
Ran == {c \in Cmds : executed[c] > 0}

(* The commands of which nothing has left their thread.                    *)
Fresh ==
  {c \in Cmds : /\ executed[c] = 0
                /\ \A s \in Socks : ~OnWire(c, s) /\ <<c, s>> \notin timers}

(* Each active thread has a command of its own, not yet ended.             *)
OwnCommands ==
  /\ \A t \in Threads : pc[t] # "idle" => reply[cmd[t]] = Pending
  /\ \A t, u \in Threads : pc[t] # "idle" /\ pc[u] # "idle" /\ cmd[t] = cmd[u] => t = u

NotSent ==
  /\ \A t \in Threads : pc[t] \in {"connect", "connecting", "send"} => cmd[t] \in Fresh
  /\ \A c \in Cmds : reply[c] = NotRun => c \in Fresh

(* A command is on one wire, once, or registered, once, and not yet run.   *)
WiresApart ==
  \A s, r \in Socks : \A i \in 1 .. Len(Wire(s)), j \in 1 .. Len(Wire(r)) :
    Wire(s)[i] = Wire(r)[j] => s = r /\ i = j

TimersApart ==
  \A c \in Cmds, s, r \in Socks :
    <<c, s>> \in timers => ~OnWire(c, r) /\ (<<c, r>> \in timers => s = r)

NotYetRun ==
  \A c \in Cmds, s \in Socks : OnWire(c, s) \/ <<c, s>> \in timers => executed[c] = 0

(* Replies come of commands that have run.                                 *)
RepliesRan ==
  /\ \A s \in Socks : toClient[s] \in Seq(Ran)
  /\ \A t \in Threads : chunks[t] \in Seq(Ran)
  /\ \A c \in Cmds : Taken(c) => reply[c] \in Ran

OneCopy == OwnCommands /\ NotSent /\ WiresApart /\ TimersApart /\ NotYetRun /\ AtMostOnce

(* What a socket carries.                                                  *)
Carries(s, up, waiting, down) ==
  /\ buffer[s] = <<>>
  /\ toAddon[s] = up
  /\ \A c \in Cmds : <<c, s>> \in timers => c \in waiting
  /\ toClient[s] = down

Clean(s) == Carries(s, <<>>, {}, <<>>)

Only(s, c) ==
  Carries(s, <<>>, {c}, <<>>) \/ Carries(s, <<c>>, {}, <<>>) \/ Carries(s, <<>>, {}, <<c>>)

(* As long as no two commands have overlapped.                             *)
OneThread == \A t, u \in Threads : pc[t] # "idle" /\ pc[u] # "idle" => t = u

Using(t, s) == (pc[t] = "bind" /\ sock = s) \/ (pc[t] = "receive" /\ mine[t] = s)

SocketsApart ==
  /\ \A s \in Socks : conn[s] \in {"unused", "new"} => Clean(s)
  /\ \A s \in Socks : Clean(s) \/ \E c \in Cmds : Only(s, c)
  /\ \A s \in Socks : sock = s /\ (\A t \in Threads : ~Using(t, s)) => Clean(s)
  /\ \A t \in Threads, s \in Socks, c \in Cmds : Using(t, s) /\ cmd[t] = c => Only(s, c)
  /\ \A t \in Threads : pc[t] = "receive" => sock \in {None, mine[t]}

Answers ==
  /\ \A t \in Threads : chunks[t] = <<>>
  /\ \A c \in Cmds : Taken(c) => reply[c] = c

Alone == ~overlapped => OneThread /\ SocketsApart /\ Answers

LinkInv == TypeOK /\ OneCopy /\ RepliesRan /\ Alone

(* Where the calls of the connection are.                                  *)
Begun == Len(line) - Len(inbox)

InLine ==
  /\ Len(inbox) <= Len(line)
  /\ \A i \in 1 .. Len(inbox) : inbox[i] = line[Begun + i] /\ reply[inbox[i]] = NotRun
  /\ doing # None => Begun > 0 /\ line[Begun] = doing /\ reply[doing] # NotRun
  /\ \A i \in 1 .. Begun :
       reply[line[i]] # NotRun /\ (line[i] # doing => reply[line[i]] # Pending)
  /\ \A i, j \in 1 .. Len(line) : line[i] = line[j] => i = j
  /\ \A i \in 1 .. Len(line) : call[line[i]] # "unused"
  /\ \A c \in Cmds : call[c] = "unused" => reply[c] = NotRun
  /\ stopped => line = <<>>

OnlyTheReceivers ==
  ReceiverAlone =>
    /\ ~overlapped
    /\ ~stopped => \A t \in Threads : pc[t] # "idle" => cmd[t] = doing

OkIsTaken == \A c \in Cmds : call[c] = "ok" => Taken(c)

PathInv == PathTypeOK /\ LinkInv /\ InLine /\ OnlyTheReceivers /\ OkIsTaken

USE DEF Places, Pending, Failed, NotRun, threadVars, addonVars

-----------------------------------------------------------------------------
(* Reading a stream. *)

(* A read divides what was held and what was in the stream in another      *)
(* place, and is all of it when it parses.                                 *)
Divides(S, kept, stream, read, rest) ==
  /\ read \in Seq(S) /\ rest \in Seq(S)
  /\ read # <<>>
  /\ read \o rest = kept \o stream
  /\ Parses(read) => /\ kept = <<>> /\ stream # <<>>
                     /\ Head(stream) \in S
                     /\ read[1] = Head(stream)
                     /\ rest = Tail(stream)

LEMMA ReadFacts ==
  \A S : \A kept, stream \in Seq(S) : \A n \in Prefixes(stream) :
    Divides(S, kept, stream, kept \o First(stream, n), Rest(stream, n))
<1> SUFFICES ASSUME NEW S, NEW kept \in Seq(S), NEW stream \in Seq(S), NEW n \in Prefixes(stream)
             PROVE  Divides(S, kept, stream, kept \o First(stream, n), Rest(stream, n))
  OBVIOUS
<1>1. n \in Nat /\ 1 <= n /\ n <= Len(stream) /\ Len(stream) \in Nat
  BY DEF Prefixes
<1>2. First(stream, n) \in Seq(S) /\ Len(First(stream, n)) = n
      /\ \A i \in 1 .. n : First(stream, n)[i] = stream[i]
  BY <1>1, SubSeqProperties DEF First
<1>3. Rest(stream, n) \in Seq(S)
  BY <1>1, SubSeqProperties DEF Rest
<1>4. First(stream, n) \o Rest(stream, n) = stream
  <2>1. 1 \in 1 .. Len(stream) + 1 /\ n \in 1 - 1 .. Len(stream) /\ Len(stream) \in n .. Len(stream)
    BY <1>1
  <2>2. SubSeq(stream, 1, n) \o SubSeq(stream, n + 1, Len(stream)) = SubSeq(stream, 1, Len(stream))
    BY <2>1, ConcatAdjacentSubSeq, Zenon
  <2> QED
    BY <2>2, SubSeqFull, Zenon DEF First, Rest
<1>5. kept \o First(stream, n) \in Seq(S) /\ Len(kept \o First(stream, n)) = Len(kept) + n
  BY <1>2, ConcatProperties
<1>6. ASSUME Parses(kept \o First(stream, n))
      PROVE  /\ kept = <<>> /\ stream # <<>>
             /\ Head(stream) \in S
             /\ (kept \o First(stream, n))[1] = Head(stream)
             /\ Rest(stream, n) = Tail(stream)
  <2>1. n = 1 /\ kept = <<>>
    <3>1. Len(kept) + n = 1
      BY <1>5, <1>6 DEF Parses
    <3>2. Len(kept) \in Nat
      OBVIOUS
    <3> QED
      BY <1>1, <3>1, <3>2, EmptySeq
  <2>2. stream # <<>>
    BY <1>1
  <2>3. Rest(stream, n) = Tail(stream)
    BY <2>1, <2>2, TailIsSubSeq DEF Rest
  <2>4. kept \o First(stream, n) = First(stream, n)
    BY <1>2, <2>1, ConcatEmptySeq, Zenon
  <2>5. First(stream, n)[1] = stream[1]
    BY <1>2, <2>1
  <2>6. stream[1] = Head(stream) /\ Head(stream) \in S
    BY <2>2
  <2> QED
    BY <2>1, <2>2, <2>3, <2>4, <2>5, <2>6, Zenon
<1>7. (kept \o First(stream, n)) \o Rest(stream, n) = kept \o (First(stream, n) \o Rest(stream, n))
  BY <1>2, <1>3, ConcatAssociative, SMTT(40)
<1>8. kept \o First(stream, n) # <<>>
  <2>1. Len(kept) \in Nat /\ Len(kept \o First(stream, n)) # 0
    BY <1>1, <1>5
  <2> QED
    BY <1>5, <2>1, EmptySeq
<1> HIDE DEF Parses
<1> QED
  BY <1>3, <1>4, <1>5, <1>6, <1>7, <1>8 DEF Divides

(* What a step of an addon's handler thread does to the wire: nothing, or  *)
(* it registers its first command.                                         *)
LEMMA AddonReads ==
  ASSUME TypeOK, NEW s \in Socks, AddonReceive(s)
  PROVE  /\ buffer' \in [Socks -> Seq(Cmds)] /\ toAddon' \in [Socks -> Seq(Cmds)]
         /\ \A r \in Socks \ {s} : buffer'[r] = buffer[r] /\ toAddon'[r] = toAddon[r]
         /\ toAddon[s] # <<>>
         /\ \/ /\ timers' = timers /\ Wire(s)' = Wire(s)
               /\ \E read, rest \in Seq(Cmds) :
                    read # <<>> /\ ~Parses(read) /\ read \o rest = Wire(s)
            \/ /\ buffer[s] = <<>> /\ buffer'[s] = <<>>
               /\ Head(toAddon[s]) \in Cmds
               /\ timers' = timers \cup {<<Head(toAddon[s]), s>>}
               /\ toAddon'[s] = Tail(toAddon[s])
<1>1. PICK n \in Prefixes(toAddon[s]) :
        LET read == buffer[s] \o First(toAddon[s], n) IN
        /\ toAddon' = [toAddon EXCEPT ![s] = Rest(@, n)]
        /\ IF Parses(read)
             THEN /\ timers' = timers \cup {<<read[1], s>>}
                  /\ buffer' = [buffer EXCEPT ![s] = <<>>]
             ELSE /\ buffer' = [buffer EXCEPT ![s] = read]
                  /\ UNCHANGED timers
  BY Zenon DEF AddonReceive
<1> DEFINE read == buffer[s] \o First(toAddon[s], n)
           rest == Rest(toAddon[s], n)
<1>2. buffer[s] \in Seq(Cmds) /\ toAddon[s] \in Seq(Cmds)
  BY DEF TypeOK
<1>5. /\ toAddon' = [toAddon EXCEPT ![s] = rest]
      /\ IF Parses(read)
             THEN /\ timers' = timers \cup {<<read[1], s>>}
                  /\ buffer' = [buffer EXCEPT ![s] = <<>>]
             ELSE /\ buffer' = [buffer EXCEPT ![s] = read]
                  /\ UNCHANGED timers
  BY <1>1, Zenon
<1>3. Divides(Cmds, buffer[s], toAddon[s], read, rest)
  BY <1>2, ReadFacts, Zenon
<1> HIDE DEF read, rest
<1>4. toAddon[s] # <<>>
  BY <1>2 DEF Prefixes
<1>7. <<>> \in Seq(Cmds)
  OBVIOUS
<1>8. buffer \in [Socks -> Seq(Cmds)] /\ toAddon \in [Socks -> Seq(Cmds)]
  BY DEF TypeOK
<1>9. CASE Parses(read)
  BY <1>3, <1>4, <1>5, <1>7, <1>8, <1>9, Zenon DEF Divides
<1>10. CASE ~Parses(read)
  <2>1. timers' = timers /\ Wire(s)' = Wire(s) /\ read \o rest = Wire(s)
    BY <1>3, <1>5, <1>8, <1>10 DEF Wire, Divides
  <2>2. /\ buffer' \in [Socks -> Seq(Cmds)] /\ toAddon' \in [Socks -> Seq(Cmds)]
        /\ \A r \in Socks \ {s} : buffer'[r] = buffer[r] /\ toAddon'[r] = toAddon[r]
    BY <1>3, <1>5, <1>8, <1>10, Zenon DEF Divides
  <2>3. \E x, y \in Seq(Cmds) : x # <<>> /\ ~Parses(x) /\ x \o y = Wire(s)
    BY <1>3, <1>10, <2>1, Zenon DEF Divides
  <2> QED
    BY <1>4, <2>1, <2>2, <2>3, Zenon
<1> QED
  BY <1>9, <1>10

(* What a reader's step does: it holds more, or the invocation ends with   *)
(* the reply it read.                                                      *)
LEMMA ClientReads ==
  ASSUME TypeOK, NEW t \in Threads, Receive(t), NEW S,
         chunks[t] \in Seq(S), toClient[mine[t]] \in Seq(S)
  PROVE  /\ mine[t] \in Socks /\ pc[t] = "receive"
         /\ \E read \in Seq(S), rest \in Seq(S) :
              /\ toClient' = [toClient EXCEPT ![mine[t]] = rest]
              /\ read # <<>> /\ read \o rest = chunks[t] \o toClient[mine[t]]
              /\ \/ /\ chunks' = [chunks EXCEPT ![t] = read]
                    /\ ~Parses(read)
                    /\ UNCHANGED <<pc, cmd, mine, reply>>
                 \/ /\ toClient[mine[t]] # <<>>
                    /\ chunks[t] = <<>>
                    /\ rest = Tail(toClient[mine[t]])
                    /\ Head(toClient[mine[t]]) \in S
                    /\ EndWith(t, Head(toClient[mine[t]]))
<1>0. pc[t] = "receive" /\ mine[t] \in Socks
  BY DEF Receive, TypeOK
<1>1. PICK n \in Prefixes(toClient[mine[t]]) :
        LET read == chunks[t] \o First(toClient[mine[t]], n) IN
        /\ toClient' = [toClient EXCEPT ![mine[t]] = Rest(@, n)]
        /\ IF Parses(read)
             THEN EndWith(t, read[1])
             ELSE /\ chunks' = [chunks EXCEPT ![t] = read]
                  /\ UNCHANGED <<pc, cmd, mine, reply>>
  BY Zenon DEF Receive
<1> DEFINE read == chunks[t] \o First(toClient[mine[t]], n)
           rest == Rest(toClient[mine[t]], n)
<1>4. /\ toClient' = [toClient EXCEPT ![mine[t]] = rest]
      /\ IF Parses(read)
             THEN EndWith(t, read[1])
             ELSE /\ chunks' = [chunks EXCEPT ![t] = read]
                  /\ UNCHANGED <<pc, cmd, mine, reply>>
  BY <1>0, <1>1 DEF TypeOK
<1>3. Divides(S, chunks[t], toClient[mine[t]], read, rest)
  BY ReadFacts, Zenon
<1> HIDE DEF read, rest
<1>5. /\ \/ /\ chunks' = [chunks EXCEPT ![t] = read]
            /\ ~Parses(read)
            /\ UNCHANGED <<pc, cmd, mine, reply>>
         \/ /\ toClient[mine[t]] # <<>>
            /\ chunks[t] = <<>>
            /\ rest = Tail(toClient[mine[t]])
            /\ Head(toClient[mine[t]]) \in S
            /\ EndWith(t, Head(toClient[mine[t]]))
  BY <1>3, <1>4, Zenon DEF Divides
<1> QED
  BY <1>0, <1>3, <1>4, <1>5, Zenon DEF Divides
-----------------------------------------------------------------------------
(* Type correctness of the link.                                           *)
ThreadType ==
  /\ pc \in [Threads -> Places]
  /\ cmd \in [Threads -> Cmds \cup {None}]
  /\ mine \in [Threads -> Socks \cup {None}]
  /\ chunks \in [Threads -> Seq(Cmds)]
  /\ reply \in [Cmds -> Cmds \cup {NotRun, Pending, Failed}]
  /\ \A t \in Threads : /\ pc[t] # "idle" => cmd[t] \in Cmds
                        /\ pc[t] = "receive" => mine[t] \in Socks

(* The end of an invocation.                                               *)
LEMMA EndType ==
  ASSUME ThreadType, NEW t \in Threads, pc[t] # "idle",
         NEW r \in Cmds \cup {Failed}, EndWith(t, r)
  PROVE  ThreadType'
<1>1. cmd[t] \in Cmds
  BY DEF ThreadType
<1>2. reply' \in [Cmds -> Cmds \cup {NotRun, Pending, Failed}]
  BY <1>1 DEF ThreadType, EndWith
<1>3. chunks' \in [Threads -> Seq(Cmds)]
  <2>1. <<>> \in Seq(Cmds)
    OBVIOUS
  <2> QED
    BY <2>1 DEF ThreadType, EndWith
<1>4. /\ pc' \in [Threads -> Places]
      /\ cmd' \in [Threads -> Cmds \cup {None}]
      /\ mine' \in [Threads -> Socks \cup {None}]
      /\ \A u \in Threads : /\ pc'[u] # "idle" => cmd'[u] \in Cmds
                            /\ pc'[u] = "receive" => mine'[u] \in Socks
  BY DEF ThreadType, EndWith
<1> QED
  BY <1>2, <1>3, <1>4 DEF ThreadType

LEMMA LinkType == TypeOK /\ [Next]_vars => TypeOK'
<1> SUFFICES ASSUME TypeOK, [Next]_vars PROVE TypeOK'
  OBVIOUS
<1> USE DEF TypeOK
<1>1. ASSUME NEW t \in Threads, NEW c \in Cmds, Begin(t, c) PROVE TypeOK'
  BY <1>1 DEF Begin
<1>2. ASSUME NEW t \in Threads, MakeSocket(t) PROVE TypeOK'
  BY <1>2, ZenonT(60) DEF MakeSocket, GoTo
<1>3. ASSUME NEW t \in Threads, Connected(t) PROVE TypeOK'
  BY <1>3 DEF Connected, GoTo
<1>4. ASSUME NEW t \in Threads, NotConnected(t) PROVE TypeOK'
  BY <1>4, EndType DEF NotConnected, ThreadType
<1>5. ASSUME NEW t \in Threads, Send(t) PROVE TypeOK'
  <2>1. cmd[t] \in Cmds /\ sock \in Socks
    BY <1>5 DEF Send, CanSend
  <2>2. Append(toAddon[sock], cmd[t]) \in Seq(Cmds)
    BY <2>1
  <2> QED
    BY <1>5, <2>1, <2>2 DEF Send, GoTo
<1>6. ASSUME NEW t \in Threads, SendFails(t) PROVE TypeOK'
  BY <1>6, EndType DEF SendFails, ThreadType
<1>7. ASSUME NEW t \in Threads, Bind(t) PROVE TypeOK'
  <2>1. CASE sock = None
    BY <1>7, <2>1, EndType DEF Bind, ThreadType
  <2>2. CASE sock # None
    BY <1>7, <2>2, ZenonT(60) DEF Bind
  <2> QED
    BY <2>1, <2>2
<1>8. ASSUME NEW t \in Threads, Receive(t) PROVE TypeOK'
  <2>1. pc[t] = "receive" /\ mine[t] \in Socks
    BY <1>8 DEF Receive
  <2>2. chunks[t] \in Seq(Cmds) /\ toClient[mine[t]] \in Seq(Cmds)
    BY <2>1
  <2>3. PICK read \in Seq(Cmds), rest \in Seq(Cmds) :
          /\ toClient' = [toClient EXCEPT ![mine[t]] = rest]
          /\ \/ chunks' = [chunks EXCEPT ![t] = read] /\ UNCHANGED <<pc, cmd, mine, reply>>
             \/ Head(toClient[mine[t]]) \in Cmds /\ EndWith(t, Head(toClient[mine[t]]))
    <3> HIDE DEF TypeOK
    <3> QED
      BY <1>8, <2>2, ClientReads, Zenon
  <2>4. UNCHANGED <<sock, conn, toAddon, addonVars, overlapped>>
    BY <1>8 DEF Receive
  <2>5. CASE chunks' = [chunks EXCEPT ![t] = read] /\ UNCHANGED <<pc, cmd, mine, reply>>
    BY <2>1, <2>3, <2>4, <2>5
  <2>6. CASE Head(toClient[mine[t]]) \in Cmds /\ EndWith(t, Head(toClient[mine[t]]))
    BY <2>1, <2>3, <2>4, <2>6, EndType DEF ThreadType
  <2> QED
    BY <2>3, <2>5, <2>6
<1>9. ASSUME NEW t \in Threads, ReceiveFails(t) PROVE TypeOK'
  BY <1>9, EndType DEF ReceiveFails, AfterFailure, ThreadType
<1>10. ASSUME NEW t \in Threads, Disconnect(t) PROVE TypeOK'
  BY <1>10 DEF Disconnect
<1>11. ASSUME NEW s \in Socks, AddonReceive(s) PROVE TypeOK'
  <2>1. /\ buffer' \in [Socks -> Seq(Cmds)] /\ toAddon' \in [Socks -> Seq(Cmds)]
        /\ \/ timers' = timers
           \/ Head(toAddon[s]) \in Cmds /\ timers' = timers \cup {<<Head(toAddon[s]), s>>}
    <3> HIDE DEF TypeOK
    <3> QED
      BY <1>11, AddonReads, Zenon
  <2>2. UNCHANGED <<sock, conn, threadVars, toClient, executed, overlapped>>
    BY <1>11 DEF AddonReceive
  <2>3. timers' \subseteq Cmds \X Socks
    BY <2>1
  <2> QED
    BY <2>1, <2>2, <2>3
<1>12. ASSUME NEW s \in Socks, AddonCloses(s) PROVE TypeOK'
  BY <1>12 DEF AddonCloses
<1>13. ASSUME NEW timer \in timers, Execute(timer) PROVE TypeOK'
  BY <1>13, SMTT(40) DEF Execute, Unregistered
<1>14. CASE UNCHANGED vars
  BY <1>14 DEF vars
<1>15. ASSUME NEW c \in Cmds, Refused(c) PROVE TypeOK'
  BY <1>15 DEF Refused
<1> QED
  BY <1>1, <1>2, <1>3, <1>4, <1>5, <1>6, <1>7, <1>8, <1>9, <1>10, <1>11, <1>12, <1>13, <1>14, <1>15
     DEF Next, ThreadStep, AddonStep

LEMMA LinkTypeInit == Init => TypeOK
<1>1. <<>> \in Seq(Cmds)
  OBVIOUS
<1> SUFFICES ASSUME Init PROVE TypeOK
  OBVIOUS
<1>2. /\ chunks \in [Threads -> Seq(Cmds)] /\ toAddon \in [Socks -> Seq(Cmds)]
      /\ toClient \in [Socks -> Seq(Cmds)] /\ buffer \in [Socks -> Seq(Cmds)]
  BY <1>1, Zenon DEF Init
<1>3. /\ sock \in Socks \cup {None}
      /\ conn \in [Socks -> {"unused", "new", "connected", "dropped", "closed"}]
      /\ pc \in [Threads -> Places]
      /\ cmd \in [Threads -> Cmds \cup {None}]
      /\ mine \in [Threads -> Socks \cup {None}]
      /\ reply \in [Cmds -> Cmds \cup {NotRun, Pending, Failed}]
      /\ timers \subseteq Cmds \X Socks
      /\ executed \in [Cmds -> Nat]
      /\ overlapped \in BOOLEAN
      /\ \A t \in Threads : pc[t] = "idle"
  BY DEF Init
<1> QED
  BY <1>2, <1>3 DEF TypeOK

-----------------------------------------------------------------------------
(* One copy of each command. *)

ThreadPart == OwnCommands /\ NotSent
WirePart   == WiresApart /\ TimersApart /\ NotYetRun /\ AtMostOnce

LEMMA WireType == TypeOK => \A s \in Socks : Wire(s) \in Seq(Cmds)
BY ConcatProperties DEF TypeOK, Wire

(* A step that leaves the addon's side alone.                              *)
LEMMA AddonAlone ==
  ASSUME UNCHANGED <<buffer, toAddon, timers, executed>>
  PROVE  /\ Fresh' = Fresh
         /\ WirePart' <=> WirePart
BY DEF Fresh, OnWire, Wire, WirePart, WiresApart, TimersApart, NotYetRun, AtMostOnce

(* The end of an invocation, and a move within one.                        *)
LEMMA Ends ==
  ASSUME TypeOK, ThreadPart, NEW t \in Threads, pc[t] # "idle",
         NEW r \in Cmds \cup {Failed}, EndWith(t, r),
         UNCHANGED <<buffer, toAddon, timers, executed>>
  PROVE  ThreadPart'
<1>1. cmd[t] \in Cmds /\ reply' = [reply EXCEPT ![cmd[t]] = r]
      /\ pc' = [pc EXCEPT ![t] = "idle"] /\ cmd' = [cmd EXCEPT ![t] = None]
  BY DEF TypeOK, EndWith
<1>2. r # NotRun
  BY NamesAssumption
<1>3. OwnCommands'
  BY <1>1 DEF ThreadPart, OwnCommands, TypeOK
<1>4. Fresh' = Fresh
  BY AddonAlone
<1>5. \A u \in Threads : pc'[u] \in {"connect", "connecting", "send"} => cmd'[u] \in Fresh'
  <2> SUFFICES ASSUME NEW u \in Threads, pc'[u] \in {"connect", "connecting", "send"}
               PROVE  cmd'[u] \in Fresh'
    OBVIOUS
  <2>1. u # t /\ pc'[u] = pc[u] /\ cmd'[u] = cmd[u]
    BY <1>1 DEF TypeOK
  <2>2. cmd[u] \in Fresh /\ cmd[u] \in Cmds
    BY <2>1 DEF ThreadPart, NotSent, TypeOK
  <2> QED
    BY <1>4, <2>1, <2>2
<1>6. \A c \in Cmds : reply'[c] = NotRun => c \in Fresh'
  BY <1>1, <1>2, <1>4 DEF ThreadPart, NotSent, TypeOK
<1> QED
  BY <1>3, <1>5, <1>6 DEF ThreadPart, NotSent

LEMMA Goes ==
  ASSUME TypeOK, ThreadPart, NEW t \in Threads, pc[t] # "idle",
         NEW place \in Places, pc' = [pc EXCEPT ![t] = place],
         place \in {"connect", "connecting", "send"} => pc[t] \in {"connect", "connecting", "send"},
         UNCHANGED <<cmd, reply>>,
         UNCHANGED <<buffer, toAddon, timers, executed>>
  PROVE  ThreadPart'
<1>1. Fresh' = Fresh
  BY AddonAlone
<1>2. OwnCommands'
  BY DEF ThreadPart, OwnCommands, TypeOK
<1>3. \A u \in Threads : pc'[u] \in {"connect", "connecting", "send"} => cmd'[u] \in Fresh'
  <2> SUFFICES ASSUME NEW u \in Threads, pc'[u] \in {"connect", "connecting", "send"}
               PROVE  cmd'[u] \in Fresh'
    OBVIOUS
  <2>1. pc[u] \in {"connect", "connecting", "send"}
    BY DEF TypeOK
  <2>2. cmd[u] \in Fresh /\ cmd[u] \in Cmds
    BY <2>1 DEF ThreadPart, NotSent, TypeOK
  <2> QED
    BY <1>1, <2>2
<1>4. \A c \in Cmds : reply'[c] = NotRun => c \in Fresh'
  BY <1>1 DEF ThreadPart, NotSent
<1> QED
  BY <1>2, <1>3, <1>4 DEF ThreadPart, NotSent

(* A step that leaves every invocation where it is.                        *)
LEMMA Stays ==
  ASSUME ThreadPart, UNCHANGED <<pc, cmd, reply>>, TypeOK,
         \A c \in Cmds : c \in Fresh /\ (\E t \in Threads : pc[t] # "idle" /\ cmd[t] = c) => c \in Fresh',
         \A c \in Cmds : c \in Fresh /\ reply[c] = NotRun => c \in Fresh'
  PROVE  ThreadPart'
<1>1. OwnCommands'
  BY DEF ThreadPart, OwnCommands
<1>2. \A u \in Threads : pc'[u] \in {"connect", "connecting", "send"} => cmd'[u] \in Fresh'
  <2> SUFFICES ASSUME NEW u \in Threads, pc'[u] \in {"connect", "connecting", "send"}
               PROVE  cmd'[u] \in Fresh'
    OBVIOUS
  <2>1. pc[u] # "idle" /\ cmd[u] \in Fresh /\ cmd[u] \in Cmds
    BY DEF ThreadPart, NotSent, TypeOK
  <2> QED
    BY <2>1
<1>3. \A c \in Cmds : reply'[c] = NotRun => c \in Fresh'
  BY DEF ThreadPart, NotSent
<1> QED
  BY <1>1, <1>2, <1>3 DEF ThreadPart, NotSent

LEMMA AppendLast ==
  \A kept, stream \in Seq(Cmds), c \in Cmds :
    kept \o Append(stream, c) = Append(kept \o stream, c)
<1> SUFFICES ASSUME NEW S, S = Cmds, NEW kept \in Seq(S), NEW stream \in Seq(S), NEW c \in S
             PROVE  kept \o Append(stream, c) = Append(kept \o stream, c)
  OBVIOUS
<1>1. <<c>> \in Seq(S) /\ kept \o stream \in Seq(S)
  BY ConcatProperties
<1>2. Append(stream, c) = stream \o <<c>> /\ Append(kept \o stream, c) = (kept \o stream) \o <<c>>
  BY <1>1, AppendIsConcat
<1>3. kept \o (stream \o <<c>>) = (kept \o stream) \o <<c>>
  BY <1>1, ConcatAssociative
<1> QED
  BY <1>2, <1>3

(* Sending puts the command at the end of the wire.                        *)
LEMMA WireAppends ==
  ASSUME TypeOK, NEW s \in Socks, NEW c \in Cmds,
         toAddon' = [toAddon EXCEPT ![s] = Append(@, c)], buffer' = buffer
  PROVE  /\ Wire(s)' = Append(Wire(s), c)
         /\ \A r \in Socks \ {s} : Wire(r)' = Wire(r)
<1>1. buffer[s] \in Seq(Cmds) /\ toAddon[s] \in Seq(Cmds)
  BY DEF TypeOK
<1>2. toAddon'[s] = Append(toAddon[s], c)
  BY DEF TypeOK
<1>3. buffer[s] \o Append(toAddon[s], c) = Append(buffer[s] \o toAddon[s], c)
  BY <1>1, AppendLast
<1>5. \A r \in Socks \ {s} : Wire(r)' = Wire(r)
  BY DEF Wire, TypeOK
<1> QED
  BY <1>2, <1>3, <1>5 DEF Wire

(* Send takes the command from its thread to the wire.                     *)
LEMMA SendKeeps ==
  ASSUME TypeOK, ThreadPart, WirePart, NEW t \in Threads, Send(t)
  PROVE  ThreadPart' /\ WirePart'
<1>1. PICK s \in Socks, c \in Cmds :
        /\ sock = s /\ cmd[t] = c /\ pc[t] = "send"
        /\ toAddon' = [toAddon EXCEPT ![s] = Append(@, c)]
        /\ pc' = [pc EXCEPT ![t] = "bind"]
        /\ UNCHANGED <<cmd, reply, buffer, timers, executed>>
  BY DEF Send, CanSend, GoTo, TypeOK
<1>2. /\ Wire(s)' = Append(Wire(s), c)
      /\ \A r \in Socks \ {s} : Wire(r)' = Wire(r)
  BY <1>1, WireAppends
<1>3. c \in Fresh /\ reply[c] = Pending
  BY <1>1, Zenon DEF ThreadPart, NotSent, OwnCommands
<1>4. \A r \in Socks : Wire(r) \in Seq(Cmds)
  BY WireType
<1>5. /\ Len(Wire(s)') = Len(Wire(s)) + 1
      /\ \A i \in 1 .. Len(Wire(s)) : Wire(s)'[i] = Wire(s)[i]
      /\ Wire(s)'[Len(Wire(s)) + 1] = c
      /\ Len(Wire(s)) \in Nat
  BY <1>2, <1>4, AppendProperties
<1>6. \A r \in Socks, d \in Cmds : OnWire(d, r)' => OnWire(d, r) \/ (d = c /\ r = s)
  BY <1>2, <1>5 DEF OnWire
<1>7. \A r \in Socks : ~OnWire(c, r) /\ <<c, r>> \notin timers
  BY <1>3 DEF Fresh
<1>8. \A d \in Cmds \ {c} : d \in Fresh => d \in Fresh'
  BY <1>1, <1>6 DEF Fresh
<1>9. OwnCommands'
  BY <1>1 DEF ThreadPart, OwnCommands, TypeOK
<1>10. ASSUME NEW u \in Threads, pc'[u] \in {"connect", "connecting", "send"}
       PROVE  cmd'[u] \in Fresh'
  <2>1. u # t /\ pc'[u] = pc[u] /\ cmd'[u] = cmd[u] /\ cmd[u] \in Cmds /\ pc[u] # "idle"
    BY <1>1, <1>10 DEF TypeOK
  <2>2. cmd[u] # c /\ cmd[u] \in Fresh
    BY <1>1, <1>10, <2>1 DEF ThreadPart, OwnCommands, NotSent
  <2> QED
    BY <1>8, <2>1, <2>2
<1>11. ASSUME NEW d \in Cmds, reply'[d] = NotRun PROVE d \in Fresh'
  BY <1>1, <1>3, <1>8, <1>11 DEF ThreadPart, NotSent
<1>12. WiresApart'
  <2> SUFFICES ASSUME NEW p \in Socks, NEW r \in Socks,
                      NEW i \in 1 .. Len(Wire(p)'), NEW j \in 1 .. Len(Wire(r)'),
                      Wire(p)'[i] = Wire(r)'[j]
               PROVE  p = r /\ i = j
    BY DEF WiresApart
  <2>1. CASE i \in 1 .. Len(Wire(p)) /\ j \in 1 .. Len(Wire(r))
    BY <1>2, <1>5, <2>1, SMTT(40) DEF WirePart, WiresApart
  <2>2. CASE p = s /\ i = Len(Wire(s)) + 1 /\ j \in 1 .. Len(Wire(r))
    BY <1>2, <1>5, <1>7, <2>2 DEF OnWire
  <2>3. CASE r = s /\ j = Len(Wire(s)) + 1 /\ i \in 1 .. Len(Wire(p))
    BY <1>2, <1>5, <1>7, <2>3 DEF OnWire
  <2> QED
    BY <1>2, <1>5, <2>1, <2>2, <2>3
<1>13. TimersApart' /\ NotYetRun' /\ AtMostOnce'
  <2>1. TimersApart'
    BY <1>1, <1>6, <1>7 DEF WirePart, TimersApart
  <2>2. NotYetRun'
    BY <1>1, <1>3, <1>6 DEF WirePart, NotYetRun, Fresh
  <2> QED
    BY <1>1, <2>1, <2>2 DEF WirePart, AtMostOnce
<1> QED
  BY <1>9, <1>10, <1>11, <1>12, <1>13 DEF ThreadPart, NotSent, WirePart

(* A handler thread takes the first command off the wire, or nothing.      *)
LEMMA AddonReceiveKeeps ==
  ASSUME TypeOK, ThreadPart, WirePart, NEW s \in Socks, AddonReceive(s)
  PROVE  ThreadPart' /\ WirePart'
<1>1. /\ UNCHANGED <<pc, cmd, reply, executed>>
      /\ buffer \in [Socks -> Seq(Cmds)] /\ toAddon \in [Socks -> Seq(Cmds)]
  BY DEF AddonReceive, TypeOK
<1>2. /\ buffer' \in [Socks -> Seq(Cmds)] /\ toAddon' \in [Socks -> Seq(Cmds)]
      /\ \A r \in Socks \ {s} : buffer'[r] = buffer[r] /\ toAddon'[r] = toAddon[r]
      /\ toAddon[s] # <<>>
      /\ \/ timers' = timers /\ Wire(s)' = Wire(s)
         \/ /\ buffer[s] = <<>> /\ buffer'[s] = <<>>
            /\ Head(toAddon[s]) \in Cmds
            /\ timers' = timers \cup {<<Head(toAddon[s]), s>>}
            /\ toAddon'[s] = Tail(toAddon[s])
  BY AddonReads, Zenon
<1>3. \A r \in Socks \ {s} : Wire(r)' = Wire(r)
  BY <1>2 DEF Wire
<1>4. CASE timers' = timers /\ Wire(s)' = Wire(s)
  <2>1. \A r \in Socks : Wire(r)' = Wire(r)
    BY <1>3, <1>4
  <2>2. Fresh' = Fresh
    BY <1>1, <1>4, <2>1 DEF Fresh, OnWire
  <2>3. WirePart'
    BY <1>1, <1>4, <2>1, SMTT(40) DEF WirePart, WiresApart, TimersApart, NotYetRun, AtMostOnce, OnWire
  <2> QED
    BY <1>1, <2>2, <2>3, Stays
<1>5. CASE /\ buffer[s] = <<>> /\ buffer'[s] = <<>>
           /\ Head(toAddon[s]) \in Cmds
           /\ timers' = timers \cup {<<Head(toAddon[s]), s>>}
           /\ toAddon'[s] = Tail(toAddon[s])
  <2>1. PICK c \in Cmds : c = Head(toAddon[s])
    BY <1>5
  <2>2. PICK w \in Seq(Cmds) : w = toAddon[s]
    BY <1>1
  <2>3. w # <<>> /\ c = Head(w) /\ Tail(w) \in Seq(Cmds)
    BY <1>2, <2>1, <2>2
  <2>4. Wire(s) = w /\ Wire(s)' = Tail(w)
    BY <1>5, <2>2, <2>3, ConcatEmptySeq DEF Wire
  <2>5. /\ Len(w) \in Nat /\ 1 \in 1 .. Len(w) /\ w[1] = c
        /\ Len(Tail(w)) = Len(w) - 1
        /\ \A i \in 1 .. Len(Tail(w)) : Tail(w)[i] = w[i + 1]
    BY <2>3, HeadTailProperties
  <2>6. OnWire(c, s)
    BY <2>4, <2>5 DEF OnWire
  <2>7. \A r \in Socks, d \in Cmds : OnWire(d, r)' => OnWire(d, r)
    BY <1>3, <2>4, <2>5 DEF OnWire
  <2>8. \A r \in Socks : ~OnWire(c, r)'
    <3> SUFFICES ASSUME NEW r \in Socks, NEW i \in 1 .. Len(Wire(r)'), Wire(r)'[i] = c PROVE FALSE
      BY DEF OnWire
    <3>1. CASE r = s
      <4>1. i \in 1 .. Len(Tail(w)) /\ Tail(w)[i] = c
        BY <2>4, <3>1
      <4>2. i + 1 \in 1 .. Len(w) /\ w[i + 1] = w[1] /\ i + 1 # 1
        BY <2>5, <4>1
      <4> QED
        BY <2>4, <2>5, <4>2 DEF WirePart, WiresApart
    <3>2. CASE r # s
      BY <1>3, <2>4, <2>5, <3>2 DEF WirePart, WiresApart
    <3> QED
      BY <3>1, <3>2
  <2>9. \A d \in Cmds : d \in Fresh => d \in Fresh'
    BY <1>1, <1>5, <2>1, <2>6, <2>7 DEF Fresh
  <2>10. WiresApart'
    <3> SUFFICES ASSUME NEW p \in Socks, NEW r \in Socks,
                        NEW i \in 1 .. Len(Wire(p)'), NEW j \in 1 .. Len(Wire(r)'),
                        Wire(p)'[i] = Wire(r)'[j]
                 PROVE  p = r /\ i = j
      BY DEF WiresApart
    <3>1. \A q \in Socks : \A k \in 1 .. Len(Wire(q)') :
            /\ q # s => k \in 1 .. Len(Wire(q)) /\ Wire(q)'[k] = Wire(q)[k]
            /\ q = s => k + 1 \in 1 .. Len(Wire(q)) /\ Wire(q)'[k] = Wire(q)[k + 1]
      <4> SUFFICES ASSUME NEW q \in Socks, NEW k \in 1 .. Len(Wire(q)')
                   PROVE  /\ q # s => k \in 1 .. Len(Wire(q)) /\ Wire(q)'[k] = Wire(q)[k]
                          /\ q = s => k + 1 \in 1 .. Len(Wire(q)) /\ Wire(q)'[k] = Wire(q)[k + 1]
        OBVIOUS
      <4>1. CASE q # s
        BY <1>3, <4>1
      <4>2. CASE q = s
        <5>1. k \in 1 .. Len(Tail(w)) /\ Wire(q)'[k] = Tail(w)[k] /\ Wire(q) = w
          BY <2>4, <4>2
        <5> QED
          BY <2>5, <4>2, <5>1
      <4> QED
        BY <4>1, <4>2
    <3> QED
      BY <3>1 DEF WirePart, WiresApart
  <2>11. TimersApart'
    BY <1>5, <2>1, <2>6, <2>7, <2>8 DEF WirePart, TimersApart
  <2>12. NotYetRun' /\ AtMostOnce'
    BY <1>1, <1>5, <2>1, <2>6, <2>7 DEF WirePart, NotYetRun, AtMostOnce
  <2> QED
    BY <1>1, <2>9, <2>10, <2>11, <2>12, Stays DEF WirePart
<1> QED
  BY <1>2, <1>4, <1>5

(* The main thread runs a command, which is then nowhere any more.         *)
LEMMA ExecuteKeeps ==
  ASSUME TypeOK, ThreadPart, WirePart, NEW timer \in timers, Execute(timer)
  PROVE  ThreadPart' /\ WirePart'
<1>1. PICK c \in Cmds, s \in Socks : timer = <<c, s>>
  BY DEF TypeOK
<1>2. /\ <<c, s>> \in timers /\ timers' = timers \ {<<c, s>>}
      /\ executed' = [executed EXCEPT ![c] = @ + 1]
      /\ UNCHANGED <<pc, cmd, reply, toAddon, buffer>>
  BY <1>1 DEF Execute, Unregistered
<1>3. \A r \in Socks : Wire(r)' = Wire(r)
  BY <1>2 DEF Wire
<1>4. executed[c] = 0 /\ \A r \in Socks : ~OnWire(c, r) /\ <<c, r>> \notin timers'
  BY <1>2 DEF WirePart, NotYetRun, TimersApart
<1>5. \A d \in Cmds : d # c => executed'[d] = executed[d]
  BY <1>2 DEF TypeOK
<1>6. executed'[c] = 1
  BY <1>2, <1>4 DEF TypeOK
<1>7. \A d \in Cmds : d \in Fresh => d \in Fresh'
  BY <1>2, <1>3, <1>5 DEF Fresh, OnWire
<1>8. WirePart'
  <2>1. WiresApart'
    BY <1>3 DEF WirePart, WiresApart
  <2>2. TimersApart'
    BY <1>2, <1>3 DEF WirePart, TimersApart, OnWire
  <2>3. NotYetRun'
    BY <1>2, <1>3, <1>4, <1>5 DEF WirePart, NotYetRun, OnWire
  <2>4. AtMostOnce'
    BY <1>5, <1>6 DEF WirePart, AtMostOnce
  <2> QED
    BY <2>1, <2>2, <2>3, <2>4 DEF WirePart
<1> QED
  BY <1>2, <1>7, <1>8, Stays

LEMMA OneCopyKept == TypeOK /\ OneCopy /\ [Next]_vars => OneCopy'
<1> SUFFICES ASSUME TypeOK, ThreadPart, WirePart, [Next]_vars PROVE ThreadPart' /\ WirePart'
  BY DEF OneCopy, ThreadPart, WirePart
<1>1. ASSUME NEW t \in Threads, NEW c \in Cmds, Begin(t, c) PROVE ThreadPart' /\ WirePart'
  <2>1. /\ pc[t] = "idle" /\ reply[c] = NotRun
        /\ cmd' = [cmd EXCEPT ![t] = c] /\ reply' = [reply EXCEPT ![c] = Pending]
        /\ \A u \in Threads : u # t => pc'[u] = pc[u]
        /\ UNCHANGED <<buffer, toAddon, timers, executed>>
    BY <1>1 DEF Begin, TypeOK
  <2>2. Fresh' = Fresh /\ WirePart'
    BY <2>1, AddonAlone
  <2>3. OwnCommands'
    <3>1. \A u \in Threads : u # t /\ pc[u] # "idle" => cmd[u] # c /\ cmd'[u] = cmd[u] /\ cmd[u] \in Cmds
      BY <2>1 DEF ThreadPart, OwnCommands, TypeOK
    <3>2. cmd'[t] = c /\ reply'[c] = Pending /\ \A d \in Cmds : d # c => reply'[d] = reply[d]
      BY <2>1 DEF TypeOK
    <3> QED
      BY <2>1, <3>1, <3>2 DEF ThreadPart, OwnCommands
  <2>4. NotSent'
    <3>1. c \in Fresh /\ cmd'[t] = c /\ \A u \in Threads : u # t => cmd'[u] = cmd[u]
      BY <2>1 DEF ThreadPart, NotSent, TypeOK
    <3>2. \A d \in Cmds : reply'[d] = NotRun => reply[d] = NotRun
      BY <2>1 DEF TypeOK
    <3> QED
      BY <2>1, <2>2, <3>1, <3>2 DEF ThreadPart, NotSent
  <2> QED
    BY <2>2, <2>3, <2>4 DEF ThreadPart
<1>2. ASSUME NEW t \in Threads, MakeSocket(t) PROVE ThreadPart' /\ WirePart'
  BY <1>2, Goes, AddonAlone DEF MakeSocket, GoTo
<1>3. ASSUME NEW t \in Threads, Connected(t) PROVE ThreadPart' /\ WirePart'
  BY <1>3, Goes, AddonAlone DEF Connected, GoTo
<1>4. ASSUME NEW t \in Threads, NotConnected(t) PROVE ThreadPart' /\ WirePart'
  BY <1>4, Ends, AddonAlone DEF NotConnected
<1>5. ASSUME NEW t \in Threads, Send(t) PROVE ThreadPart' /\ WirePart'
  BY <1>5, SendKeeps
<1>6. ASSUME NEW t \in Threads, SendFails(t) PROVE ThreadPart' /\ WirePart'
  BY <1>6, Ends, AddonAlone DEF SendFails
<1>7. ASSUME NEW t \in Threads, Bind(t) PROVE ThreadPart' /\ WirePart'
  <2>1. CASE sock = None
    BY <1>7, <2>1, Ends, AddonAlone DEF Bind
  <2>2. CASE sock # None
    BY <1>7, <2>2, Goes, AddonAlone DEF Bind
  <2> QED
    BY <2>1, <2>2
<1>8. ASSUME NEW t \in Threads, Receive(t) PROVE ThreadPart' /\ WirePart'
  <2>1. pc[t] = "receive" /\ chunks[t] \in Seq(Cmds) /\ toClient[mine[t]] \in Seq(Cmds)
    BY <1>8 DEF Receive, TypeOK
  <2>2. \/ UNCHANGED <<pc, cmd, mine, reply>>
        \/ Head(toClient[mine[t]]) \in Cmds /\ EndWith(t, Head(toClient[mine[t]]))
    BY <1>8, <2>1, ClientReads, Zenon
  <2>3. UNCHANGED <<buffer, toAddon, timers, executed>>
    BY <1>8 DEF Receive
  <2>4. WirePart' /\ Fresh' = Fresh
    BY <2>3, AddonAlone
  <2>5. CASE UNCHANGED <<pc, cmd, mine, reply>>
    BY <2>4, <2>5, Stays
  <2>6. CASE Head(toClient[mine[t]]) \in Cmds /\ EndWith(t, Head(toClient[mine[t]]))
    BY <2>1, <2>3, <2>4, <2>6, Ends
  <2> QED
    BY <2>2, <2>4, <2>5, <2>6
<1>9. ASSUME NEW t \in Threads, ReceiveFails(t) PROVE ThreadPart' /\ WirePart'
  BY <1>9, Ends, AddonAlone DEF ReceiveFails
<1>10. ASSUME NEW t \in Threads, Disconnect(t) PROVE ThreadPart' /\ WirePart'
  BY <1>10, Stays, AddonAlone DEF Disconnect
<1>11. ASSUME NEW s \in Socks, AddonReceive(s) PROVE ThreadPart' /\ WirePart'
  BY <1>11, AddonReceiveKeeps
<1>12. ASSUME NEW s \in Socks, AddonCloses(s) PROVE ThreadPart' /\ WirePart'
  BY <1>12, Stays, AddonAlone DEF AddonCloses
<1>13. ASSUME NEW timer \in timers, Execute(timer) PROVE ThreadPart' /\ WirePart'
  BY <1>13, ExecuteKeeps
<1>14. CASE UNCHANGED vars
  BY <1>14, Stays, AddonAlone DEF vars
<1>15. ASSUME NEW c \in Cmds, Refused(c) PROVE ThreadPart' /\ WirePart'
  <2>1. /\ reply[c] = NotRun /\ reply' = [reply EXCEPT ![c] = Failed]
        /\ UNCHANGED <<pc, cmd, buffer, toAddon, timers, executed>>
    BY <1>15 DEF Refused
  <2>2. Fresh' = Fresh /\ WirePart'
    BY <2>1, AddonAlone
  <2>3. /\ \A u \in Threads : pc[u] # "idle" => cmd[u] \in Cmds /\ cmd[u] # c
        /\ \A d \in Cmds : d # c => reply'[d] = reply[d]
        /\ reply'[c] = Failed
    BY <2>1 DEF ThreadPart, OwnCommands, TypeOK
  <2>4. OwnCommands'
    BY <2>1, <2>3 DEF ThreadPart, OwnCommands
  <2>5. NotSent'
    BY <2>1, <2>2, <2>3 DEF ThreadPart, NotSent
  <2> QED
    BY <2>2, <2>4, <2>5 DEF ThreadPart
<1> QED
  BY <1>1, <1>2, <1>3, <1>4, <1>5, <1>6, <1>7, <1>8, <1>9, <1>10, <1>11, <1>12, <1>13, <1>14, <1>15
     DEF Next, ThreadStep, AddonStep

-----------------------------------------------------------------------------
(* Replies come of commands that have run. *)

LEMMA EndRan ==
  ASSUME TypeOK, RepliesRan, NEW t \in Threads, pc[t] # "idle",
         NEW r \in Ran \cup {Failed}, EndWith(t, r), UNCHANGED executed
  PROVE  /\ \A u \in Threads : chunks'[u] \in Seq(Ran')
         /\ \A c \in Cmds : Taken(c)' => reply'[c] \in Ran'
<1>1. Ran' = Ran /\ cmd[t] \in Cmds
  BY DEF Ran, TypeOK
<1>2. \A u \in Threads : chunks'[u] \in Seq(Ran)
  <2>1. <<>> \in Seq(Ran)
    OBVIOUS
  <2> QED
    BY <2>1 DEF EndWith, RepliesRan, TypeOK
<1>3. \A c \in Cmds : reply'[c] \in Cmds => reply'[c] \in Ran
  <2>1. Failed \notin Cmds
    BY NamesAssumption
  <2> QED
    BY <1>1, <2>1 DEF EndWith, RepliesRan, Taken, TypeOK
<1> QED
  BY <1>1, <1>2, <1>3 DEF Taken

(* A step that leaves the replies alone.                                   *)
LEMMA StaysRan ==
  ASSUME RepliesRan, UNCHANGED <<toClient, chunks, executed>>,
         \A c \in Cmds : Taken(c)' => Taken(c) /\ reply'[c] = reply[c]
  PROVE  RepliesRan'
<1>1. Ran' = Ran
  BY DEF Ran
<1> QED
  BY <1>1 DEF RepliesRan

LEMMA RepliesRanKept == TypeOK /\ RepliesRan /\ [Next]_vars => RepliesRan'
<1> SUFFICES ASSUME TypeOK, RepliesRan, [Next]_vars PROVE RepliesRan'
  OBVIOUS
<1>0. ASSUME NEW t \in Threads, pc[t] # "idle", EndWith(t, Failed), UNCHANGED <<toClient, executed>>
      PROVE  RepliesRan'
  <2>1. Ran' = Ran
    BY <1>0 DEF Ran
  <2> QED
    BY <1>0, <2>1, EndRan DEF RepliesRan
<1>1. ASSUME NEW t \in Threads, NEW c \in Cmds, Begin(t, c) PROVE RepliesRan'
  <2>1. Pending \notin Cmds
    BY NamesAssumption
  <2>2. \A d \in Cmds : Taken(d)' => Taken(d) /\ reply'[d] = reply[d]
    BY <1>1, <2>1 DEF Begin, Taken, TypeOK
  <2>3. UNCHANGED <<toClient, chunks, executed>>
    BY <1>1 DEF Begin
  <2> QED
    BY <2>2, <2>3, StaysRan
<1>2. ASSUME NEW t \in Threads, MakeSocket(t) PROVE RepliesRan'
  BY <1>2, StaysRan DEF MakeSocket, GoTo, Taken
<1>3. ASSUME NEW t \in Threads, Connected(t) PROVE RepliesRan'
  BY <1>3, StaysRan DEF Connected, GoTo, Taken
<1>4. ASSUME NEW t \in Threads, NotConnected(t) PROVE RepliesRan'
  BY <1>0, <1>4 DEF NotConnected
<1>5. ASSUME NEW t \in Threads, Send(t) PROVE RepliesRan'
  BY <1>5, StaysRan DEF Send, GoTo, Taken
<1>6. ASSUME NEW t \in Threads, SendFails(t) PROVE RepliesRan'
  BY <1>0, <1>6 DEF SendFails
<1>7. ASSUME NEW t \in Threads, Bind(t) PROVE RepliesRan'
  <2>1. CASE sock = None
    BY <1>0, <1>7, <2>1 DEF Bind
  <2>2. CASE sock # None
    BY <1>7, <2>2, StaysRan DEF Bind, Taken
  <2> QED
    BY <2>1, <2>2
<1>8. ASSUME NEW t \in Threads, Receive(t) PROVE RepliesRan'
  <2>1. /\ pc[t] = "receive" /\ mine[t] \in Socks
        /\ chunks[t] \in Seq(Ran) /\ toClient[mine[t]] \in Seq(Ran)
        /\ UNCHANGED executed
    BY <1>8 DEF Receive, TypeOK, RepliesRan
  <2>2. Ran' = Ran
    BY <2>1 DEF Ran
  <2>3. PICK read \in Seq(Ran), rest \in Seq(Ran) :
          /\ toClient' = [toClient EXCEPT ![mine[t]] = rest]
          /\ \/ chunks' = [chunks EXCEPT ![t] = read] /\ UNCHANGED <<pc, cmd, mine, reply>>
             \/ Head(toClient[mine[t]]) \in Ran /\ EndWith(t, Head(toClient[mine[t]]))
    BY <1>8, <2>1, ClientReads, Zenon
  <2>4. \A s \in Socks : toClient'[s] \in Seq(Ran')
    BY <2>1, <2>2, <2>3 DEF RepliesRan, TypeOK
  <2>5. CASE chunks' = [chunks EXCEPT ![t] = read] /\ UNCHANGED <<pc, cmd, mine, reply>>
    <3>1. \A u \in Threads : chunks'[u] \in Seq(Ran')
      BY <2>2, <2>5 DEF RepliesRan, TypeOK
    <3>2. \A c \in Cmds : Taken(c)' => reply'[c] \in Ran'
      BY <2>2, <2>5 DEF RepliesRan, Taken
    <3> QED
      BY <2>4, <3>1, <3>2 DEF RepliesRan
  <2>6. CASE Head(toClient[mine[t]]) \in Ran /\ EndWith(t, Head(toClient[mine[t]]))
    <3>1. PICK r \in Ran : EndWith(t, r)
      BY <2>6
    <3> QED
      BY <2>1, <2>4, <3>1, EndRan DEF RepliesRan
  <2> QED
    BY <2>3, <2>5, <2>6
<1>9. ASSUME NEW t \in Threads, ReceiveFails(t) PROVE RepliesRan'
  BY <1>0, <1>9 DEF ReceiveFails
<1>10. ASSUME NEW t \in Threads, Disconnect(t) PROVE RepliesRan'
  <2>1. UNCHANGED <<chunks, executed, reply>> /\ sock \in Socks
        /\ toClient' = [toClient EXCEPT ![sock] = <<>>]
    BY <1>10 DEF Disconnect, TypeOK
  <2>2. Ran' = Ran
    BY <2>1 DEF Ran
  <2>3. <<>> \in Seq(Ran)
    OBVIOUS
  <2>4. \A s \in Socks : toClient'[s] \in Seq(Ran)
    BY <2>1, <2>3 DEF RepliesRan, TypeOK
  <2> QED
    BY <2>1, <2>2, <2>4 DEF RepliesRan, Taken
<1>11. ASSUME NEW s \in Socks, AddonReceive(s) PROVE RepliesRan'
  BY <1>11, StaysRan DEF AddonReceive, Taken
<1>12. ASSUME NEW s \in Socks, AddonCloses(s) PROVE RepliesRan'
  BY <1>12, StaysRan DEF AddonCloses, Taken
<1>13. ASSUME NEW timer \in timers, Execute(timer) PROVE RepliesRan'
  <2>1. PICK c \in Cmds, s \in Socks : timer = <<c, s>>
    BY DEF TypeOK
  <2>2. /\ executed' = [executed EXCEPT ![c] = @ + 1]
        /\ toClient' = toClient \/ toClient' = [toClient EXCEPT ![s] = Append(@, c)]
        /\ UNCHANGED <<chunks, reply>>
    BY <1>13, <2>1 DEF Execute
  <2>3. Ran \subseteq Ran' /\ c \in Ran'
    BY <2>2, SMTT(40) DEF Ran, TypeOK
  <2>4. \A q \in Seq(Ran) : q \in Seq(Ran')
    BY <2>3, SeqMonotonic
  <2>5. \A r \in Socks : toClient'[r] \in Seq(Ran')
    <3>1. \A r \in Socks : toClient[r] \in Seq(Ran')
      BY <2>4 DEF RepliesRan
    <3>2. Append(toClient[s], c) \in Seq(Ran')
      BY <2>3, <3>1
    <3> QED
      BY <2>2, <3>1, <3>2 DEF TypeOK
  <2> QED
    BY <2>2, <2>3, <2>4, <2>5 DEF RepliesRan, Taken
<1>14. CASE UNCHANGED vars
  BY <1>14, StaysRan DEF vars, Taken
<1>15. ASSUME NEW c \in Cmds, Refused(c) PROVE RepliesRan'
  <2>1. Failed \notin Cmds
    BY NamesAssumption
  <2>2. \A d \in Cmds : Taken(d)' => Taken(d) /\ reply'[d] = reply[d]
    BY <1>15, <2>1 DEF Refused, Taken, TypeOK
  <2>3. UNCHANGED <<toClient, chunks, executed>>
    BY <1>15 DEF Refused
  <2> QED
    BY <2>2, <2>3, StaysRan
<1> QED
  BY <1>1, <1>2, <1>3, <1>4, <1>5, <1>6, <1>7, <1>8, <1>9, <1>10, <1>11, <1>12, <1>13, <1>14, <1>15
     DEF Next, ThreadStep, AddonStep

-----------------------------------------------------------------------------
(* As long as no two commands have overlapped. *)

AlonePart == OneThread /\ SocketsApart /\ Answers

(* Nothing of a single message is left to be read.                         *)
LEMMA SingleRead ==
  \A read, rest \in Seq(Cmds), c \in Cmds : read # <<>> /\ read \o rest = <<c>> => Parses(read)
<1>0. \A m \in Nat \ {0}, n \in Nat : m + n = 1 => m = 1
  OBVIOUS
<1> SUFFICES ASSUME NEW read \in Seq(Cmds), NEW rest \in Seq(Cmds), NEW c \in Cmds,
                    read # <<>>, read \o rest = <<c>>
             PROVE  Len(read) = 1
  BY DEF Parses
<1>1. Len(read) + Len(rest) = 1
  <2>1. Len(read \o rest) = Len(read) + Len(rest)
    BY ConcatProperties
  <2>2. Len(read \o rest) = Len(<<c>>)
    BY Zenon
  <2>3. Len(<<c>>) = 1
    OBVIOUS
  <2> QED
    BY <2>1, <2>2, <2>3
<1>2. Len(read) \in Nat \ {0} /\ Len(rest) \in Nat
  BY EmptySeq
<1> QED
  BY <1>0, <1>1, <1>2, Zenon

(* The end of the only invocation with a failure, which gives up the       *)
(* socket.                                                                 *)
LEMMA EndAlone ==
  ASSUME TypeOK, AlonePart, NEW t \in Threads, pc[t] # "idle", EndWith(t, Failed), sock' = None,
         UNCHANGED <<conn, buffer, toAddon, toClient, timers>>
  PROVE  AlonePart'
<1>1. \A u \in Threads : pc'[u] = "idle" /\ mine'[u] \in Socks \cup {None}
  BY DEF AlonePart, OneThread, EndWith, TypeOK
<1>2. \A s \in Socks : Clean(s)' <=> Clean(s)
  BY DEF Clean, Carries
<1>3. \A s \in Socks, c \in Cmds : Only(s, c)' <=> Only(s, c)
  BY DEF Only, Carries
<1>4. \A u \in Threads, s \in Socks : ~Using(u, s)'
  BY <1>1 DEF Using
<1>5. None \notin Socks /\ Failed \notin Cmds
  BY NamesAssumption
<1>6. SocketsApart'
  BY <1>1, <1>2, <1>3, <1>4, <1>5 DEF AlonePart, SocketsApart
<1>7. Answers'
  BY <1>5 DEF AlonePart, Answers, EndWith, Taken, TypeOK
<1> QED
  BY <1>1, <1>6, <1>7 DEF AlonePart, OneThread

(* A step of the addon, or the loss of the socket, with what it does to    *)
(* what the sockets carry.                                                 *)
LEMMA CarryAlone ==
  ASSUME AlonePart, UNCHANGED threadVars, sock' \in {sock, None}, TypeOK,
         \A s \in Socks : conn'[s] \in {"unused", "new"} => conn[s] \in {"unused", "new"},
         \A s \in Socks : Clean(s) => Clean(s)',
         \A s \in Socks, c \in Cmds : Only(s, c) => Only(s, c)'
  PROVE  AlonePart'
<1>1. None \notin Socks
  BY NamesAssumption
<1>2. \A t \in Threads, s \in Socks : Using(t, s)' => Using(t, s)
  BY <1>1 DEF Using
<1>3. \A t \in Threads, s \in Socks : sock' = s /\ Using(t, s) => Using(t, s)'
  BY <1>1 DEF Using
<1>4. SocketsApart'
  BY <1>1, <1>2, <1>3 DEF AlonePart, SocketsApart
<1>5. Answers' /\ OneThread'
  BY DEF AlonePart, Answers, Taken, OneThread
<1> QED
  BY <1>4, <1>5 DEF AlonePart

(* What a step that does not touch the sockets leaves as it is.            *)
LEMMA SameCarry ==
  ASSUME UNCHANGED <<buffer, toAddon, toClient, timers>>
  PROVE  /\ \A s \in Socks : Clean(s)' <=> Clean(s)
         /\ \A s \in Socks, c \in Cmds : Only(s, c)' <=> Only(s, c)
BY DEF Clean, Only, Carries

LEMMA BeginAlone ==
  ASSUME TypeOK, AlonePart, NEW t \in Threads, NEW c \in Cmds, Begin(t, c), ~overlapped'
  PROVE  AlonePart'
<1>1. /\ \A u \in Threads : pc[u] = "idle"
      /\ \A u \in Threads : u # t => pc'[u] = "idle"
      /\ pc'[t] \in {"connect", "send"}
      /\ reply' = [reply EXCEPT ![c] = Pending]
      /\ UNCHANGED <<sock, conn, mine, chunks, buffer, toAddon, toClient, timers>>
  BY DEF Begin, TypeOK
<1>2. \A u \in Threads, s \in Socks : ~Using(u, s) /\ ~Using(u, s)'
  BY <1>1 DEF Using
<1>3. SocketsApart'
  BY <1>1, <1>2, SameCarry DEF AlonePart, SocketsApart
<1>4. Answers'
  <2>1. Pending \notin Cmds
    BY NamesAssumption
  <2> QED
    BY <1>1, <2>1 DEF AlonePart, Answers, Taken, TypeOK
<1> QED
  BY <1>1, <1>3, <1>4 DEF AlonePart, OneThread

LEMMA RefusedAlone ==
  ASSUME TypeOK, AlonePart, NEW c \in Cmds, Refused(c)
  PROVE  AlonePart'
<1>1. /\ reply' = [reply EXCEPT ![c] = Failed]
      /\ UNCHANGED <<sock, conn, pc, cmd, mine, chunks, buffer, toAddon, toClient, timers>>
  BY DEF Refused
<1>2. \A u \in Threads, s \in Socks : Using(u, s)' <=> Using(u, s)
  BY <1>1 DEF Using
<1>3. SocketsApart'
  BY <1>1, <1>2, SameCarry DEF AlonePart, SocketsApart
<1>4. Answers'
  <2>1. Failed \notin Cmds
    BY NamesAssumption
  <2> QED
    BY <1>1, <2>1 DEF AlonePart, Answers, Taken, TypeOK
<1> QED
  BY <1>1, <1>3, <1>4 DEF AlonePart, OneThread

LEMMA MakeSocketAlone ==
  ASSUME TypeOK, AlonePart, NEW t \in Threads, MakeSocket(t) \/ Connected(t)
  PROVE  AlonePart'
<1>1. /\ pc[t] \in {"connect", "connecting"} /\ pc'[t] \in {"connecting", "send"}
      /\ \A u \in Threads : u # t => pc'[u] = pc[u]
      /\ UNCHANGED <<cmd, mine, chunks, reply, buffer, toAddon, toClient, timers>>
      /\ sock' = sock \/ (sock' \in Socks /\ conn[sock'] = "unused")
      /\ \A s \in Socks : conn'[s] \in {"unused", "new"} => conn[s] \in {"unused", "new"}
  BY DEF MakeSocket, Connected, GoTo, TypeOK
<1>2. \A u \in Threads : u # t => pc[u] = "idle" /\ pc'[u] = "idle"
  BY <1>1 DEF AlonePart, OneThread
<1>3. \A u \in Threads, s \in Socks : ~Using(u, s) /\ ~Using(u, s)'
  BY <1>1, <1>2 DEF Using
<1>4. \A s \in Socks : sock' = s => Clean(s)
  BY <1>1, <1>3 DEF AlonePart, SocketsApart
<1>5. SocketsApart'
  BY <1>1, <1>2, <1>3, <1>4, SameCarry DEF AlonePart, SocketsApart
<1>6. Answers'
  BY <1>1 DEF AlonePart, Answers, Taken
<1> QED
  BY <1>1, <1>2, <1>5, <1>6 DEF AlonePart, OneThread

LEMMA SendAlone ==
  ASSUME TypeOK, AlonePart, NEW t \in Threads, Send(t)
  PROVE  AlonePart'
<1>1. PICK s \in Socks, c \in Cmds :
        /\ sock = s /\ cmd[t] = c /\ pc[t] = "send" /\ conn[s] = "connected"
        /\ toAddon' = [toAddon EXCEPT ![s] = Append(@, c)]
        /\ pc' = [pc EXCEPT ![t] = "bind"]
        /\ UNCHANGED <<sock, conn, cmd, mine, chunks, reply, buffer, toClient, timers>>
  BY DEF Send, CanSend, GoTo, TypeOK
<1>2. \A u \in Threads : u # t => pc[u] = "idle" /\ pc'[u] = "idle"
  BY <1>1 DEF AlonePart, OneThread, TypeOK
<1>3. Clean(s)
  BY <1>1, <1>2 DEF AlonePart, SocketsApart, Using
<1>4. Only(s, c)'
  <2>1. toAddon'[s] = <<c>>
    BY <1>1, <1>3 DEF Clean, Carries, TypeOK
  <2> QED
    BY <1>1, <1>3, <2>1 DEF Only, Clean, Carries
<1>5. \A r \in Socks \ {s} : Clean(r)' <=> Clean(r)
  BY <1>1 DEF Clean, Carries, TypeOK
<1>6. \A r \in Socks \ {s}, d \in Cmds : Only(r, d)' <=> Only(r, d)
  BY <1>1 DEF Only, Carries, TypeOK
<1>7. pc'[t] = "bind" /\ \A u \in Threads, r \in Socks : Using(u, r)' => u = t /\ r = s
  BY <1>1, <1>2 DEF Using, TypeOK
<1>8. Using(t, s)'
  BY <1>1, <1>7 DEF Using
<1>9. SocketsApart'
  BY <1>1, <1>2, <1>4, <1>5, <1>6, <1>7, <1>8 DEF AlonePart, SocketsApart
<1>10. Answers'
  BY <1>1 DEF AlonePart, Answers, Taken
<1> QED
  BY <1>1, <1>2, <1>9, <1>10 DEF AlonePart, OneThread

LEMMA BindAlone ==
  ASSUME TypeOK, AlonePart, NEW t \in Threads, Bind(t), sock # None
  PROVE  AlonePart'
<1>1. /\ pc[t] = "bind" /\ pc' = [pc EXCEPT ![t] = "receive"]
      /\ mine' = [mine EXCEPT ![t] = sock]
      /\ UNCHANGED <<sock, conn, cmd, chunks, reply, buffer, toAddon, toClient, timers>>
  BY DEF Bind
<1>2. \A u \in Threads : u # t => pc[u] = "idle" /\ pc'[u] = "idle"
  BY <1>1 DEF AlonePart, OneThread, TypeOK
<1>3. pc'[t] = "receive" /\ mine'[t] = sock
  BY <1>1 DEF TypeOK
<1>4. \A u \in Threads, s \in Socks : Using(u, s)' <=> Using(u, s)
  BY <1>1, <1>2, <1>3 DEF Using
<1>5. SocketsApart'
  BY <1>1, <1>2, <1>3, <1>4, SameCarry DEF AlonePart, SocketsApart
<1>6. Answers'
  BY <1>1 DEF AlonePart, Answers, Taken
<1> QED
  BY <1>1, <1>2, <1>5, <1>6 DEF AlonePart, OneThread

(* The reader finds the reply to its own command, whole.                   *)
LEMMA ReceiveAlone ==
  ASSUME TypeOK, AlonePart, NEW t \in Threads, Receive(t)
  PROVE  AlonePart'
<1>1. PICK s \in Socks, c \in Cmds : mine[t] = s /\ cmd[t] = c /\ pc[t] = "receive"
  BY DEF Receive, TypeOK
<1>2. UNCHANGED <<sock, conn, buffer, toAddon, timers>> /\ toClient[s] # <<>>
  BY <1>1 DEF Receive, Prefixes
<1>3. Only(s, c) /\ chunks[t] = <<>> /\ sock \in {None, s}
  BY <1>1 DEF AlonePart, SocketsApart, Answers, Using
<1>4. toClient[s] = <<c>> /\ buffer[s] = <<>> /\ toAddon[s] = <<>> /\ \A d \in Cmds : <<d, s>> \notin timers
  BY <1>2, <1>3 DEF Only, Carries
<1>5. PICK read \in Seq(Cmds), rest \in Seq(Cmds) :
        /\ toClient' = [toClient EXCEPT ![s] = rest]
        /\ read # <<>> /\ read \o rest = chunks[t] \o toClient[s]
        /\ \/ ~Parses(read)
           \/ rest = Tail(toClient[s]) /\ EndWith(t, Head(toClient[s]))
  <2>1. chunks[t] \in Seq(Cmds) /\ toClient[mine[t]] \in Seq(Cmds)
    BY <1>1 DEF TypeOK
  <2>2. PICK x \in Seq(Cmds), y \in Seq(Cmds) :
          /\ toClient' = [toClient EXCEPT ![mine[t]] = y]
          /\ x # <<>> /\ x \o y = chunks[t] \o toClient[mine[t]]
          /\ \/ /\ chunks' = [chunks EXCEPT ![t] = x]
                /\ ~Parses(x)
                /\ UNCHANGED <<pc, cmd, mine, reply>>
             \/ /\ toClient[mine[t]] # <<>>
                /\ chunks[t] = <<>>
                /\ y = Tail(toClient[mine[t]])
                /\ Head(toClient[mine[t]]) \in Cmds
                /\ EndWith(t, Head(toClient[mine[t]]))
    BY <2>1, ClientReads, Zenon
  <2> QED
    BY <1>1, <2>2, Zenon
<1>6. Parses(read)
  <2>1. chunks[t] \o toClient[s] = <<c>>
    BY <1>3, <1>4, ConcatEmptySeq
  <2> QED
    BY <1>5, <2>1, SingleRead
<1>7. EndWith(t, c) /\ toClient'[s] = <<>> /\ \A r \in Socks \ {s} : toClient'[r] = toClient[r]
  BY <1>4, <1>5, <1>6 DEF TypeOK
<1>8. \A u \in Threads : pc'[u] = "idle"
  BY <1>1, <1>7 DEF AlonePart, OneThread, EndWith, TypeOK
<1>9. Clean(s)'
  BY <1>2, <1>4, <1>7 DEF Clean, Carries
<1>10. \A r \in Socks \ {s} : Clean(r)' <=> Clean(r)
  BY <1>2, <1>7 DEF Clean, Carries
<1>11. \A r \in Socks \ {s}, d \in Cmds : Only(r, d)' <=> Only(r, d)
  BY <1>2, <1>7 DEF Only, Carries
<1>12. \A u \in Threads, r \in Socks : ~Using(u, r)'
  BY <1>8 DEF Using
<1>13. None \notin Socks
  BY NamesAssumption
<1>14. SocketsApart'
  BY <1>2, <1>3, <1>8, <1>9, <1>10, <1>11, <1>12, <1>13 DEF AlonePart, SocketsApart
<1>15. Answers'
  BY <1>1, <1>7 DEF AlonePart, Answers, Taken, EndWith, TypeOK
<1> QED
  BY <1>8, <1>14, <1>15 DEF AlonePart, OneThread

(* The addon's steps keep a socket's message what it is.                   *)
LEMMA AddonReceiveAlone ==
  ASSUME TypeOK, AlonePart, NEW s \in Socks, AddonReceive(s)
  PROVE  AlonePart'
<1>1. UNCHANGED <<sock, conn, threadVars, toClient>>
  BY DEF AddonReceive
<1>2. /\ \A r \in Socks \ {s} : buffer'[r] = buffer[r] /\ toAddon'[r] = toAddon[r]
      /\ toAddon[s] # <<>>
      /\ \/ \E read, rest \in Seq(Cmds) : read # <<>> /\ ~Parses(read) /\ read \o rest = Wire(s)
         \/ /\ buffer'[s] = <<>>
            /\ timers' = timers \cup {<<Head(toAddon[s]), s>>}
            /\ toAddon'[s] = Tail(toAddon[s])
  BY AddonReads, Zenon
<1>3. ~Clean(s)
  BY <1>2 DEF Clean, Carries
<1>4. PICK c \in Cmds : Only(s, c)
  BY <1>3 DEF AlonePart, SocketsApart
<1>5. toAddon[s] = <<c>> /\ buffer[s] = <<>> /\ toClient[s] = <<>> /\ \A d \in Cmds : <<d, s>> \notin timers
  BY <1>2, <1>4 DEF Only, Carries
<1>6. Wire(s) = <<c>>
  BY <1>5, ConcatEmptySeq DEF Wire
<1>7. buffer'[s] = <<>> /\ timers' = timers \cup {<<c, s>>} /\ toAddon'[s] = <<>>
  <2>1. buffer'[s] = <<>> /\ timers' = timers \cup {<<Head(toAddon[s]), s>>} /\ toAddon'[s] = Tail(toAddon[s])
    BY <1>2, <1>6, SingleRead
  <2>2. Head(toAddon[s]) = c /\ Tail(toAddon[s]) = <<>>
    BY <1>5
  <2> QED
    BY <2>1, <2>2
<1>8. Only(s, c)'
  BY <1>1, <1>5, <1>7 DEF Only, Carries
<1>9. \A d \in Cmds : Only(s, d) => d = c
  BY <1>5 DEF Only, Carries
<1>10. \A r \in Socks \ {s} : Clean(r) => Clean(r)'
  BY <1>1, <1>2, <1>7 DEF Clean, Carries
<1>11. \A r \in Socks \ {s}, d \in Cmds : Only(r, d) => Only(r, d)'
  BY <1>1, <1>2, <1>7 DEF Only, Carries
<1> QED
  BY <1>1, <1>3, <1>8, <1>9, <1>10, <1>11, CarryAlone

LEMMA ExecuteAlone ==
  ASSUME TypeOK, AlonePart, NEW timer \in timers, Execute(timer)
  PROVE  AlonePart'
<1>1. PICK c \in Cmds, s \in Socks : timer = <<c, s>>
  BY DEF TypeOK
<1>2. /\ <<c, s>> \in timers /\ timers' = timers \ {<<c, s>>}
      /\ toClient' = toClient \/ toClient' = [toClient EXCEPT ![s] = Append(@, c)]
      /\ UNCHANGED <<sock, conn, threadVars, toAddon, buffer>>
  BY <1>1 DEF Execute, Unregistered
<1>3. ~Clean(s)
  BY <1>2 DEF Clean, Carries
<1>4. Only(s, c) /\ \A d \in Cmds : Only(s, d) => d = c
  BY <1>2, <1>3 DEF AlonePart, SocketsApart, Only, Carries
<1>5. toAddon[s] = <<>> /\ buffer[s] = <<>> /\ toClient[s] = <<>> /\ \A d \in Cmds : <<d, s>> \in timers => d = c
  BY <1>2, <1>4 DEF Only, Carries
<1>6. toClient'[s] \in {<<>>, <<c>>}
  BY <1>2, <1>5 DEF TypeOK
<1>7. Only(s, c)'
  BY <1>2, <1>5, <1>6 DEF Only, Carries
<1>8. \A r \in Socks \ {s} : toClient'[r] = toClient[r]
  BY <1>2 DEF TypeOK
<1>9. \A r \in Socks \ {s} : Clean(r) => Clean(r)'
  BY <1>2, <1>8 DEF Clean, Carries
<1>10. \A r \in Socks \ {s}, d \in Cmds : Only(r, d) => Only(r, d)'
  BY <1>2, <1>8 DEF Only, Carries
<1> QED
  BY <1>2, <1>3, <1>4, <1>7, <1>9, <1>10, CarryAlone

LEMMA DisconnectAlone ==
  ASSUME TypeOK, AlonePart, NEW t \in Threads, Disconnect(t)
  PROVE  AlonePart'
<1>1. PICK s \in Socks : sock = s
  BY DEF Disconnect, TypeOK
<1>2. /\ toClient' = [toClient EXCEPT ![s] = <<>>] /\ sock' = None
      /\ conn'[s] \in {"dropped", "closed"} /\ \A r \in Socks \ {s} : conn'[r] = conn[r]
      /\ UNCHANGED <<threadVars, toAddon, buffer, timers>>
  BY <1>1 DEF Disconnect, TypeOK
<1>3. toClient'[s] = <<>> /\ \A r \in Socks \ {s} : toClient'[r] = toClient[r]
  BY <1>2 DEF TypeOK
<1>4. \A r \in Socks : Clean(r) => Clean(r)'
  BY <1>2, <1>3 DEF Clean, Carries
<1>5. \A r \in Socks, d \in Cmds : Only(r, d) => Only(r, d)'
  BY <1>2, <1>3 DEF Only, Carries
<1> QED
  BY <1>2, <1>4, <1>5, CarryAlone

LEMMA AloneKept == TypeOK /\ Alone /\ [Next]_vars => Alone'
<1> SUFFICES ASSUME TypeOK, Alone, [Next]_vars, ~overlapped' PROVE AlonePart'
  BY DEF Alone, AlonePart
<1>0. ~overlapped
  BY DEF Next, ThreadStep, AddonStep, vars, Begin, Refused, MakeSocket, Connected, NotConnected, Send,
         SendFails, Bind, Receive, ReceiveFails, Disconnect, AddonReceive, AddonCloses, Execute
<1> AlonePart
  BY <1>0 DEF Alone, AlonePart
<1>1. ASSUME NEW t \in Threads, NEW c \in Cmds, Begin(t, c) PROVE AlonePart'
  BY <1>1, BeginAlone
<1>2. ASSUME NEW t \in Threads, MakeSocket(t) \/ Connected(t) PROVE AlonePart'
  BY <1>2, MakeSocketAlone
<1>4. ASSUME NEW t \in Threads, NotConnected(t) PROVE AlonePart'
  BY <1>4, EndAlone DEF NotConnected
<1>5. ASSUME NEW t \in Threads, Send(t) PROVE AlonePart'
  BY <1>5, SendAlone
<1>6. ASSUME NEW t \in Threads, SendFails(t) PROVE AlonePart'
  BY <1>6, EndAlone DEF SendFails
<1>7. ASSUME NEW t \in Threads, Bind(t) PROVE AlonePart'
  <2>1. CASE sock = None
    BY <1>7, <2>1, EndAlone DEF Bind
  <2>2. CASE sock # None
    BY <1>7, <2>2, BindAlone
  <2> QED
    BY <2>1, <2>2
<1>8. ASSUME NEW t \in Threads, Receive(t) PROVE AlonePart'
  BY <1>8, ReceiveAlone
<1>9. ASSUME NEW t \in Threads, ReceiveFails(t) PROVE AlonePart'
  BY <1>9, EndAlone DEF ReceiveFails, AfterFailure
<1>10. ASSUME NEW t \in Threads, Disconnect(t) PROVE AlonePart'
  BY <1>10, DisconnectAlone
<1>11. ASSUME NEW s \in Socks, AddonReceive(s) PROVE AlonePart'
  BY <1>11, AddonReceiveAlone
<1>12. ASSUME NEW s \in Socks, AddonCloses(s) PROVE AlonePart'
  <2>1. /\ UNCHANGED <<sock, threadVars, buffer, toAddon, toClient, timers>>
        /\ \A r \in Socks : conn'[r] \in {"unused", "new"} => conn[r] \in {"unused", "new"}
    BY <1>12 DEF AddonCloses, TypeOK
  <2> QED
    BY <2>1, CarryAlone, SameCarry
<1>13. ASSUME NEW timer \in timers, Execute(timer) PROVE AlonePart'
  BY <1>13, ExecuteAlone
<1>14. CASE UNCHANGED vars
  BY <1>14, CarryAlone, SameCarry DEF vars
<1>15. ASSUME NEW c \in Cmds, Refused(c) PROVE AlonePart'
  BY <1>15, RefusedAlone
<1> QED
  BY <1>1, <1>2, <1>4, <1>5, <1>6, <1>7, <1>8, <1>9, <1>10, <1>11, <1>12, <1>13, <1>14, <1>15
     DEF Next, ThreadStep, AddonStep

-----------------------------------------------------------------------------
(* The link: what is promised of it. *)

LEMMA LinkInvKept == LinkInv /\ [Next]_vars => LinkInv'
BY LinkType, OneCopyKept, RepliesRanKept, AloneKept DEF LinkInv

LEMMA LinkInvInit == Init => LinkInv
<1> SUFFICES ASSUME Init PROVE LinkInv
  OBVIOUS
<1>1. TypeOK
  BY LinkTypeInit
<1>2. /\ \A s \in Socks : /\ toAddon[s] = <<>> /\ buffer[s] = <<>> /\ toClient[s] = <<>>
                          /\ Len(Wire(s)) = 0
      /\ \A t \in Threads : pc[t] = "idle" /\ chunks[t] = <<>>
      /\ \A c \in Cmds : executed[c] = 0 /\ reply[c] = NotRun
      /\ timers = {} /\ sock = None
  BY ConcatEmptySeq DEF Init, Wire
<1>3. OneCopy
  BY <1>2 DEF OneCopy, OwnCommands, NotSent, WiresApart, TimersApart, NotYetRun, AtMostOnce, OnWire, Fresh
<1>4. NotRun \notin Cmds /\ None \notin Socks
  BY NamesAssumption
<1>5. RepliesRan
  <2>1. <<>> \in Seq(Ran)
    OBVIOUS
  <2> QED
    BY <1>2, <1>4, <2>1 DEF RepliesRan, Taken
<1>6. Alone
  <2>1. \A s \in Socks : Clean(s)
    BY <1>2 DEF Clean, Carries
  <2> QED
    BY <1>2, <1>4, <2>1 DEF Alone, OneThread, SocketsApart, Answers, Taken, Using
<1> QED
  BY <1>1, <1>3, <1>5, <1>6 DEF LinkInv

(* What send_command and the addon promise between them: types, at most    *)
(* one run of a command, and, for one send_command at a time, one's own    *)
(* reply and streams that parse.                                           *)
LEMMA LinkPromises == LinkInv => OwnReply /\ StreamsParse /\ AtMostOnce
<1> SUFFICES ASSUME LinkInv PROVE OwnReply /\ StreamsParse /\ AtMostOnce
  OBVIOUS
<1>1. ~overlapped => \A s \in Socks : buffer[s] = <<>>
  BY DEF LinkInv, Alone, SocketsApart, Clean, Only, Carries
<1>2. ~overlapped => \A t \in Threads : chunks[t] = <<>>
  BY DEF LinkInv, Alone, Answers
<1>3. OwnReply
  BY DEF LinkInv, Alone, Answers, OwnReply
<1>4. StreamsParse
  BY <1>1, <1>2 DEF StreamsParse
<1> QED
  BY <1>3, <1>4 DEF LinkInv, OneCopy

(* The link's invariant, for any use of send_command.                      *)
THEOREM LinkInvariance == Spec => []LinkInv
BY LinkInvInit, LinkInvKept, PTL DEF Spec

-----------------------------------------------------------------------------
(* The path implements the link. *)

LEMMA PathStep == PathTypeOK /\ [PathNext]_allVars => [Next]_vars
<1> SUFFICES ASSUME PathTypeOK, [PathNext]_allVars PROVE [Next]_vars
  OBVIOUS
<1>1. ASSUME NEW t \in Workers, Dispatch(t) PROVE [Next]_vars
  <2>1. Head(inbox) \in Cmds /\ t \in Threads
    BY <1>1 DEF Dispatch, PathTypeOK, Workers
  <2> QED
    BY <1>1, <2>1 DEF Dispatch, Next
<1>2. ASSUME NEW c \in Cmds, WindowSends(c) PROVE [Next]_vars
  BY <1>2, PathAssumption DEF WindowSends, Next
<1>3. ASSUME WindowStops PROVE [Next]_vars
  BY <1>3, PathAssumption DEF WindowStops, Next
<1>4. ASSUME NEW t \in Threads, PathThreadStep(t) PROVE [Next]_vars
  BY <1>4 DEF PathThreadStep, Next
<1>5. ASSUME Refuse PROVE [Next]_vars
  <2>1. Head(inbox) \in Cmds
    BY <1>5 DEF Refuse, PathTypeOK
  <2> QED
    BY <1>5, <2>1 DEF Refuse, Next
<1> QED
  BY <1>1, <1>2, <1>3, <1>4, <1>5 DEF PathNext, Next, CallTool, GiveUp, Answer, LoseConnection, allVars

LEMMA PathType == PathTypeOK /\ [PathNext]_allVars => PathTypeOK'
<1> SUFFICES ASSUME PathTypeOK, [PathNext]_allVars PROVE PathTypeOK'
  OBVIOUS
<1>0. TypeOK'
  BY PathStep, LinkType DEF PathTypeOK
<1> DEFINE Kinds == {"unused", "window", "open", "ok", "error", "timeout"}
           Rest6 == /\ call' \in [Cmds -> Kinds] /\ inbox' \in Seq(Cmds) /\ doing' \in Cmds \cup {None}
                    /\ line' \in Seq(Cmds) /\ losses' \in 0 .. MaxLosses /\ stopped' \in BOOLEAN
<1> SUFFICES Rest6
  BY <1>0 DEF PathTypeOK
<1> USE DEF PathTypeOK
<1>1. ASSUME NEW c \in Cmds, CallTool(c) PROVE Rest6
  BY <1>1 DEF CallTool
<1>2. ASSUME NEW c \in Cmds, GiveUp(c) PROVE Rest6
  BY <1>2 DEF GiveUp
<1>3. ASSUME NEW c \in Cmds, WindowSends(c) PROVE Rest6
  BY <1>3 DEF WindowSends
<1>4. ASSUME NEW t \in Workers, Dispatch(t) PROVE Rest6
  BY <1>4 DEF Dispatch
<1>5. ASSUME Answer PROVE Rest6
  <2>1. Results(doing) \subseteq Kinds
    BY DEF Results
  <2>2. call' \in [Cmds -> Kinds]
    BY <1>5, <2>1 DEF Answer
  <2> QED
    BY <1>5, <2>2 DEF Answer
<1>6. ASSUME LoseConnection PROVE Rest6
  BY <1>6, PathAssumption DEF LoseConnection, Dropped
<1>7. ASSUME WindowStops PROVE Rest6
  BY <1>7 DEF WindowStops, Dropped
<1>8. CASE UNCHANGED pathVars
  BY <1>8 DEF pathVars
<1>9. ASSUME Refuse PROVE Rest6
  BY <1>9 DEF Refuse
<1> QED
  BY <1>1, <1>2, <1>3, <1>4, <1>5, <1>6, <1>7, <1>8, <1>9 DEF PathNext, PathThreadStep, allVars

LEMMA PathTypeInit == PathInit => PathTypeOK
<1> SUFFICES ASSUME PathInit PROVE PathTypeOK
  OBVIOUS
<1>1. TypeOK
  BY LinkTypeInit DEF PathInit
<1>2. <<>> \in Seq(Cmds)
  OBVIOUS
<1>3. call \in [Cmds -> {"unused", "window", "open", "ok", "error", "timeout"}]
  BY DEF PathInit
<1>4. inbox = <<>> /\ line = <<>> /\ doing = None /\ losses \in 0 .. MaxLosses /\ stopped = FALSE
  BY PathAssumption DEF PathInit
<1> QED
  BY <1>1, <1>2, <1>3, <1>4 DEF PathTypeOK

(* Every behaviour of the path is one of the link, for which the link's    *)
(* promises hold.                                                          *)
THEOREM Implements == PathSpec => Spec
<1>1. PathInit => Init
  BY DEF PathInit
<1> QED
  BY <1>1, PathTypeInit, PathType, PathStep, PTL DEF PathSpec, Spec

(* PathTypeOK: the variables of client and server have their types.        *)
THEOREM PathTypeCorrect == PathSpec => []PathTypeOK
BY PathTypeInit, PathType, PTL DEF PathSpec

(* OwnReply: with one send_command at a time, no command takes the reply   *)
(* of another, whatever has timed out.                                     *)
THEOREM RepliesAreOwn == PathSpec => []OwnReply
BY Implements, LinkInvariance, LinkPromises, PTL

(* StreamsParse: with one send_command at a time, no reader of either side *)
(* is left with bytes that never parse.                                    *)
THEOREM StreamsAlwaysParse == PathSpec => []StreamsParse
BY Implements, LinkInvariance, LinkPromises, PTL

(* AtMostOnce: a command runs in Blender at most once, in every case.      *)
THEOREM RunAtMostOnce == PathSpec => []AtMostOnce
BY Implements, LinkInvariance, LinkPromises, PTL

-----------------------------------------------------------------------------
(* The calls of a connection. *)

(* What a step of a thread or of the addon does to the invocations.        *)
Moves ==
  /\ \A c \in Cmds : reply'[c] = NotRun <=> reply[c] = NotRun
  /\ \A c \in Cmds : reply'[c] = Pending => reply[c] = Pending
  /\ \A c \in Cmds : Taken(c) => reply'[c] = reply[c]
  /\ \A t \in Threads : pc'[t] # "idle" => pc[t] # "idle" /\ cmd'[t] = cmd[t]
  /\ overlapped' = overlapped

LEMMA EndMoves ==
  ASSUME TypeOK, OwnCommands, NEW t \in Threads, pc[t] # "idle",
         NEW r \in Cmds \cup {Failed}, EndWith(t, r), UNCHANGED overlapped
  PROVE  Moves
<1>1. cmd[t] \in Cmds /\ reply[cmd[t]] = Pending
  BY DEF TypeOK, OwnCommands
<1>2. r # NotRun /\ r # Pending /\ Pending \notin Cmds
  BY NamesAssumption
<1> QED
  BY <1>1, <1>2 DEF Moves, EndWith, Taken, TypeOK

LEMMA LinkMoves ==
  ASSUME LinkInv,
         (\E t \in Threads : ThreadStep(t) \/ Disconnect(t)) \/ AddonStep \/ UNCHANGED vars
  PROVE  Moves
<1> TypeOK /\ OwnCommands
  BY DEF LinkInv, OneCopy
<1>1. ASSUME NEW t \in Threads, MakeSocket(t) \/ Connected(t) \/ Send(t) PROVE Moves
  BY <1>1 DEF MakeSocket, Connected, Send, GoTo, Moves, TypeOK
<1>2. ASSUME NEW t \in Threads, NotConnected(t) \/ SendFails(t) \/ ReceiveFails(t) PROVE Moves
  BY <1>2, EndMoves DEF NotConnected, SendFails, ReceiveFails
<1>3. ASSUME NEW t \in Threads, Bind(t) PROVE Moves
  <2>1. CASE sock = None
    BY <1>3, <2>1, EndMoves DEF Bind
  <2>2. CASE sock # None
    BY <1>3, <2>2 DEF Bind, Moves, TypeOK
  <2> QED
    BY <2>1, <2>2
<1>4. ASSUME NEW t \in Threads, Receive(t) PROVE Moves
  <2>1. pc[t] = "receive" /\ chunks[t] \in Seq(Cmds) /\ toClient[mine[t]] \in Seq(Cmds) /\ UNCHANGED overlapped
    BY <1>4 DEF Receive, TypeOK
  <2>2. \/ UNCHANGED <<pc, cmd, mine, reply>>
        \/ Head(toClient[mine[t]]) \in Cmds /\ EndWith(t, Head(toClient[mine[t]]))
    BY <1>4, <2>1, ClientReads, Zenon
  <2> QED
    BY <2>1, <2>2, EndMoves DEF Moves
<1>5. ASSUME NEW t \in Threads, Disconnect(t) PROVE Moves
  BY <1>5 DEF Disconnect, Moves
<1>6. ASSUME AddonStep PROVE Moves
  BY <1>6 DEF AddonStep, AddonReceive, AddonCloses, Execute, Moves
<1>7. CASE UNCHANGED vars
  BY <1>7 DEF vars, Moves
<1> QED
  BY <1>1, <1>2, <1>3, <1>4, <1>5, <1>6, <1>7 DEF ThreadStep

(* A step that leaves the calls where they are.                            *)
LEMMA MovesInLine ==
  ASSUME PathTypeOK, InLine, Moves, UNCHANGED <<inbox, line, doing, stopped>>,
         \A c \in Cmds : call'[c] = "unused" <=> call[c] = "unused"
  PROVE  InLine'
<1>1. \A i \in 1 .. Len(line) : line[i] \in Cmds
  BY DEF PathTypeOK
<1>2. \A i \in 1 .. Len(inbox) : inbox[i] \in Cmds
  BY DEF PathTypeOK
<1>3. Len(inbox) \in Nat /\ Len(line) \in Nat /\ Begun \in Int /\ Begun' = Begun /\ Begun <= Len(line)
  BY DEF Begun, PathTypeOK
<1>4. doing \in Cmds \cup {None}
  BY DEF PathTypeOK
<1>5. \A i \in 1 .. Begun : i \in 1 .. Len(line)
  BY <1>3
<1>6. \A i \in 1 .. Begun :
        reply'[line[i]] # NotRun /\ (line[i] # doing => reply'[line[i]] # Pending)
  BY <1>1, <1>5 DEF InLine, Moves
<1>7. \A i \in 1 .. Len(inbox) : inbox[i] = line[Begun + i] /\ reply'[inbox[i]] = NotRun
  BY <1>2 DEF InLine, Moves
<1>8. doing # None => Begun > 0 /\ line[Begun] = doing /\ reply'[doing] # NotRun
  BY <1>4 DEF InLine, Moves
<1>9. /\ \A i \in 1 .. Len(line) : call'[line[i]] # "unused"
      /\ \A c \in Cmds : call'[c] = "unused" => reply'[c] = NotRun
  BY <1>1 DEF InLine, Moves
<1>10. Len(inbox) <= Len(line) /\ (stopped => line = <<>>)
       /\ \A i, j \in 1 .. Len(line) : line[i] = line[j] => i = j
  BY DEF InLine
<1>11. inbox' = inbox /\ line' = line /\ doing' = doing /\ stopped' = stopped
  OBVIOUS
<1>12. Begun' = Begun
  BY <1>3
<1>13. \A i \in 1 .. Len(inbox') : inbox'[i] = line'[Begun' + i] /\ reply'[inbox'[i]] = NotRun
  BY ONLY <1>7, <1>11, <1>12
<1>14. doing' # None => Begun' > 0 /\ line'[Begun'] = doing' /\ reply'[doing'] # NotRun
  BY ONLY <1>8, <1>11, <1>12
<1>15. \A i \in 1 .. Begun' :
         reply'[line'[i]] # NotRun /\ (line'[i] # doing' => reply'[line'[i]] # Pending)
  BY ONLY <1>6, <1>11, <1>12
<1>16. /\ Len(inbox') <= Len(line') /\ (stopped' => line' = <<>>)
       /\ \A i, j \in 1 .. Len(line') : line'[i] = line'[j] => i = j
       /\ \A i \in 1 .. Len(line') : call'[line'[i]] # "unused"
  BY ONLY <1>9, <1>10, <1>11
<1> QED
  BY ONLY <1>9, <1>13, <1>14, <1>15, <1>16 DEF InLine

LEMMA CallToolInLine ==
  ASSUME PathTypeOK, InLine, NEW c \in Cmds, CallTool(c)
  PROVE  InLine'
<1>1. /\ call[c] = "unused" /\ ~stopped /\ call' = [call EXCEPT ![c] = "open"]
      /\ inbox' = Append(inbox, c) /\ line' = Append(line, c)
      /\ UNCHANGED <<reply, doing, stopped>>
  BY DEF CallTool, vars
<1>2. /\ Len(inbox) \in Nat /\ Len(line) \in Nat /\ Len(inbox) <= Len(line) /\ Begun \in 0 .. Len(line)
      /\ Begun = Len(line) - Len(inbox)
  BY DEF InLine, Begun, PathTypeOK
<1>3. /\ Len(line') = Len(line) + 1 /\ line'[Len(line) + 1] = c
      /\ \A i \in 1 .. Len(line) : line'[i] = line[i] /\ line[i] \in Cmds
  BY <1>1, AppendProperties DEF PathTypeOK
<1>4. /\ Len(inbox') = Len(inbox) + 1 /\ inbox'[Len(inbox) + 1] = c
      /\ \A i \in 1 .. Len(inbox) : inbox'[i] = inbox[i] /\ inbox[i] \in Cmds
  BY <1>1, AppendProperties DEF PathTypeOK
<1>5. Begun' = Begun
  BY <1>2, <1>3, <1>4 DEF Begun
<1>6. \A i \in 1 .. Len(line) : line[i] # c
  BY <1>1 DEF InLine
<1>7. reply[c] = NotRun
  BY <1>1 DEF InLine
<1>8. \A i \in 1 .. Len(inbox') : inbox'[i] = line'[Begun + i] /\ reply[inbox'[i]] = NotRun
  <2> SUFFICES ASSUME NEW i \in 1 .. Len(inbox')
               PROVE  inbox'[i] = line'[Begun + i] /\ reply[inbox'[i]] = NotRun
    OBVIOUS
  <2>1. CASE i = Len(inbox) + 1
    BY <1>2, <1>3, <1>4, <1>7, <2>1
  <2>2. CASE i \in 1 .. Len(inbox)
    <3>1. Begun + i \in 1 .. Len(line)
      BY <1>2, <2>2
    <3> QED
      BY <1>3, <1>4, <2>2, <3>1 DEF InLine
  <2> QED
    BY <1>2, <1>4, <2>1, <2>2
<1>9. \A i, j \in 1 .. Len(line') : line'[i] = line'[j] => i = j
  BY <1>2, <1>3, <1>6 DEF InLine
<1>10. \A i \in 1 .. Len(line') : call'[line'[i]] # "unused"
  BY <1>1, <1>2, <1>3 DEF InLine, PathTypeOK
<1>11. doing' # None => Begun > 0 /\ line'[Begun] = doing /\ reply[doing] # NotRun
  BY <1>1, <1>2, <1>3 DEF InLine
<1>12. \A i \in 1 .. Begun :
         reply[line'[i]] # NotRun /\ (line'[i] # doing => reply[line'[i]] # Pending)
  <2>1. \A i \in 1 .. Begun : i \in 1 .. Len(line) /\ line'[i] = line[i]
    BY <1>2, <1>3
  <2> QED
    BY <2>1 DEF InLine
<1>13. \A d \in Cmds : call'[d] = "unused" => reply[d] = NotRun
  BY <1>1 DEF InLine, PathTypeOK
<1>14. Len(inbox') <= Len(line')
  BY <1>2, <1>3, <1>4
<1> QED
  BY <1>1, <1>5, <1>8, <1>9, <1>10, <1>11, <1>12, <1>13, <1>14 DEF InLine

(* The receiver takes the next call, and begins or refuses it.             *)
LEMMA TakenInLine ==
  ASSUME PathTypeOK, InLine, NEW r \in {Pending, Failed},
         doing = None, inbox # <<>>, doing' = Head(inbox), inbox' = Tail(inbox),
         reply[Head(inbox)] = NotRun, reply' = [reply EXCEPT ![Head(inbox)] = r],
         UNCHANGED <<line, call, stopped>>
  PROVE  InLine'
<1>1. PICK c \in Cmds : c = Head(inbox)
  BY DEF PathTypeOK
<1>2. /\ doing = None /\ inbox # <<>> /\ doing' = c /\ inbox' = Tail(inbox)
      /\ reply[c] = NotRun /\ reply' = [reply EXCEPT ![c] = r]
      /\ UNCHANGED <<line, call, stopped>>
  BY <1>1
<1>3. /\ Len(inbox) \in Nat /\ Len(line) \in Nat /\ Len(inbox) <= Len(line) /\ Begun \in 0 .. Len(line)
      /\ Begun = Len(line) - Len(inbox)
  BY DEF InLine, Begun, PathTypeOK
<1>4. /\ Len(inbox') = Len(inbox) - 1 /\ Len(inbox) > 0 /\ c = inbox[1]
      /\ \A i \in 1 .. Len(inbox') : inbox'[i] = inbox[i + 1]
  BY <1>1, <1>2, HeadTailProperties DEF PathTypeOK
<1>5. Begun' = Begun + 1
  BY <1>2, <1>3, <1>4 DEF Begun
<1>6. \A i \in 1 .. Len(line) : line[i] \in Cmds
  BY DEF PathTypeOK
<1>7. Begun + 1 \in 1 .. Len(line) /\ line[Begun + 1] = c
  BY <1>3, <1>4 DEF InLine
<1>8. \A i \in 1 .. Len(line) : i # Begun + 1 => line[i] # c /\ reply'[line[i]] = reply[line[i]]
  BY <1>2, <1>6, <1>7, SMTT(40) DEF InLine, PathTypeOK, TypeOK
<1>9. reply'[c] # NotRun /\ c # None
  BY <1>2, NamesAssumption DEF PathTypeOK, TypeOK
<1>10. \A i \in 1 .. Len(inbox') : inbox'[i] = line[Begun + 1 + i] /\ reply'[inbox'[i]] = NotRun
  <2> SUFFICES ASSUME NEW i \in 1 .. Len(inbox')
               PROVE  inbox'[i] = line[Begun + 1 + i] /\ reply'[inbox'[i]] = NotRun
    OBVIOUS
  <2>1. i + 1 \in 1 .. Len(inbox) /\ Begun + (i + 1) = Begun + 1 + i
        /\ Begun + 1 + i \in 1 .. Len(line) /\ Begun + 1 + i # Begun + 1
    BY <1>3, <1>4
  <2>2. inbox[i + 1] = line[Begun + (i + 1)] /\ reply[inbox[i + 1]] = NotRun
    BY <2>1 DEF InLine
  <2> QED
    BY <1>4, <1>8, <2>1, <2>2
<1>11. \A i \in 1 .. Begun + 1 :
         reply'[line[i]] # NotRun /\ (line[i] # c => reply'[line[i]] # Pending)
  <2> SUFFICES ASSUME NEW i \in 1 .. Begun + 1
               PROVE  reply'[line[i]] # NotRun /\ (line[i] # c => reply'[line[i]] # Pending)
    OBVIOUS
  <2>1. CASE i = Begun + 1
    BY <1>7, <1>9, <2>1
  <2>2. CASE i \in 1 .. Begun
    <3>1. i \in 1 .. Len(line) /\ i # Begun + 1
      BY <1>3, <2>2
    <3>2. line[i] # None
      BY <1>6, <3>1, NamesAssumption
    <3> QED
      BY <1>2, <1>8, <2>2, <3>1, <3>2 DEF InLine
  <2> QED
    BY <1>3, <2>1, <2>2
<1>12. \A d \in Cmds : call[d] = "unused" => d # c /\ reply'[d] = NotRun
  BY <1>2, <1>7 DEF InLine, PathTypeOK, TypeOK
<1>13. ~stopped
  BY <1>3, <1>4, EmptySeq DEF InLine
<1> QED
  BY <1>2, <1>3, <1>4, <1>5, <1>7, <1>9, <1>10, <1>11, <1>12, <1>13 DEF InLine

LEMMA DispatchInLine ==
  ASSUME PathTypeOK, InLine, (\E t \in Workers : Dispatch(t)) \/ Refuse
  PROVE  InLine'
<1>1. CASE \E t \in Workers : Dispatch(t)
  BY <1>1, TakenInLine DEF Dispatch, ReceiverReady, Begin
<1>2. CASE Refuse
  BY <1>2, TakenInLine DEF Refuse, ReceiverReady, Refused
<1> QED
  BY <1>1, <1>2

LEMMA WindowInLine ==
  ASSUME PathTypeOK, InLine, NEW c \in Cmds, WindowSends(c)
  PROVE  InLine'
<1>1. /\ call[c] = "unused" /\ call' = [call EXCEPT ![c] = "window"]
      /\ reply' = [reply EXCEPT ![c] = Pending]
      /\ UNCHANGED <<inbox, line, doing, stopped>>
  BY DEF WindowSends, Begin
<1>2. /\ Len(inbox) \in Nat /\ Len(line) \in Nat /\ Begun' = Begun /\ Begun \in 0 .. Len(line)
      /\ Begun = Len(line) - Len(inbox)
  BY <1>1 DEF InLine, Begun, PathTypeOK
<1>3. \A i \in 1 .. Len(line) : line[i] \in Cmds /\ line[i] # c /\ reply'[line[i]] = reply[line[i]]
  BY <1>1 DEF InLine, PathTypeOK, TypeOK
<1>4. \A i \in 1 .. Len(inbox) : Begun + i \in 1 .. Len(line) /\ reply'[inbox[i]] = reply[inbox[i]]
  <2>1. \A i \in 1 .. Len(inbox) : Begun + i \in 1 .. Len(line)
    BY <1>2
  <2> QED
    BY <1>3, <2>1 DEF InLine
<1>5. doing # None => reply'[doing] = reply[doing]
  BY <1>2, <1>3 DEF InLine
<1>6. /\ \A d \in Cmds : call'[d] = "unused" => d # c /\ reply'[d] = NotRun
      /\ \A i \in 1 .. Len(line) : call'[line[i]] # "unused"
  BY <1>1, <1>3 DEF InLine, PathTypeOK, TypeOK
<1>7. \A i \in 1 .. Begun : i \in 1 .. Len(line)
  BY <1>2
<1> QED
  BY <1>1, <1>2, <1>3, <1>4, <1>5, <1>6, <1>7 DEF InLine

LEMMA DropInLine ==
  ASSUME InLine, Dropped, UNCHANGED call, \A c \in Cmds : reply'[c] = NotRun <=> reply[c] = NotRun
  PROVE  InLine'
BY DEF InLine, Dropped, Begun

(* The calls of a connection are answered, with the receiver, or in its    *)
(* inbox, in the order in which they were made.                            *)
LEMMA InLineKept == PathTypeOK /\ LinkInv /\ InLine /\ [PathNext]_allVars => InLine'
<1> SUFFICES ASSUME PathTypeOK, LinkInv, InLine, [PathNext]_allVars PROVE InLine'
  OBVIOUS
<1>1. ASSUME NEW c \in Cmds, GiveUp(c) PROVE InLine'
  <2>1. Moves /\ UNCHANGED <<inbox, line, doing, stopped>>
    BY <1>1, LinkMoves DEF GiveUp
  <2>2. \A d \in Cmds : call'[d] = "unused" <=> call[d] = "unused"
    BY <1>1 DEF GiveUp, PathTypeOK
  <2> QED
    BY <2>1, <2>2, MovesInLine
<1>2. ASSUME Answer PROVE InLine'
  <2>1. PICK c \in Cmds : c = doing /\ reply[c] # Pending
    BY <1>2 DEF Answer, PathTypeOK
  <2>2. UNCHANGED <<reply, inbox, line, stopped>> /\ doing' = None
    BY <1>2 DEF Answer, vars
  <2>3. Results(c) \subseteq {"ok", "error"}
    BY DEF Results
  <2>4. \A d \in Cmds : call'[d] = "unused" <=> call[d] = "unused"
    BY <1>2, <2>1, <2>3 DEF Answer, PathTypeOK
  <2>5. Begun' = Begun
    BY <2>2 DEF Begun
  <2>6. \A i \in 1 .. Len(line) : line[i] \in Cmds
    BY DEF PathTypeOK
  <2> QED
    BY <2>1, <2>2, <2>4, <2>5, <2>6 DEF InLine
<1>3. ASSUME LoseConnection PROVE InLine'
  BY <1>3, DropInLine DEF LoseConnection, vars
<1>4. ASSUME WindowStops PROVE InLine'
  BY <1>4, DropInLine DEF WindowStops, Disconnect, vars
<1>5. ASSUME (\E t \in Threads : ThreadStep(t)) \/ AddonStep \/ UNCHANGED vars, UNCHANGED pathVars
      PROVE  InLine'
  BY <1>5, LinkMoves, MovesInLine DEF pathVars
<1> QED
  BY <1>1, <1>2, <1>3, <1>4, <1>5, CallToolInLine, DispatchInLine, WindowInLine
     DEF PathNext, PathThreadStep, allVars

(* As long as nobody else has used the socket, the active thread is the    *)
(* one that runs the call the receiver awaits.                             *)
LEMMA ReceiversKept ==
  PathTypeOK /\ LinkInv /\ InLine /\ OnlyTheReceivers /\ [PathNext]_allVars => OnlyTheReceivers'
<1> SUFFICES ASSUME PathTypeOK, LinkInv, InLine, OnlyTheReceivers, [PathNext]_allVars, ReceiverAlone'
             PROVE  /\ ~overlapped'
                    /\ ~stopped' => \A t \in Threads : pc'[t] # "idle" => cmd'[t] = doing'
  BY DEF OnlyTheReceivers
<1> DEFINE Goal == /\ ~overlapped'
                   /\ ~stopped' => \A t \in Threads : pc'[t] # "idle" => cmd'[t] = doing'
<1> SUFFICES Goal
  OBVIOUS
<1>0. ASSUME ReceiverAlone
      PROVE  ~overlapped /\ (~stopped => \A t \in Threads : pc[t] # "idle" => cmd[t] = doing)
  BY <1>0 DEF OnlyTheReceivers
<1>1. ASSUME Moves, UNCHANGED <<doing, stopped>>, ReceiverAlone PROVE Goal
  BY <1>0, <1>1 DEF Moves
<1>2. ASSUME NEW c \in Cmds, CallTool(c) PROVE Goal
  <2>1. ReceiverAlone
    BY <1>2 DEF CallTool, ReceiverAlone, PathTypeOK
  <2> QED
    BY <1>0, <1>2, <2>1 DEF CallTool, vars
<1>3. ASSUME NEW c \in Cmds, GiveUp(c) PROVE Goal
  <2>1. ReceiverAlone
    BY <1>3 DEF GiveUp, ReceiverAlone, PathTypeOK
  <2> QED
    BY <1>0, <1>3, <2>1 DEF GiveUp, vars
<1>4. ASSUME NEW c \in Cmds, WindowSends(c) PROVE Goal
  BY <1>4 DEF WindowSends, ReceiverAlone, PathTypeOK
<1>5. ASSUME NEW t \in Workers, Dispatch(t) PROVE Goal
  <2>1. PICK c \in Cmds : c = Head(inbox)
    BY <1>5 DEF Dispatch, PathTypeOK
  <2>2. /\ doing = None /\ inbox # <<>> /\ doing' = c /\ Begin(t, c) /\ t \in Threads
        /\ UNCHANGED <<call, losses>>
    BY <1>5, <2>1 DEF Dispatch, ReceiverReady, Workers
  <2>3. ReceiverAlone
    BY <2>2 DEF ReceiverAlone
  <2>4. ~stopped
    <3>1. Len(inbox) \in Nat \ {0}
      BY <2>2, EmptySeq DEF PathTypeOK
    <3>2. line = <<>> => Len(line) = 0
      OBVIOUS
    <3> QED
      BY <3>1, <3>2 DEF InLine
  <2>5. \A u \in Threads : pc[u] = "idle"
    BY <1>0, <2>2, <2>3, <2>4, NamesAssumption DEF PathTypeOK, TypeOK
  <2> QED
    BY <1>0, <2>2, <2>3, <2>5 DEF Begin, PathTypeOK, TypeOK
<1>6. ASSUME Answer PROVE Goal
  <2>1. PICK c \in Cmds : c = doing /\ reply[c] # Pending
    BY <1>6 DEF Answer, PathTypeOK
  <2>2. Results(c) \subseteq {"ok", "error"}
    BY DEF Results
  <2>3. ReceiverAlone
    <3>1. \A d \in Cmds : call[d] = "window" => call'[d] = "window"
      BY <1>6, <2>1, <2>2 DEF Answer, PathTypeOK
    <3> QED
      BY <1>6, <3>1 DEF Answer, ReceiverAlone
  <2>4. ~stopped => \A u \in Threads : pc[u] = "idle"
    BY <1>0, <2>1, <2>3 DEF LinkInv, OneCopy, OwnCommands
  <2> QED
    BY <1>0, <1>6, <2>3, <2>4 DEF Answer, vars
<1>7. ASSUME LoseConnection PROVE Goal
  BY <1>7 DEF LoseConnection, ReceiverAlone, PathTypeOK
<1>8. ASSUME WindowStops PROVE Goal
  BY <1>0, <1>8 DEF WindowStops, ReceiverAlone, Disconnect, vars
<1>9. ASSUME (\E t \in Threads : ThreadStep(t)) \/ AddonStep \/ UNCHANGED vars, UNCHANGED pathVars
      PROVE  Goal
  BY <1>1, <1>9, LinkMoves DEF pathVars, ReceiverAlone
<1>10. ASSUME Refuse PROVE Goal
  <2>1. /\ doing = None /\ UNCHANGED <<call, losses, pc, cmd, overlapped, stopped>>
    BY <1>10 DEF Refuse, ReceiverReady, Refused
  <2>2. ReceiverAlone
    BY <2>1 DEF ReceiverAlone
  <2>3. ~stopped => \A u \in Threads : pc[u] = "idle"
    BY <1>0, <2>1, <2>2, NamesAssumption DEF PathTypeOK, TypeOK
  <2> QED
    BY <1>0, <2>1, <2>2, <2>3
<1> QED
  BY <1>2, <1>3, <1>4, <1>5, <1>6, <1>7, <1>8, <1>9, <1>10
     DEF PathNext, PathThreadStep, allVars

(* An "ok" is a reply that was taken, and stays one.                       *)
LEMMA OkKept == PathTypeOK /\ LinkInv /\ OkIsTaken /\ [PathNext]_allVars => OkIsTaken'
<1> SUFFICES ASSUME PathTypeOK, LinkInv, OkIsTaken, [PathNext]_allVars PROVE OkIsTaken'
  OBVIOUS
<1>1. ASSUME \A c \in Cmds : Taken(c) => reply'[c] = reply[c],
             \A c \in Cmds : call'[c] = "ok" => call[c] = "ok" \/ Taken(c)
      PROVE  OkIsTaken'
  BY <1>1 DEF OkIsTaken, Taken
<1>2. ASSUME NEW t \in Threads, NEW c \in Cmds, Begin(t, c)
      PROVE  \A d \in Cmds : Taken(d) => reply'[d] = reply[d]
  BY <1>2, NamesAssumption DEF Begin, Taken, PathTypeOK, TypeOK
<1>3. ASSUME NEW c \in Cmds, CallTool(c) \/ GiveUp(c) PROVE OkIsTaken'
  <2>1. UNCHANGED reply /\ \A d \in Cmds : call'[d] = "ok" => call[d] = "ok"
    BY <1>3 DEF CallTool, GiveUp, vars, PathTypeOK
  <2> QED
    BY <1>1, <2>1
<1>4. ASSUME NEW c \in Cmds, WindowSends(c) PROVE OkIsTaken'
  <2>1. Begin(Main, c) /\ \A d \in Cmds : call'[d] = "ok" => call[d] = "ok"
    BY <1>4 DEF WindowSends, PathTypeOK
  <2> QED
    BY <1>1, <1>2, <2>1, PathAssumption
<1>5. ASSUME NEW t \in Workers, Dispatch(t) PROVE OkIsTaken'
  <2>1. Head(inbox) \in Cmds /\ t \in Threads /\ Begin(t, Head(inbox)) /\ call' = call
    BY <1>5 DEF Dispatch, PathTypeOK, Workers
  <2> QED
    BY <1>1, <1>2, <2>1
<1>6. ASSUME Answer PROVE OkIsTaken'
  <2>1. PICK c \in Cmds : c = doing
    BY <1>6 DEF Answer, PathTypeOK
  <2>2. \A d \in Cmds : call'[d] = "ok" => call[d] = "ok" \/ (d = c /\ "ok" \in Results(c))
    BY <1>6, <2>1 DEF Answer, PathTypeOK
  <2>3. "ok" \in Results(c) => Taken(c)
    BY DEF Results
  <2>4. UNCHANGED reply
    BY <1>6 DEF Answer, vars
  <2> QED
    BY <1>1, <2>2, <2>3, <2>4
<1>7. ASSUME LoseConnection \/ WindowStops PROVE OkIsTaken'
  <2>1. UNCHANGED <<call, reply>>
    BY <1>7 DEF LoseConnection, WindowStops, Disconnect, vars
  <2> QED
    BY <1>1, <2>1
<1>8. ASSUME (\E t \in Threads : ThreadStep(t)) \/ AddonStep \/ UNCHANGED vars, UNCHANGED pathVars
      PROVE  OkIsTaken'
  <2>1. Moves
    BY <1>8, LinkMoves
  <2> QED
    BY <1>1, <1>8, <2>1 DEF Moves, pathVars
<1>9. ASSUME Refuse PROVE OkIsTaken'
  <2>1. /\ call' = call /\ \A d \in Cmds : Taken(d) => reply'[d] = reply[d]
    BY <1>9, NamesAssumption DEF Refuse, Refused, Taken, PathTypeOK, TypeOK
  <2> QED
    BY <1>1, <2>1
<1> QED
  BY <1>3, <1>4, <1>5, <1>6, <1>7, <1>8, <1>9 DEF PathNext, PathThreadStep, allVars

(* The path's invariant, from which its promises follow.                   *)
THEOREM PathInvariance == PathSpec => []PathInv
<1>1. PathInit => PathInv
  <2> SUFFICES ASSUME PathInit PROVE PathInv
    OBVIOUS
  <2>1. LinkInv /\ PathTypeOK
    BY LinkInvInit, PathTypeInit DEF PathInit
  <2>2. /\ \A c \in Cmds : reply[c] = NotRun /\ call[c] = "unused"
        /\ \A t \in Threads : pc[t] = "idle"
        /\ ~overlapped /\ line = <<>> /\ inbox = <<>> /\ doing = None
    BY DEF PathInit, Init
  <2> QED
    BY <2>1, <2>2 DEF PathInv, InLine, Begun, OnlyTheReceivers, OkIsTaken
<1>2. PathInv /\ [PathNext]_allVars => PathInv'
  BY PathType, PathStep, LinkInvKept, InLineKept, ReceiversKept, OkKept DEF PathInv
<1> QED
  BY <1>1, <1>2, PTL DEF PathSpec

(* ReceiverTakesTurns: calls that time out at the server and are made      *)
(* again never make two commands overlap by themselves.                    *)
THEOREM TurnsAreTaken == PathSpec => []ReceiverTakesTurns
<1>1. PathInv => ReceiverTakesTurns
  BY DEF PathInv, OnlyTheReceivers, ReceiverTakesTurns
<1> QED
  BY <1>1, PathInvariance, PTL

(* NoOvertaking: a call that is repeated while the first one is still      *)
(* running does not run before it, unless the first one has failed.        *)
THEOREM OrderIsKept == PathSpec => []NoOvertaking
<1>1. PathInv => NoOvertaking
  <2> SUFFICES ASSUME PathInv, ReceiverAlone, NEW i \in 1 .. Len(line), NEW j \in 1 .. Len(line),
                      i < j, executed[line[j]] > 0, executed[line[i]] = 0
               PROVE  reply[line[i]] = Failed
    BY DEF NoOvertaking
  <2> PathTypeOK /\ LinkInv /\ InLine /\ OnlyTheReceivers
    BY DEF PathInv
  <2>1. PICK c \in Cmds, d \in Cmds : c = line[i] /\ d = line[j]
    BY DEF PathTypeOK
  <2>2. reply[d] # NotRun
    BY <2>1 DEF LinkInv, OneCopy, NotSent, Fresh
  <2>3. /\ Len(inbox) \in Nat /\ Len(line) \in Nat /\ Begun \in 0 .. Len(line)
        /\ Begun = Len(line) - Len(inbox)
    BY DEF InLine, Begun, PathTypeOK
  <2>4. j <= Begun
    <3> SUFFICES ASSUME j > Begun PROVE FALSE
      BY <2>3
    <3>1. j - Begun \in 1 .. Len(inbox) /\ Begun + (j - Begun) = j
      BY <2>3
    <3>2. inbox[j - Begun] = line[j] /\ reply[inbox[j - Begun]] = NotRun
      BY <3>1 DEF InLine
    <3> QED
      BY <2>1, <2>2, <3>2
  <2>5. i \in 1 .. Begun /\ i # Begun /\ Begun \in 1 .. Len(line)
    BY <2>3, <2>4
  <2>6. c # doing
    BY <2>1, <2>5, NamesAssumption DEF InLine
  <2>7. reply[c] # NotRun /\ reply[c] # Pending
    BY <2>1, <2>5, <2>6 DEF InLine
  <2>8. ~Taken(c)
    <3>1. Taken(c) => reply[c] = c /\ reply[c] \in Ran
      BY DEF OnlyTheReceivers, LinkInv, Alone, Answers, RepliesRan
    <3> QED
      BY <2>1, <3>1 DEF Ran
  <2> QED
    BY <2>1, <2>7, <2>8 DEF Taken, PathTypeOK, TypeOK
<1> QED
  BY <1>1, PathInvariance, PTL

LEMMA OkRan == PathInv => OkMeansItRan
<1> SUFFICES ASSUME PathInv, ~overlapped, NEW c \in Cmds, call[c] = "ok" PROVE executed[c] = 1
  BY DEF OkMeansItRan
<1>1. Taken(c)
  BY DEF PathInv, OkIsTaken
<1>2. c \in Ran
  BY <1>1 DEF PathInv, LinkInv, Alone, Answers, RepliesRan
<1>3. executed[c] > 0 /\ executed[c] <= 1 /\ executed[c] \in Nat
  BY <1>2 DEF Ran, PathInv, LinkInv, OneCopy, AtMostOnce, TypeOK
<1> QED
  BY <1>3

(* OkMeansItRan: an "ok" tells the agent that this very call has run, and  *)
(* once, unless two commands have overlapped.                              *)
THEOREM OkIsTrue == PathSpec => []OkMeansItRan
BY OkRan, PathInvariance, PTL
-----------------------------------------------------------------------------
(* What the agent is promised *)

(* A tool call as the agent knows it, and what became of its body; what    *)
(* the window sends is no tool call.  CommandPath does not say whether a   *)
(* body that has run has raised: ToolCall's "ok" is the run whose reply    *)
(* may be a success.                                                       *)
Outcome(c) ==
  CASE call[c] \in {"unused", "window"} -> "unused"
    [] call[c] = "open"                 -> "open"
    [] call[c] = "ok"                   -> "ok"
    [] call[c] \in {"error", "timeout"} -> "failed"

Body(c) == IF executed[c] > 0 /\ call[c] # "window" THEN "ok" ELSE "no"

TC == INSTANCE ToolCall WITH Calls   <- Cmds,
                             outcome <- [c \in Cmds |-> Outcome(c)],
                             ran     <- [c \in Cmds |-> Body(c)]

(* Through the receiver, the worker thread, the socket and Blender's main  *)
(* thread, under every timeout, lost connection and repeated call, the     *)
(* agent sees what ToolCall promises, up to the first two commands that    *)
(* overlap.                                                                *)
KeepsPromise == TC!Init /\ [][overlapped' \/ TC!Next \/ UNCHANGED TC!vars]_allVars

LEMMA SameForTheAgent ==
  ASSUME UNCHANGED <<call, executed>>
  PROVE  UNCHANGED TC!vars
BY DEF TC!vars, Outcome, Body

LEMMA OutcomesOf ==
  \A c \in Cmds : /\ call[c] \in {"unused", "window"} => Outcome(c) = "unused"
                  /\ call[c] = "open" => Outcome(c) = "open"
                  /\ call[c] = "ok" => Outcome(c) = "ok"
                  /\ call[c] \in {"error", "timeout"} => Outcome(c) = "failed"
BY DEF Outcome

LEMMA PromiseStep ==
  ASSUME PathInv, PathInv', [PathNext]_allVars, ~overlapped'
  PROVE  TC!Next \/ UNCHANGED TC!vars
<1> DEFINE outcome == [c \in Cmds |-> Outcome(c)]
           ran == [c \in Cmds |-> Body(c)]
<1>0. /\ call \in [Cmds -> {"unused", "window", "open", "ok", "error", "timeout"}]
      /\ executed \in [Cmds -> Nat] /\ timers \subseteq Cmds \X Socks
      /\ LinkInv /\ InLine
  BY DEF PathInv, PathTypeOK, TypeOK
<1>1. \A c \in Cmds : call[c] = "unused" => executed[c] = 0
  BY <1>0 DEF InLine, LinkInv, OneCopy, NotSent, Fresh
<1>2. ASSUME NEW c \in Cmds, NEW k, call' = [call EXCEPT ![c] = k], executed' = executed
      PROVE  /\ \A d \in Cmds : d # c => Outcome(d)' = Outcome(d) /\ Body(d)' = Body(d)
             /\ (k = "window" <=> call[c] = "window") \/ executed[c] = 0 => Body(c)' = Body(c)
             /\ call'[c] = k
  BY <1>0, <1>2 DEF Outcome, Body
<1>3. ASSUME NEW c \in Cmds, CallTool(c) PROVE TC!Next
  <2>1. /\ call[c] = "unused" /\ call' = [call EXCEPT ![c] = "open"] /\ executed' = executed
    BY <1>3 DEF CallTool, vars
  <2>2. Outcome(c) = "unused" /\ Outcome(c)' = "open" /\ ran' = ran
    BY <1>1, <1>2, <2>1 DEF Outcome
  <2>3. outcome' = [outcome EXCEPT ![c] = "open"]
    BY <1>2, <2>1, <2>2
  <2> QED BY <2>2, <2>3 DEF TC!Next, TC!Begin
<1>4. ASSUME NEW c \in Cmds, NEW k \in {"error", "timeout"}, call[c] = "open",
             call' = [call EXCEPT ![c] = k], executed' = executed
      PROVE  TC!Next
  <2>1. Outcome(c) = "open" /\ Outcome(c)' = "failed" /\ ran' = ran
    BY <1>2, <1>4 DEF Outcome
  <2>2. outcome' = [outcome EXCEPT ![c] = "failed"]
    BY <1>2, <1>4, <2>1
  <2> QED BY <2>1, <2>2 DEF TC!Next, TC!Fail
<1>5. ASSUME NEW c \in Cmds, GiveUp(c) PROVE TC!Next
  BY <1>4, <1>5 DEF GiveUp, vars
<1>6. ASSUME NEW c \in Cmds, WindowSends(c) PROVE UNCHANGED TC!vars
  <2>1. /\ call[c] = "unused" /\ call' = [call EXCEPT ![c] = "window"] /\ executed' = executed
    BY <1>6 DEF WindowSends, Begin
  <2>2. call'[c] = "window" /\ executed[c] = 0
    BY <1>1, <1>2, <2>1
  <2>3. Outcome(c)' = Outcome(c)
    BY <2>1, <2>2 DEF Outcome
  <2>4. Body(c)' = Body(c)
    BY <2>1, <2>2 DEF Body
  <2> QED BY <1>2, <2>1, <2>3, <2>4 DEF TC!vars
<1>7. ASSUME Answer PROVE TC!Next \/ UNCHANGED TC!vars
  <2>1. PICK c \in Cmds : c = doing
    BY <1>7 DEF Answer, PathInv, PathTypeOK
  <2>2. executed' = executed
    BY <1>7 DEF Answer, vars
  <2>3. CASE call[c] # "open"
    <3>1. call' = call
      BY <1>7, <2>1, <2>3 DEF Answer
    <3> QED BY <2>2, <3>1, SameForTheAgent
  <2>4. CASE call[c] = "open"
    <3>1. PICK r \in Results(c) : call' = [call EXCEPT ![c] = r]
      BY <1>7, <2>1, <2>4 DEF Answer
    <3>2. r \in {"ok", "error"}
      BY <3>1 DEF Results
    <3>3. CASE r = "error"
      BY <1>4, <2>2, <2>4, <3>1, <3>3
    <3>4. CASE r = "ok"
      <4>1. call'[c] = "ok" /\ ran' = ran
        BY <1>2, <2>2, <2>4, <3>1, <3>4
      <4>2. Taken(c) /\ ~overlapped
        BY <1>7, <3>1, <3>4 DEF Results, Answer, vars
      <4>3. Body(c) = "ok"
        BY <1>0, <2>4, <4>2 DEF Body, LinkInv, Alone, Answers, RepliesRan, Ran
      <4>4. Outcome(c) = "open" /\ Outcome(c)' = "ok"
        BY <2>4, <4>1 DEF Outcome
      <4>5. outcome' = [outcome EXCEPT ![c] = "ok"]
        BY <1>2, <2>2, <3>1, <4>4
      <4> QED BY <4>1, <4>3, <4>4, <4>5 DEF TC!Next, TC!Succeed
    <3> QED BY <3>2, <3>3, <3>4
  <2> QED BY <2>3, <2>4
<1>8. ASSUME NEW timer \in timers, Execute(timer), UNCHANGED pathVars
      PROVE  TC!Next \/ UNCHANGED TC!vars
  <2>1. PICK c \in Cmds, s \in Socks : timer = <<c, s>>
    BY <1>0
  <2>2. /\ executed' = [executed EXCEPT ![c] = @ + 1] /\ call' = call
        /\ overlapped' = overlapped
    BY <1>8, <2>1 DEF Execute, pathVars
  <2>3. executed[c] = 0 /\ executed'[c] = 1
    BY <1>0, <2>1, <2>2 DEF LinkInv, OneCopy, NotYetRun
  <2>4. \A d \in Cmds : Outcome(d)' = Outcome(d) /\ (d # c => Body(d)' = Body(d))
    BY <1>0, <2>2 DEF Outcome, Body
  <2>5. CASE call[c] = "window"
    <3>1. Body(c)' = Body(c)
      BY <2>2, <2>5 DEF Body
    <3> QED BY <2>4, <3>1 DEF TC!vars
  <2>6. CASE call[c] # "window"
    <3>1. call[c] # "unused"
      BY <1>0, <2>1 DEF InLine, LinkInv, OneCopy, NotSent, Fresh
    <3>2. call[c] # "ok"
      BY <2>2, <2>3, OkRan DEF OkMeansItRan
    <3>3. Outcome(c) \in {"open", "failed"}
      BY <1>0, <2>6, <3>1, <3>2, OutcomesOf
    <3>4. Body(c) = "no" /\ Body(c)' = "ok"
      BY <2>2, <2>3, <2>6 DEF Body
    <3>5. ran' = [ran EXCEPT ![c] = "ok"] /\ outcome' = outcome
      BY <2>4, <3>4
    <3> QED BY <3>3, <3>4, <3>5 DEF TC!Next, TC!Run
  <2> QED BY <2>5, <2>6
<1>9. ASSUME NEW t \in Threads, ThreadStep(t) \/ Disconnect(t) PROVE executed' = executed
  BY <1>9 DEF ThreadStep, Disconnect, MakeSocket, Connected, NotConnected, Send, SendFails, Bind,
              Receive, ReceiveFails
<1>10. ASSUME (\E t \in Workers : Dispatch(t)) \/ Refuse PROVE UNCHANGED TC!vars
  BY <1>10, SameForTheAgent DEF Dispatch, Begin, Refuse, Refused
<1>11. ASSUME LoseConnection \/ WindowStops PROVE UNCHANGED TC!vars
  <2>1. UNCHANGED <<call, executed>>
    BY <1>11 DEF LoseConnection, WindowStops, Disconnect, vars
  <2> QED BY <2>1, SameForTheAgent
<1>12. ASSUME NEW t \in Threads, PathThreadStep(t) PROVE UNCHANGED TC!vars
  BY <1>9, <1>12, SameForTheAgent DEF PathThreadStep, pathVars
<1>13. ASSUME NEW s \in Socks, AddonReceive(s) \/ AddonCloses(s), UNCHANGED pathVars
       PROVE  UNCHANGED TC!vars
  BY <1>13, SameForTheAgent DEF AddonReceive, AddonCloses, pathVars
<1>14. ASSUME UNCHANGED allVars PROVE UNCHANGED TC!vars
  BY <1>14, SameForTheAgent DEF allVars, vars, pathVars
<1> HIDE DEF outcome, ran
<1> QED
  BY <1>3, <1>5, <1>6, <1>7, <1>8, <1>10, <1>11, <1>12, <1>13, <1>14 DEF PathNext, AddonStep

(* KeepsPromise: a tool call succeeds only if it has run, ends once and    *)
(* runs once, whatever happens to the connections on its way.              *)
THEOREM PathKeepsThePromise == PathSpec => KeepsPromise
<1>1. PathInit => TC!Init
  BY DEF PathInit, Init, TC!Init, Outcome, Body
<1>2. ASSUME PathInv, PathInv', [PathNext]_allVars
      PROVE  [overlapped' \/ TC!Next \/ UNCHANGED TC!vars]_allVars
  BY <1>2, PromiseStep, PathInvariance DEF PathInv, PathTypeOK, TypeOK
<1> QED
  BY <1>1, <1>2, PathInvariance, PTL DEF PathSpec, KeepsPromise
-----------------------------------------------------------------------------
(* The end of a command. *)

(* A send_command that has not ended is in the hands of one thread.        *)
InHand == \A c \in Cmds : reply[c] = Pending => \E t \in Threads : pc[t] # "idle" /\ cmd[t] = c

(* How many places of send_command a thread has before it.                 *)
Before(place) == CASE place = "connect"    -> 5
                   [] place = "connecting" -> 4
                   [] place = "send"       -> 3
                   [] place = "bind"       -> 2
                   [] place = "receive"    -> 1
                   [] place = "idle"       -> 0

(* What EveryCommandEnds rests on, without the fairness: nobody puts a     *)
(* thread back, neither another thread that takes its socket away nor the  *)
(* addon, and every step of its own brings it nearer to the end of its     *)
(* command, except a read that does not parse.  Such a read takes something*)
(* out of the stream, and happens only if two commands have overlapped.    *)
GoesOn(t) ==
  \/ Before(pc'[t]) < Before(pc[t])
  \/ /\ pc'[t] = pc[t] /\ cmd'[t] = cmd[t]
     /\ \/ ~ThreadStep(t)
        \/ /\ pc[t] = "receive" /\ overlapped
           /\ Len(toClient'[mine[t]]) < Len(toClient[mine[t]])

ThreadsGoOn == [][\A t \in Threads : pc[t] # "idle" => GoesOn(t)]_allVars

LEMMA BeforeOf ==
  /\ Before("connect") = 5 /\ Before("connecting") = 4 /\ Before("send") = 3
  /\ Before("bind") = 2 /\ Before("receive") = 1 /\ Before("idle") = 0
BY DEF Before

(* A step of a thread in send_command, apart from a read: it gets on, and  *)
(* moves nobody else.                                                      *)
LEMMA StepGoesOn ==
  ASSUME TypeOK, NEW t \in Threads, ThreadStep(t), ~Receive(t)
  PROVE  /\ Before(pc'[t]) < Before(pc[t])
         /\ \A u \in Threads : u # t => pc'[u] = pc[u] /\ cmd'[u] = cmd[u]
<1>0. pc \in [Threads -> Places] /\ cmd \in [Threads -> Cmds \cup {None}]
  BY DEF TypeOK
<1>1. CASE MakeSocket(t)
  BY <1>0, <1>1, BeforeOf DEF MakeSocket, GoTo
<1>2. CASE Connected(t)
  BY <1>0, <1>2, BeforeOf DEF Connected, GoTo
<1>3. CASE NotConnected(t)
  BY <1>0, <1>3, BeforeOf DEF NotConnected, EndWith
<1>4. CASE Send(t)
  BY <1>0, <1>4, BeforeOf DEF Send, GoTo
<1>5. CASE SendFails(t)
  BY <1>0, <1>5, BeforeOf DEF SendFails, EndWith
<1>6. CASE Bind(t)
  BY <1>0, <1>6, BeforeOf DEF Bind, EndWith
<1>7. CASE ReceiveFails(t)
  BY <1>0, <1>7, BeforeOf DEF ReceiveFails, EndWith
<1> QED
  BY <1>1, <1>2, <1>3, <1>4, <1>5, <1>6, <1>7 DEF ThreadStep

(* A read ends the command, or there was too much in the stream.           *)
LEMMA ReadGoesOn ==
  ASSUME LinkInv, NEW t \in Threads, Receive(t)
  PROVE  /\ \/ Before(pc'[t]) < Before(pc[t])
            \/ /\ pc'[t] = pc[t] /\ cmd'[t] = cmd[t] /\ overlapped
               /\ Len(toClient'[mine[t]]) < Len(toClient[mine[t]])
         /\ \A u \in Threads : u # t => pc'[u] = pc[u] /\ cmd'[u] = cmd[u]
<1>0. /\ pc \in [Threads -> Places] /\ cmd \in [Threads -> Cmds \cup {None}]
      /\ toClient \in [Socks -> Seq(Cmds)] /\ chunks \in [Threads -> Seq(Cmds)]
      /\ pc[t] = "receive" /\ mine[t] \in Socks /\ cmd[t] \in Cmds
  BY DEF LinkInv, TypeOK, Receive
<1> DEFINE stream == toClient[mine[t]]
           read(n) == chunks[t] \o First(stream, n)
<1>1. PICK n \in Prefixes(stream) :
        /\ toClient' = [toClient EXCEPT ![mine[t]] = Rest(@, n)]
        /\ IF Parses(read(n)) THEN EndWith(t, read(n)[1])
           ELSE UNCHANGED <<pc, cmd, mine, reply>>
  BY DEF Receive
<1>2. CASE Parses(read(n))
  BY <1>0, <1>1, <1>2, BeforeOf DEF EndWith
<1>3. CASE ~Parses(read(n))
  <2>1. stream \in Seq(Cmds) /\ n \in 1 .. Len(stream) /\ Len(stream) \in Nat
    BY <1>0 DEF Prefixes
  <2>2. Len(Rest(stream, n)) < Len(stream)
    BY <2>1 DEF Rest
  <2>3. toClient'[mine[t]] = Rest(stream, n)
    BY <1>0, <1>1
  <2>4. overlapped
    <3> SUFFICES ASSUME ~overlapped PROVE FALSE
      OBVIOUS
    <3>1. SocketsApart /\ chunks[t] = <<>>
      BY DEF LinkInv, Alone, Answers
    <3>2. Only(mine[t], cmd[t])
      BY <1>0, <3>1 DEF SocketsApart, Using
    <3>3. stream \in {<<>>, <<cmd[t]>>}
      BY <3>2 DEF Only, Carries
    <3>4. Len(stream) = 0 \/ Len(stream) = 1
      <4> HIDE DEF stream
      <4>1. CASE stream = <<>>
        BY <4>1
      <4>2. CASE stream = <<cmd[t]>>
        BY <4>2
      <4> QED
        BY <3>3, <4>1, <4>2
    <3>5. n = 1
      <4> HIDE DEF stream
      <4> QED
        BY ONLY <2>1, <3>4
    <3>6. First(stream, n) \in Seq(Cmds) /\ Len(First(stream, n)) = 1
      BY <2>1, <3>5 DEF First
    <3>7. Len(read(n)) = 1
      BY <3>1, <3>6
    <3> QED
      BY <1>3, <3>7 DEF Parses
  <2> QED
    BY <1>1, <1>3, <2>2, <2>3, <2>4
<1> QED
  BY <1>2, <1>3

(* Who is in the middle of a command is moved by its own steps only.       *)
LEMMA OthersLeaveIt ==
  ASSUME TypeOK, NEW t \in Threads, pc[t] # "idle",
         \/ \E u \in Threads, c \in Cmds : Begin(u, c)
         \/ \E c \in Cmds : Refused(c)
         \/ \E u \in Threads : Disconnect(u)
         \/ AddonStep
         \/ UNCHANGED vars
  PROVE  pc'[t] = pc[t] /\ cmd'[t] = cmd[t]
<1>1. ASSUME NEW u \in Threads, NEW c \in Cmds, Begin(u, c)
      PROVE  pc'[t] = pc[t] /\ cmd'[t] = cmd[t]
  BY <1>1 DEF Begin, TypeOK
<1>2. ASSUME \/ \E c \in Cmds : Refused(c)
             \/ \E u \in Threads : Disconnect(u)
             \/ AddonStep
             \/ UNCHANGED vars
      PROVE  pc' = pc /\ cmd' = cmd
  BY <1>2 DEF Refused, Disconnect, AddonStep, AddonReceive, AddonCloses, Execute, vars
<1> QED
  BY <1>1, <1>2

LEMMA GoesOnStep ==
  ASSUME LinkInv, [Next]_vars, NEW t \in Threads, pc[t] # "idle"
  PROVE  GoesOn(t)
<1>0. TypeOK
  BY DEF LinkInv
<1>1. CASE ThreadStep(t)
  BY <1>0, <1>1, StepGoesOn, ReadGoesOn DEF GoesOn, Receive
<1>2. CASE ~ThreadStep(t)
  <2>1. ASSUME NEW u \in Threads, ThreadStep(u) PROVE pc'[t] = pc[t] /\ cmd'[t] = cmd[t]
    BY <1>0, <1>2, <2>1, StepGoesOn, ReadGoesOn
  <2>2. pc'[t] = pc[t] /\ cmd'[t] = cmd[t]
    BY <1>0, <2>1, OthersLeaveIt DEF Next
  <2> QED
    BY ONLY <1>2, <2>2 DEF GoesOn
<1> QED
  BY <1>1, <1>2

LEMMA InHandKept == LinkInv /\ LinkInv' /\ InHand /\ [Next]_vars => InHand'
<1> SUFFICES ASSUME LinkInv, LinkInv', InHand, [Next]_vars, NEW c \in Cmds, reply'[c] = Pending
             PROVE  \E t \in Threads : pc'[t] # "idle" /\ cmd'[t] = c
  BY DEF InHand
<1>0. /\ TypeOK /\ TypeOK'
      /\ pc \in [Threads -> Places] /\ cmd \in [Threads -> Cmds \cup {None}]
      /\ reply \in [Cmds -> Cmds \cup {NotRun, Pending, Failed}]
  BY DEF LinkInv, TypeOK
<1>1. ASSUME NEW u \in Threads, NEW d \in Cmds, Begin(u, d)
      PROVE  \E t \in Threads : pc'[t] # "idle" /\ cmd'[t] = c
  <2>1. CASE c = d
    BY <1>0, <1>1, <2>1 DEF Begin
  <2>2. CASE c # d
    <3>1. PICK t \in Threads : pc[t] # "idle" /\ cmd[t] = c
      BY <1>0, <1>1, <2>2 DEF Begin, InHand
    <3> QED
      BY <1>0, <1>1, <3>1 DEF Begin
  <2> QED
    BY <2>1, <2>2
<1>2. ASSUME NEW u \in Threads, NEW r \in Cmds \cup {Failed}, EndWith(u, r), pc[u] # "idle"
      PROVE  \E t \in Threads : pc'[t] # "idle" /\ cmd'[t] = c
  <2>1. cmd[u] \in Cmds /\ r # Pending
    BY <1>0, <1>2, NamesAssumption DEF TypeOK
  <2>2. reply[c] = Pending /\ c # cmd[u]
    BY <1>0, <1>2, <2>1 DEF EndWith
  <2>3. PICK t \in Threads : pc[t] # "idle" /\ cmd[t] = c
    BY <2>2 DEF InHand
  <2> QED
    BY <1>0, <1>2, <2>2, <2>3 DEF EndWith
<1>3. ASSUME reply' = reply, cmd' = cmd,
             \A t \in Threads : pc[t] # "idle" => pc'[t] # "idle"
      PROVE  \E t \in Threads : pc'[t] # "idle" /\ cmd'[t] = c
  BY <1>3 DEF InHand
<1>4. ASSUME NEW u \in Threads, ThreadStep(u)
      PROVE  \E t \in Threads : pc'[t] # "idle" /\ cmd'[t] = c
  <2>1. CASE MakeSocket(u) \/ Connected(u) \/ Send(u)
    BY <1>0, <1>3, <2>1 DEF MakeSocket, Connected, Send, GoTo
  <2>2. CASE NotConnected(u) \/ SendFails(u) \/ ReceiveFails(u)
    BY <1>2, <2>2 DEF NotConnected, SendFails, ReceiveFails
  <2>3. CASE Bind(u)
    <3>1. CASE sock = None
      BY <1>2, <2>3, <3>1 DEF Bind
    <3>2. CASE sock # None
      BY <1>0, <1>3, <2>3, <3>2 DEF Bind
    <3> QED
      BY <3>1, <3>2
  <2>4. CASE Receive(u)
    <3>1. PICK n \in Prefixes(toClient[mine[u]]) :
            LET read == chunks[u] \o First(toClient[mine[u]], n) IN
            IF Parses(read) THEN EndWith(u, read[1]) ELSE UNCHANGED <<pc, cmd, mine, reply>>
      BY <2>4 DEF Receive
    <3> DEFINE read == chunks[u] \o First(toClient[mine[u]], n)
    <3>2. CASE Parses(read)
      <4>1. mine[u] \in Socks /\ pc[u] = "receive"
        BY <1>0, <2>4 DEF Receive, TypeOK
      <4>2. chunks[u] \in Seq(Cmds) /\ toClient[mine[u]] \in Seq(Cmds)
        BY <1>0, <4>1 DEF TypeOK
      <4>3. read \in Seq(Cmds)
        BY <4>2, ReadFacts DEF Divides
      <4>4. read[1] \in Cmds
        <5> HIDE DEF read
        <5> QED
          BY <3>2, <4>3 DEF Parses
      <4> QED
        BY <1>2, <3>1, <3>2, <4>1, <4>4
    <3>3. CASE ~Parses(read)
      BY <1>3, <3>1, <3>3
    <3> QED
      BY <3>2, <3>3
  <2> QED
    BY <1>4, <2>1, <2>2, <2>3, <2>4 DEF ThreadStep
<1>5. ASSUME \/ \E u \in Threads : Disconnect(u)
             \/ AddonStep
             \/ UNCHANGED vars
      PROVE  reply' = reply /\ cmd' = cmd /\ pc' = pc
  BY <1>5 DEF Disconnect, AddonStep, AddonReceive, AddonCloses, Execute, vars
<1>6. ASSUME NEW d \in Cmds, Refused(d)
      PROVE  \E t \in Threads : pc'[t] # "idle" /\ cmd'[t] = c
  <2>1. reply[c] = Pending /\ UNCHANGED <<pc, cmd>>
    BY <1>0, <1>6, NamesAssumption DEF Refused
  <2> QED
    BY <2>1 DEF InHand
<1> QED
  BY <1>1, <1>3, <1>4, <1>5, <1>6 DEF Next

(* Every send_command that has not ended has a thread that is at it, and   *)
(* the thread gets on.                                                     *)
THEOREM CommandsRunOut == PathSpec => []InHand /\ ThreadsGoOn
<1>1. PathInit => InHand
  BY DEF PathInit, Init, InHand
<1>2. PathInv /\ PathInv' /\ InHand /\ [PathNext]_allVars => InHand'
  BY PathStep, InHandKept DEF PathInv
<1>3. ASSUME PathInv, [PathNext]_allVars
      PROVE  [\A t \in Threads : pc[t] # "idle" => GoesOn(t)]_allVars
  BY <1>3, PathStep, GoesOnStep DEF PathInv
<1> QED
  BY <1>1, <1>2, <1>3, PathInvariance, PTL DEF PathSpec, ThreadsGoOn
=============================================================================
