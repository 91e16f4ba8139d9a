-------------------------- MODULE SessionLifecycle --------------------------
(***************************************************************************)
(* The life of the sessions of one user: the companion's connection loop   *)
(* (client/companion_runtime.py, _run_forever), which takes a fresh        *)
(* session id for every connection after the first, and the WebSocket      *)
(* handler of server/server.py, whose bridge, audio gate, cursor, part     *)
(* registry and ADK session are kept in tables with one entry per session  *)
(* id.  Of those tables only the bridge's checks who it belongs to when a  *)
(* handler cleans up, so the handlers are right only because the client    *)
(* rotates its ids.                                                        *)
(***************************************************************************)
EXTENDS Naturals

CONSTANTS
  MaxAttempts,  \* bound on the connections the client tries to open
  None

ASSUME LifecycleAssumption == MaxAttempts \in Nat \ {0} /\ None \notin 1 .. MaxAttempts

VARIABLES
  phase,      \* where the client's thread is
  sid,        \* CompanionState.session_id
  attempt,    \* the connection that thread is at
  stopEvt,    \* _stop_evt, set by stop()
  stopAsync,  \* _stop_async, which the watcher waits for
  reconnect,  \* _reconnect_async, set by the Reconnect button
  connected,  \* CompanionState.connected, which the window shows
  link,       \* the state of each connection
  stage,      \* where each connection's handler is
  key,        \* the session id in each connection's URL
  loops,      \* the loops each handler has running
  owner       \* whose entry each table holds for a session id

clientVars == <<phase, sid, attempt, stopEvt, stopAsync, reconnect, connected>>
serverVars == <<stage, key, loops, owner>>
vars == <<clientVars, link, serverVars>>

Attempts == 1 .. MaxAttempts
Phases == {"starting", "trying", "online", "waiting", "ended", "dead"}
Stages == {"none", "accepted", "registered", "serving", "leaving", "released",
           "gone", "crashed"}
Tables == {"bridge", "gate", "cursor", "registry", "adk"}

TypeOK ==
  /\ phase \in Phases
  /\ {sid, attempt} \subseteq Attempts
  /\ {stopEvt, stopAsync, reconnect, connected} \subseteq BOOLEAN
  /\ link \in [Attempts -> {"none", "open", "closed"}]
  /\ stage \in [Attempts -> Stages]
  /\ key \in [Attempts -> Attempts]
  /\ loops \in [Attempts -> SUBSET {"up", "down"}]
  /\ owner \in [Tables -> [Attempts -> Attempts \cup {None}]]

Init ==
  /\ phase = "starting" /\ sid = 1 /\ attempt = 1
  /\ stopEvt = FALSE /\ stopAsync = FALSE /\ reconnect = FALSE
  /\ connected = FALSE
  /\ link = [a \in Attempts |-> "none"]
  /\ stage = [a \in Attempts |-> "none"]
  /\ key = [a \in Attempts |-> a]
  /\ loops = [a \in Attempts |-> {}]
  /\ owner = [t \in Tables |-> [s \in Attempts |-> None]]

(* What ends a connection happens only while there is a next one to open.  *)
Budget == attempt < MaxAttempts

-----------------------------------------------------------------------------
(* The client's thread *)

(* Fault: the session id is kept.                                          *)
NextSession_Kept == sid

(* _rotate_session.                                                        *)
NextSession == sid + 1

(* Fault: the loop looks at the event that stop() sets only if it exists.  *)
StopSeen_Async == stopAsync

(* _stop_evt.is_set().                                                     *)
StopSeen == stopEvt

(* The head of the loop: stop, or open the next connection.                *)
NextRound ==
  IF StopSeen
    THEN phase' = "ended" /\ UNCHANGED <<attempt, sid>>
    ELSE /\ Budget
         /\ phase' = "trying" /\ attempt' = attempt + 1 /\ sid' = NextSession

(* After an OSError or a closed connection the loop pauses.                *)
AfterError ==
  /\ phase' = IF StopSeen THEN "ended" ELSE "waiting"
  /\ UNCHANGED <<attempt, sid>>

(* The thread makes its loop and its events; the first connection uses     *)
(* the id the state was created with.                                      *)
ThreadStarts ==
  /\ phase = "starting"
  /\ phase' = IF StopSeen THEN "ended" ELSE "trying"
  /\ UNCHANGED <<sid, attempt, stopEvt, stopAsync, reconnect, connected, link, serverVars>>

(* Fault: the window is told only of errors.                               *)
ShownAfter_Kept == connected

(* The finally of every attempt.                                           *)
ShownAfter == FALSE

(* stop(): the thread may not have made its events yet.                    *)
UserStops ==
  /\ ~stopEvt
  /\ phase \notin {"ended", "dead"}
  /\ stopEvt' = TRUE
  /\ stopAsync' = (phase # "starting")
  /\ UNCHANGED <<phase, sid, attempt, reconnect, connected, link, serverVars>>

(* Its end, when the thread has ended or 3 s have passed.                  *)
StopReturns ==
  /\ stopEvt
  /\ connected' = FALSE
  /\ UNCHANGED <<phase, sid, attempt, stopEvt, stopAsync, reconnect, link, serverVars>>

(* request_reconnect.                                                      *)
UserReconnects ==
  /\ phase \in {"trying", "online", "waiting"}
  /\ Budget
  /\ reconnect' = TRUE
  /\ UNCHANGED <<phase, sid, attempt, stopEvt, stopAsync, connected, link, serverVars>>

Accept(a) ==
  /\ stage' = [stage EXCEPT ![a] = "accepted"]
  /\ key' = [key EXCEPT ![a] = sid]
  /\ UNCHANGED <<loops, owner>>

(* A reconnect that was asked for before the connection is forgotten.      *)
ConnectSucceeds ==
  /\ phase = "trying"
  /\ phase' = "online"
  /\ link' = [link EXCEPT ![attempt] = "open"]
  /\ Accept(attempt)
  /\ reconnect' = FALSE
  /\ connected' = TRUE
  /\ UNCHANGED <<sid, attempt, stopEvt, stopAsync>>

(* OSError: refused, or timed out, perhaps after the server accepted.      *)
ConnectFails ==
  /\ phase = "trying"
  /\ Budget
  /\ AfterError
  /\ \/ UNCHANGED <<link, serverVars>>
     \/ Accept(attempt) /\ link' = [link EXCEPT ![attempt] = "closed"]
  /\ connected' = FALSE
  /\ UNCHANGED <<stopEvt, stopAsync, reconnect>>

(* Any other exception of the handshake, an HTTP error status for one,     *)
(* ends the thread.                                                        *)
ConnectRejected ==
  /\ phase = "trying"
  /\ phase' = "dead"
  /\ connected' = ShownAfter
  /\ UNCHANGED <<sid, attempt, stopEvt, stopAsync, reconnect, link, serverVars>>

(* The connection is left: some tasks return, others meet the closed       *)
(* connection, and an exception among those that are done is raised.       *)
LeaveConnection ==
  /\ link' = [link EXCEPT ![attempt] = "closed"]
  /\ \/ NextRound /\ connected' = ShownAfter
     \/ AfterError /\ connected' = FALSE
  /\ UNCHANGED <<stopEvt, stopAsync, reconnect, serverVars>>

(* Fault: the watcher waits for the stop only.                             *)
WatcherFires_StopOnly == stopAsync

(* _reconnect_watcher.                                                     *)
WatcherFires == reconnect \/ stopAsync

WatcherCloses == phase = "online" /\ WatcherFires /\ LeaveConnection

(* The mic, cursor and trace senders look at _stop_evt each time round.    *)
SendersStop == phase = "online" /\ StopSeen /\ LeaveConnection

LinkLost == phase = "online" /\ link[attempt] = "closed" /\ LeaveConnection

(* PortAudioError and the like end the thread.                             *)
AudioFails ==
  /\ phase = "online"
  /\ phase' = "dead"
  /\ link' = [link EXCEPT ![attempt] = "closed"]
  /\ connected' = ShownAfter
  /\ UNCHANGED <<sid, attempt, stopEvt, stopAsync, reconnect, serverVars>>

Woken ==
  /\ phase = "waiting"
  /\ NextRound
  /\ UNCHANGED <<stopEvt, stopAsync, reconnect, connected, link, serverVars>>

NetworkDrops(a) ==
  /\ link[a] = "open"
  /\ Budget
  /\ link' = [link EXCEPT ![a] = "closed"]
  /\ UNCHANGED <<clientVars, serverVars>>

-----------------------------------------------------------------------------
(* The server's handlers *)

GoTo(a, from, to) == stage[a] = from /\ stage' = [stage EXCEPT ![a] = to]

(* register_bridge takes the place of whatever bridge was there.           *)
RegisterBridge(a) ==
  /\ GoTo(a, "accepted", "registered")
  /\ owner' = [owner EXCEPT !["bridge"][key[a]] = a]
  /\ UNCHANGED <<clientVars, link, key, loops>>

(* The session_meta or the first trace_event meets a closed connection.    *)
(* The handler's try has not begun: nothing is undone.                     *)
SetupFails(a) ==
  /\ link[a] = "closed"
  /\ GoTo(a, "registered", "crashed")
  /\ UNCHANGED <<clientVars, link, key, loops, owner>>

OrExisting(t, a) == IF owner[t][key[a]] = None THEN a ELSE owner[t][key[a]]

(* The session is found or created, the gate registered, the loops begun.  *)
Setup(a) ==
  /\ GoTo(a, "registered", "serving")
  /\ owner' = [owner EXCEPT !["adk"][key[a]] = OrExisting("adk", a),
                            !["gate"][key[a]] = a]
  /\ loops' = [loops EXCEPT ![a] = {"up", "down"}]
  /\ UNCHANGED <<clientVars, link, key>>

CursorArrives(a) ==
  /\ "up" \in loops[a]
  /\ owner' = [owner EXCEPT !["cursor"][key[a]] = a]
  /\ UNCHANGED <<clientVars, link, stage, key, loops>>

(* get_part_registry creates the registry at the first tool that asks.     *)
ToolBuilds(a) ==
  /\ "down" \in loops[a]
  /\ owner' = [owner EXCEPT !["registry"][key[a]] = OrExisting("registry", a)]
  /\ UNCHANGED <<clientVars, link, stage, key, loops>>

(* upstream() reads the disconnect, or raises on an open connection.       *)
UpstreamEnds(a) ==
  /\ "up" \in loops[a]
  /\ loops' = [loops EXCEPT ![a] = @ \ {"up"}]
  /\ UNCHANGED <<clientVars, link, stage, key, owner>>

(* run_live ends.  On an error the connection is closed as well.           *)
DownstreamEnds(a) ==
  /\ "down" \in loops[a]
  /\ loops' = [loops EXCEPT ![a] = @ \ {"down"}]
  /\ \/ UNCHANGED link
     \/ Budget /\ link' = [link EXCEPT ![a] = "closed"]
  /\ UNCHANGED <<clientVars, stage, key, owner>>

(* gather has both results; the farewell trace may take its time.          *)
CleanupBegins(a) ==
  /\ loops[a] = {}
  /\ GoTo(a, "serving", "leaving")
  /\ UNCHANGED <<clientVars, link, key, loops, owner>>

(* Fault: the part registry is forgotten.                                  *)
Released_NoRegistry(a) ==
  [t \in Tables |-> [owner[t] EXCEPT ![key[a]] =
     IF t \in {"gate", "cursor"} \/ (t = "bridge" /\ @ = a) THEN None ELSE @]]

(* Only unregister_bridge looks at whose entry it takes away.              *)
Released(a) ==
  [t \in Tables |-> [owner[t] EXCEPT ![key[a]] =
     IF t \in {"gate", "cursor", "registry"} \/ (t = "bridge" /\ @ = a) THEN None ELSE @]]

CleanupReleases(a) ==
  /\ GoTo(a, "leaving", "released")
  /\ owner' = Released(a)
  /\ UNCHANGED <<clientVars, link, key, loops>>

(* The handler returns: what is left of the connection is closed.          *)
DeleteSession(a) ==
  /\ GoTo(a, "released", "gone")
  /\ owner' = [owner EXCEPT !["adk"][key[a]] = None]
  /\ link[a] = "open" => Budget
  /\ link' = [link EXCEPT ![a] = "closed"]
  /\ UNCHANGED <<clientVars, key, loops>>

-----------------------------------------------------------------------------
Connects == ConnectSucceeds \/ ConnectFails \/ ConnectRejected
ClientStep == ThreadStarts \/ Connects \/ WatcherCloses \/ SendersStop \/ LinkLost \/ Woken

HandlerStep(a) ==
  \/ RegisterBridge(a) \/ SetupFails(a) \/ Setup(a)
  \/ CursorArrives(a) \/ ToolBuilds(a)
  \/ UpstreamEnds(a) \/ DownstreamEnds(a)
  \/ CleanupBegins(a) \/ CleanupReleases(a) \/ DeleteSession(a)

Next ==
  \/ ClientStep \/ AudioFails \/ UserStops \/ StopReturns \/ UserReconnects
  \/ \E a \in Attempts : NetworkDrops(a) \/ HandlerStep(a)

(* The client's event loop takes a step whenever one is ready: connecting  *)
(* has a timeout, the pause is 2 s, the events wake their watcher.         *)
Spec == Init /\ [][Next]_vars
FairSpec == Spec /\ WF_vars(ClientStep)

-----------------------------------------------------------------------------
(* Properties *)

(* A handler that serves its client finds its own bridge, gate and session *)
(* under its key, and no other's cursor or parts: no cleanup of an earlier *)
(* connection, however late, has touched them (server.py 364-391).         *)
ServingOwnsItsKey ==
  \A a \in Attempts : stage[a] = "serving" =>
    /\ \A t \in {"bridge", "gate", "adk"} : owner[t][key[a]] = a
    /\ \A t \in {"cursor", "registry"} : owner[t][key[a]] \in {None, a}

(* Every table entry goes back to a handler that is still there, except    *)
(* the bridge of one that failed before its try began: with a fresh id     *)
(* per connection nobody will ever replace that one.                       *)
NothingLeftBehind ==
  \A t \in Tables, s \in Attempts :
    owner[t][s] # None =>
      \/ stage[owner[t][s]] \in {"registered", "serving", "leaving", "released"}
      \/ t = "bridge" /\ stage[owner[t][s]] = "crashed"

(* The window says Connected only of a session that is being served, not   *)
(* of one that is closed, of an attempt that fails or of a thread that has *)
(* ended, whichever way the session was left and whatever stop() overtook. *)
ShownTruly == connected => phase = "online"

(* stop() ends the client's thread, in whatever phase it finds it: before  *)
(* the events exist, while connecting, online or in the pause; and the     *)
(* window does not say Connected again.                                    *)
StopIsObeyed == stopEvt ~> [](phase \in {"ended", "dead"} /\ ~connected)

(* The Reconnect button, pressed while online, leads to another session.   *)
ReconnectHonoured ==
  \A s \in Attempts :
    (phase = "online" /\ reconnect /\ sid = s) ~> (sid # s \/ phase \in {"ended", "dead"})

(* companion_runtime.py:4 promises auto-reconnect, and the window says     *)
(* "Reconnecting..." whenever the client is not connected: a client that   *)
(* is not connected gets connected, or was told to stop.                   *)
AutoReconnect == phase \in {"trying", "waiting"} ~> phase \in {"online", "ended"}
=============================================================================
