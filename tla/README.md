# A TLA+ development of Forge

Forge lets a user speak to an agent that builds and edits objects in Blender,
and point at them with a hand in front of the camera. This directory holds TLA+
models of the parts of it where several threads, tasks or machines meet, the
TLC configurations that check them, and proofs about each of the models. The
models are translated from the code under `server/`, `client/` and `addon/`;
`PROJECT.json` names the lines each definition stands for.

## 1. Inventory

Three programs take part:

    server (asyncio, one loop)  <- WebSocket ->  companion app (client)  <- TCP ->  Blender addon
    ADK agents, sessions                         event loop thread,                 main thread,
    session bridge, audio gate,                  worker threads, main thread,       accepting thread,
    part registry                                camera thread                      a thread per client

| Part | State it keeps | Operations | Interacts with | What is hard, and what makes it right |
|---|---|---|---|---|
| Session bridge `server/runtime/session_bridge.py` | `_bridges` per (user, session), `pending_calls` of Futures per bridge | `register_bridge`, `unregister_bridge`, `call_local_tool`, `handle_client_message` | agents' tools above, the WebSocket below | replacement and cleanup while calls wait, timeout against a late answer: every call ends once, with its own answer, and leaves nothing behind |
| Session handler `server/server.py` | per session id: bridge, gate, cursor, registry, ADK session | `ws`: set up, upstream, downstream, cleanup | all of the server | a late cleanup against the next connection; a failing setup: who serves owns its entries, who left, left none |
| Audio gate `server/callbacks/handoff_guard.py`, `server/live/` | `allow_audio_upload`, `reopen_task`, the live queue | close on a handoff, reopen after a delay, clear on an error | microphone of the client, downstream | overlapping timers, audio in flight: no stale audio to the next agent, nobody muted for good |
| Companion runtime `client/companion_runtime.py` | `_stop_evt`, `_stop_async`, `_reconnect_async`, the session id | start, stop, reconnect, five tasks per connection | handler, state, executor | a stop or reconnect at any moment; errors: both are obeyed |
| Local executor `client/local_executor.py` | the last 256 answered ids | `handle_message`, `_execute` in a worker thread | receiver, Blender connection | repeated calls, lost connections, head-of-line blocking: a remembered call is not run again |
| Blender connection `client/blender_bridge.py` | `self.sock` | `connect`, `disconnect`, `send_command` | addon; executor's threads and main thread share it | no lock, no framing, and a timeout of its own below the server's: whose reply is read, and what "ok" may be said of |
| Addon server `addon/forge_addon.py` | `running`, `socket`, `server_thread`, `forge_server_running` per scene | start, stop, accept, handle, timers, autostart | launcher, connection, MCP bridge | threads that outlive stop, failed starts: listeners that can be stopped, commands that are answered |
| Launcher `client/blender_launcher.py` | - | `ensure_blender_running` | addon | a busy Blender does not answer the probe |
| Build executor `server/agents/blender_agent.py`, registry `server/runtime/part_registry.py` | the parts of a session | `normalize_build_spec`, `expand_part_instances`, `build_named_part`, `build_from_spec` | session bridge, Blender's scene | failures in the middle, late code, picks answered from the registry: registry against scene |
| Hand cursor `client/cursor/` | `_latest`, `screen_to_region` | camera loop, anchoring, `region_point` | executor, main thread | a hand that is gone, failed anchoring: what a pick is filled from |
| Companion window `client/companion_app.py`, calibration markers `addon/forge_addon.py` | the calibration state; the markers, their timer and its flag | `recalibrate`, `stop`; show, clear, redraw | anchoring, whose loop pumps the window's events; the Blender connection | an anchoring inside another, overlay commands that fail: what the window says, and spots that go away |
| Companion state and traces; echo suppression; MCP bridge; agents' prompts; addon handlers | see `PROJECT.json` | | | modelled in part or not at all, with the reason there |

`PROJECT.json` lists the hazards, each at its line with the properties that
cover it, or the reason that none does.

## 2. Modules

### ToolCall, SessionBridge, SessionBridgeProofs

`ToolCall` is what an agent may expect of a remote tool: an invocation ends at
most once, and with success only if a body ran and succeeded. `SessionBridge`
is the code. The server has one event loop, so a step is the code between two
suspension points. `_bridge_lock` is never held across an await, so looking up,
registering and removing are single steps, and `call_local_tool` runs without a
break up to its first send. The position `pc` of a call is the await it is
suspended in; `fut` is its Future; `pending` is `pending_calls`; `bridges` is
`_bridges`; `legs` says which of `upstream` and `downstream` still runs, since
`gather` waits for both. A send on a dead socket raises or is lost. On Python
3.12 and later `wait_for` can raise its timeout although the Future was set in
the same turn of the loop, so `Timeout` is possible then too. Answers come for
calls that are over, and twice. A call that was suspended in its first trace
while its bridge was replaced sends its `tool_call` all the same, and the client
may run what nobody waits for: the model has this. Cancellation of the task
that awaits the tool is not modelled. `upstream` may end by an exception while
the socket is open, since what is not a JSON object fails in `payload.get`;
`UpstreamEnds` has no guard on the socket for that reason.

`SetupFails` stands for an exception at server.py 76-110, after the bridge was
registered and before the `try` whose `finally` removes it. Such a bridge stays
registered, which `RegisteredIsLive` and `NothingLeftBehind` state as their one
exception.

### AudioGate

One connection: downstream with its handoffs, the gate, one timer task per
handoff, the live queue, the frames under way to the client, the client's
microphone. What stands inside `async with gate.lock` does not suspend and is
one step; sends queue in order on the `send_lock`. While downstream reports an
error only the server's end of the gate has been opened; `GatesAgree` excludes
that moment by name. `NoAudioBehindClosedGate` and the loss of the backlog are about
audio that was queued for the agent before; a chunk of it that `upstream` reads
after the reopening passes (section 6). `close` of the queue is not modelled.

### SessionLifecycle

The client's thread (`phase`), its events, and the handlers of all connections
it ever opened, each at its own place. `owner` holds, for each of the five
tables of the server, whose entry is under a session id. Only the bridge's
cleanup asks whose it is, so ownership rests on the client's rotation of its
ids: the mutant that keeps the id breaks `ServingOwnsItsKey`. `connected` is the
flag the window shows; the thread sets it, the `finally` of an attempt clears it,
and so does `stop()` after the 3 s it waits for the thread, which may still be
connecting then (`StopReturns` can come at any time after the stop). The `finally` of a
handler is several awaits for the entries of one session; it is one step here,
since no other handler has that session's entries. `stop` or
`request_reconnect` after the thread has ended raise inside asyncio and are not
modelled.

### ClientRelay

One connection as its frames arrive: `_receiver_loop` reads one at a time and
awaits the executor, whose command runs in a worker thread. The server is taken
to be as regular as it can be (one call at a time; speech and interruptions
only while none is open; a call is given up after 20 s without notice), so what
the runs find does not depend on an odd server. `MaxRecent` stands for 256.

### BlenderLink

`BlenderConnection` step by step: a step lies between two uses of `self.sock`
or two socket calls. `worker` is a thread of the executor, `main` the thread
that recalibrates, and both use one connection without a lock. A socket that no
variable refers to any more is closed, as CPython does. Messages are read whole,
but several may come in one read, and then never parse. The class's docstring
says "One command in flight at a time", and no lock enforces it: the history
variable `overlapped` notes that a `send_command` began while another was in
progress. `connect()` tests `self.sock` and stores a new socket without a lock, so it may
replace one that another thread has stored in between (`MakeSocket`). A command the
caller refuses before `send_command` ends without one (`Refused`). `OwnReply` and `StreamsParse` hold as long as it has not, which is
what the callers must see to; `AtMostOnce` and `EveryCommandEnds` hold whatever
overlaps. Who the callers are, the next module says.

### CommandPath

`BlenderLink` with those who use it, and the two timeouts between the agent and
Blender. The agent makes a call, the server gives it up after 20 s
(`GiveUp`), and the agent may make it again; frames wait in `inbox` while the
receiver awaits `doing`; the worker thread may be 180 s in `send_command`; its
answer (`Results`) reaches a call that is open or one that is over. A call that
`handle_message` refuses (no tool, arguments that are no object, no calibrated cursor) is
answered without a thread (`Refuse`). Three more
things touch the socket: the worker that a lost connection to the server leaves
behind (`LoseConnection` cancels the receiver, and cannot cancel the thread), the
commands of `recalibrate` on the main thread (`WindowSends`), and the
`disconnect()` at the end of the window's `stop()`. `line` is a history variable.

`ReceiverTakesTurns` is the answer to the condition of `OwnReply`: the receiver by
itself never makes two commands overlap, however many calls the server has given
up, and it is only the other two that do. When they do, the property
`OkMeansItRan` has nothing to say, and rightly: in the model a call can be
answered with the reply to the window's command. To get there, press
Recalibrate while a tool runs.

### AddonServer

`ForgeServer` and the launcher, over up to two Blender processes that compete
for one port. A server is an object: `forge` says which one the addon can
reach, `running`, `listening` and `loop` are its flag, socket and thread.
`link` is where the handler thread of a connection is. Each scene has a
`forge_server_running` of its own.

The accepting thread ends in good order when the server has stopped (`LoopEnds`), and
it also breaks off at any other `OSError` of `accept`, while `running` and the socket
stay as they were (`AcceptFails`). Clients are then queued by the kernel and never
answered, the launcher's probe among them, until Disconnect closes the socket. A
handler thread that cannot be started leaves its client with an open socket nobody
reads (`"held"`) until the next client comes. `CommandsAnswered` names these two cases
as the ones in which a client may wait for good, and its mutant ends the thread in
good order while the server runs. `ListenersAreReachable` says that such a server can
still be stopped.

`BlenderLink` and `AddonServer` share the
handler threads; the first looks at the bytes, the second at start and stop.
The model has behaviours no property forbids, because nothing in the code rests
on them: the panel says "Listening on" after a start that failed, a connected
client has one more command run after Disconnect, several clients are served at
once, and a launcher that spawned a Blender may have been answered by another.

### BuildSpec, PartBuild

`BuildSpec` has the pure part: which lists `normalize_build_spec` accepts and
what `expand_part_instances` makes of them. Names are sequences, `<<"fin", 1>>`
for `fin_1`. `PartBuild` runs build calls over it: each object costs two remote
calls, each may fail, before or after the code removed what it replaces, and
code that was given up may run later. An entry of a registry, and an object of
the scene, is the call it comes from: enough to tell the entry of an object from
that of one which had its name before. `pick_object_at` answers with the registry's
entry (`EntryOf`) and makes a registry when there is none (`Pick`); the end of a
session takes the registry away and leaves the scene. Materials, geometry,
bounding boxes, parameters and parents are left out (a part whose parent comes
later in the list is built unattached; no step depends on it).

`PicksDescribeTheObject` has two exceptions, both of them real: the code of a
call that failed may have replaced an object, at once or late, and the registry
still describes the one before; and between the two remote calls of an object
nothing is registered yet. No tool of the agent reads the registry in that
second case, as tools run one after another.

`ExecuteFails` is code that raises before it removed what it replaces, after that, or
when the new object was there.

That they do (`Starts`, `Pick`) is an assumption on ADK, which awaits the calls of a
message in turn in the version the project asks for at least
(`google-adk>=0.2.0`); one that runs them concurrently breaks what the registry
promises. Without the guard TLC finds two `build_from_spec` calls that file their parts
in each other's registry and both return ok, and picks described as the wrong
call's object; `AtMostOneUnregistered` still holds.

### CursorPick

The camera thread's latest sample, the main thread's anchorings, the event
loop's picks and Blender's markers. The screen has one dimension and cursors are
not smoothed. `get_fallback`, with the age limit, is only reached before the
first hand of a session, when there is no cursor to fall back to. The hand moves
beyond the part of the picture that maps to the screen.

The loop of `calibrate_viewport_anchors` draws the dot, and `pump()` of the overlay
dispatches every event that waits, a click on Recalibrate among them. So
anchorings nest: `frames` is the stack, only the innermost runs, and when it
returns, the one outside it goes on with its own corner and its own deadline.
`MaxNest` bounds the stack. Whatever the loop announces makes the window say
"uncalibrated" (`Announce`), also after an inner anchoring that succeeded. A press of
Recalibrate sets the state, asks for the view and shows the overlay in one step
(`RecalibrateBegins`): in between the main thread only waits for Blender, and what
another thread does then it could as well do before or after. The markers in Blender are a mode, whether their time
is up (`due`), the flag and the registration of the redraw timer, and what the
viewport shows (`painted`). A command of the overlay may fail, which is only
reported.

## 3. Runs

Bounds are chosen so that each hazard the module has can happen with the next
actor still there to suffer from it.

| Run | Bounds | Shows |
|---|---|---|
| `bridge` | 3 connections, two of them of one key and one of another, 1 call | No call leaks, strands, ends twice or returns what is not the client's answer, over replacement, cleanup, timeout and late answers; the bridge implements `ToolCall`, by which it always ends. The old and the new connection and a stranger suffice to go wrong about who is registered. That calls do not disturb each other is proved for any number of them (section 5) |
| `gate` | 3 handoffs, 2 chunks, 2 contents | Overlapping handoffs and stale audio; the client's microphone reopens. A third handoff overlaps a timer that was itself a replacement |
| `lifecycle` | 3 connections | Ownership of the tables; stop and reconnect are obeyed, and the window does not say "Connected" of what is over. A third connection meets the late cleanup of the first and the second |
| `relay` | 3 calls, memory of 2, 2 frames under way, 2 chunks and 2 interruptions, 1 repetition | The memory evicts; answers, repetitions and playback. Two chunks are one that plays and one behind it |
| `link` | 2 workers and the main thread, 2 commands, 2 sockets, 1 lost connection | From the agent's call to Blender and back: a command that follows one that failed, that the server gave up or that another thread runs into. A socket for each command is as many as can be made; the second worker is for the call after the connection that left the first behind |
| `addon` | 2 Blenders, 2 servers, 2 scenes, 1 connection, the launcher | Listeners can be stopped and only Disconnect stops them; commands are answered unless the accepting thread broke off or a handler thread could not be started. Two servers are two Blenders' or one's before and after Disconnect |
| `build` | 2 calls over 10 lists | A call that returns reports its own objects; at most one object is unregistered after a failure; a pick is described as what it hit. The second call meets what the first left, its late code included (143,088 states) |
| `cursor` | 4 positions, region of 4, ages 0 and 1, 2 anchorings | Mappings are used whole, picks stay in the region, a window that says calibrated has a mapping, and the spots go. An anchoring inside another is the first depth at which results can mix. The positions are the fewest in which corners can be too close, far enough, and either way round |

Four more runs show a disagreement of the code with a line of its own
documentation, and TLC finds it violated: `relay_bargein`, an interruption that
waits for a tool; `lifecycle_reconnect`, errors that end the reconnecting;
`build_names`, names that collide after expansion; `cursor_recent`, picks from a
hand that is gone. `findings` quotes the lines.

All type invariants are proved (section 5). Those of `SessionBridge`, `ClientRelay`,
`BlenderLink`, `CommandPath`, `SessionLifecycle`, `PartBuild` and `AddonServer` are no
longer among the runs' properties; that of `AudioGate`, on which the functions of its
queue rest, and that of `CursorPick`, which says that a pick is inside the region, are.

Runs whose system may stop (a call list is used up, the user does nothing more)
say `CHECK_DEADLOCK FALSE`. Symmetry is used in the two runs of `PartBuild`
alone: no definition names a build, and they check no liveness property.

## 4. Fairness

| Module | Assumed | Why the code justifies it |
|---|---|---|
| SessionBridge | WF of each call's own step | the loop runs what is ready, `wait_for` fires after 20 s; a send ends because the WebSocket's keepalive closes a dead peer. Nothing is assumed of the client or of the handler |
| AudioGate | WF of each timer, of the client's handling of gate frames, of closing the socket | `asyncio.sleep` ends; the receiver reads while connected; `ws` ends in the close |
| SessionLifecycle | WF of the client thread's step | the thread is never blocked for good: connecting and closing time out. Network, server and user are free |
| ClientRelay | WF of the loop, and of the end of each worker thread | `send_command` has a timeout of 180 s |
| BlenderLink, CommandPath | WF of each client thread | the same timeout. Blender's main thread, the server, the receiver and the window need not do anything |
| CursorPick | WF of the redraw timer, of the markers' expiry, and of the failing of an anchoring | Blender runs due timers; 45 s and 1.6 s pass; every turn of the anchoring's loop looks at its deadline. Camera, hand and user owe nothing. `SpotsGo` is about a user who presses Recalibrate finitely often |
| AddonServer | WF of the server's threads (not of the failures of `accept`), SF of due timers, WF of the end of a user's operation | `accept` times out each second; Blender runs due timers whenever its main loop turns, which it does between the user's operations; that these end is an assumption on the user, and only `CommandsAnswered` needs it |

## 5. Proofs

Each `...Proofs` module extends the module it is about and proves its theorems for
every value of the constants that the module's ASSUME allows: any number of
connections, calls, threads, sockets, handoffs, servers or positions, any part
lists, any size of a memory. Each has the same shape: an invariant that
strengthens the properties until it is inductive, a lemma for the initial
states, a lemma for a step with one case for each action, and the properties as
consequences. Type correctness is part of every such invariant. Every safety
property that a passing run checks is stated by one of these theorems.

| Module | Proved | The strengthening, and why it is needed |
|---|---|---|
| SessionBridgeProofs | the four invariants and three of the action properties of `bridge`; `RefinesToolCall`, the refinement of the safety part of `ToolCall`; `CallsRunOut` | tables hold only calls inside the `try`, deregistered bridges hold none, a key's bridge has not been cleaned up; answers under way were sent. Without them a waiting call need not be in the table that is looked into |
| AudioGateProofs | `GatesAgree`, `LatestTimerReopens`; `TypeOK`, `NoAudioBehindClosedGate`, `ContentsInOrder` with `BacklogIsAudio`; `NeverMutedForGood` | one timer sleeps at a time, the gate knows which, and it is the latest handoff's; a linked connection is registered. For the queue: what the loop over it has kept after so many requests is what was content among them, in their order; contents are numbered as they are sent |
| CommandPathProofs | `Implements` (CommandPath implements BlenderLink), `OwnReply`, `StreamsParse`, `AtMostOnce`, `ReceiverTakesTurns`, `NoOvertaking`, `OkMeansItRan`; `PathKeepsThePromise`, the refinement of `ToolCall` by the whole path; `CommandsRunOut` | for at most once: a command is in one place at a time, on one wire or with one timer, and not yet run there. For the replies: until two commands overlap, a socket carries at most one message, the current command's. For the path: where the calls are, in the order they were made |
| ClientRelayProofs | `MemoryConsistent`, `NoStaleSpeech`, `NotRerun`; `EveryCallIsFollowed`; `BargeInWaitsForAbandonedCalls` | what is remembered is the end of the history of answers; the interrupts on their way date the speech between them, which needs a generation for every position of the stream; the awaited call is the one that runs, no call is answered before it is made, and interrupts are ahead of the call that is made after them |
| SessionLifecycleProofs | `ServingOwnsItsKey`, `NothingLeftBehind`, `ShownTruly`; `NoSharedKey`, `LeakIsForGood`; `StopIsFinal`, `EndedForGood`, `ReconnectIsKept` | keys are fresh, so an entry under a key can only be that connection's; in which stages of its handler it exists, table by table |
| PartBuildProofs | `OkReturnsItsParts`, `AtMostOneUnregistered`, `PicksDescribeTheObject`; `BuildsInOrder`, `TheMissingCheckIsTheCause`, `AloneIsChecked`, `CheckOfOnePart` | one call at a time; what it made is registered but for the object it is at; what it has yet to build is in its list; late code is of failed calls only. For the order: what is built and what is left make up the expansion of the list |
| CursorPickProofs | `TypeOK` (a pick is in the region), `AnchorsAcceptedWhole`; `NoSpotsWithoutATimer`, `SpotsAreTakenAway` | inductive with the types, in which a frame past its first corner has one; for the spots, the flag of the redraw timer says that there is one |
| AddonServerProofs | `ListenersAreReachable`, `RepliesAreNotLost`, `StopsOnlyWhenTold`; `CommandsAreServed`, `CommandsAreKept` | a server that is open belongs to a Blender; a command that has a timer was read from an open connection; the accepting thread of a running server is there or has broken off, and of a connection that has a handler thread the server did not; one socket listens |

Three kinds of theorem go beyond the properties of the runs:

- What a liveness property needs besides the fairness. For each of the eight, a
  theorem says that nothing is lost on the way and, where the end takes several
  steps, that each of them counts down to it: `CallsRunOut` (`ImplementsToolCall`),
  `NeverMutedForGood` (`ClientReopens`), `CommandsRunOut` (`EveryCommandEnds`),
  `EveryCallIsFollowed` (`EveryCallAnswered`), `StopIsFinal` with `EndedForGood`
  (`StopIsObeyed`), `ReconnectIsKept` (`ReconnectHonoured`), `SpotsAreTakenAway`
  (`SpotsGo`), `CommandsAreKept` (`CommandsAnswered`). What they leave to TLC is that
  the steps are enabled, and that fair steps come.
- What a finding comes from. `BargeInWaitsForAbandonedCalls`: an interruption waits
  for a tool only if the server has given that call up. `TheMissingCheckIsTheCause`:
  a build makes a name twice exactly if `expand_part_instances` would have refused
  the whole list, for any list; `AloneIsChecked` and `CheckOfOnePart` say why nobody
  notices with single parts. `LeakIsForGood`: the bridge of a failed setup is never
  removed.
- `PathKeepsThePromise`: the agent's view of the whole path (receiver, worker
  thread, socket, Blender's main thread, two timeouts, lost connections, the window)
  is `ToolCall`, which the server's half implements by itself, up to the first two
  commands that overlap. Without that condition TLC finds it violated, in the way of
  section 6. `CommandPath` does not say whether a body raised; a run counts as `"ok"`
  there.

Induction over data cannot cite the library's induction theorems, which take an
operator as a parameter. It goes over sets: the numbers for which a statement
fails have a least member (`WFMin`), so a set that holds 0 and every successor
holds all of them (`SetInduction`). By it a recursive function is shown to exist
(`HistoryExists`, `FlattenExists`) and what it computes is proved, for the backlog
of the queue (`BacklogIsAudio`) and the instances of a list of parts
(`BuildsInOrder`).

Assumed are the named ASSUMEs of the modules, which say that bounds are numbers
and that the null values are not among the real ones; every run evaluates those
of its module.

Only model-checked: liveness itself, since fairness and ENABLED are outside what
the prover does: the fairness of `ToolCall!Spec`, `ClientReopens`,
`EveryCommandEnds`, `EveryCallAnswered`, `StopIsObeyed`, `ReconnectHonoured`,
`SpotsGo` and `CommandsAnswered`; and the four runs that expect a violation.

## 6. Not modelled

- A command of the overlay that timed out at the window and runs in Blender later:
  `Overlay` runs at once or never. Markers shown that late are a case of their own, which
  their time and the timer end like any other.
- Real time: delays are orders that may happen or not. So the chunk of audio that
  takes longer than the handoff's delay is in the model and no property forbids it.
- The content of messages, audio, geometry, prompts and traces; AppKit and drawing.
- The handlers of the addon but for the markers and what a build asks: each is one
  sequential call into `bpy`.
- Echo suppression: the comparison is pure, and the text it compares with is read
  from ADK's copy of the session state. Whether what server.py 277 and 298 write
  reaches that copy is decided in ADK.
- The MCP bridge: one thread that blocks in a probe, perhaps a new connection, and
  the command. It is one more client of `AddonServer`, over the connection that
  `BlenderLink` has.
- The four-point calibration, which nothing starts, and the smoothing of the cursor.
- Tools that run concurrently (see `PartBuild` above).
- Muting. (What is captured while muted and still in the queue when the user
  unmutes is sent; nothing in the repository says it should not be.)
- The queue of local traces. A trace that is recorded while the session id rotates
  may be sent over the next session's connection under the old id.
- `update`, `update_params`, `remove` and `from_json` of the part registry: no tool
  calls them.
- That tools of a session which ends fail with it is taken from how ADK closes
  `run_live`; a tool that survived the cleanup would make a registry again, which
  nobody clears.

What was met while modelling and is no property, because no line of the code or
its documentation rests on it:

- Recalibrate pressed while a tool runs can make the agent's call "ok" with the reply
  to the window's command, or the other way round. The docstring of
  `BlenderConnection` (blender_bridge.py 47) says "One command in flight at a time",
  which is left to the callers, and `ReceiverTakesTurns` names the callers who do not
  see to it.
- The markers are shown for 45 s, and two anchoring targets may take 30 s each; the
  failure of an anchoring inside another clears the markers of the outer one, which
  goes on.
- An `OSError` of `accept` on the open socket (forge_addon.py 236, for want of file
  descriptors for one) ends the accepting thread of a server that goes on calling itself
  running. Connect then says that it runs already, and only Disconnect and Connect help.
- Code of a failed build that runs late replaces an object behind the registry's
  back, and picks go on describing the one before.
- Opening another file in Blender drops the redraw timer and leaves the flag that
  says it runs, so that later markers are not animated.

## 7. Plan

Done: SessionBridge with ToolCall; AudioGate; BlenderLink and, over it, CommandPath;
ClientRelay; SessionLifecycle; BuildSpec and PartBuild; CursorPick with the nested
anchorings and the markers; AddonServer; and the proofs of section 5.

Left, in this order:
1. the queue of local traces and muting in SessionLifecycle and AudioGate, once
   there is something they promise;
2. a refinement between modules that share a part: the connections of `AddonServer`
   are the sockets of `BlenderLink`, the calls of `ClientRelay` the calls of
   `SessionBridge`; each pair is now tied by words only;
3. file loads in Blender, for the timers that do not survive them;
4. `BuildsEachNameOnce` as a positive property, should the expansion be done over
   the whole list.
