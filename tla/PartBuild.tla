----------------------------- MODULE PartBuild -----------------------------
(***************************************************************************)
(* The build executor of one session: build_from_spec and build_named_part *)
(* of server/agents/blender_agent.py, which run one call after another,    *)
(* the part registry of server/runtime/part_registry.py they fill, and the *)
(* Blender scene their generated code changes.                             *)
(*                                                                         *)
(* Every object costs two remote calls, execute_blender_code and           *)
(* get_object_info, and each may fail; code that was given up at the       *)
(* server's timeout may still run in Blender.  Nothing is ever undone.  A  *)
(* pick is answered with the registry's entry of the object it hits.       *)
(***************************************************************************)
EXTENDS BuildSpec, FiniteSets

CONSTANTS
  Builds,      \* the build calls of the session
  Kinds,       \* "spec" for build_from_spec, "part" for build_named_part
  PartLists,   \* the part lists the agent may pass
  PickMade,    \* the registry that a pick makes when there is none
  None

Parts == UNION {Range(l) : l \in PartLists}

ASSUME BuildAssumption ==
  /\ Kinds \subseteq {"spec", "part"}
  /\ PartLists \subseteq Seq(Parts)
  /\ \A part \in Parts : part.count \in Int
  /\ PickMade \notin Builds
  /\ None \notin Builds \cup {PickMade}

VARIABLES
  call,       \* each call's kind and part list
  phase,      \* where each call is
  at,         \* the part of the list each call is at
  todo,       \* the instances of that part still to build
  target,     \* the registry each call took for that part
  asked,      \* the objects each call has asked Blender to create
  built,      \* the names each call has registered, in order
  returned,   \* the names in the registry each call returned
  registries, \* every registry made: the call each name's entry is from, or None
  current,    \* _registries[key], or None
  scene,      \* the call whose code made the object of each name, or None
  late        \* code the server gave up and Blender has yet to run, with its call

callVars == <<call, phase, at, todo, target, asked, built, returned>>
vars == <<callVars, registries, current, scene, late>>

PartsOf(b) == call[b].parts
PartAt(b) == PartsOf(b)[at[b]]

Calls == [kind : {"spec"} \cap Kinds, parts : PartLists]
         \cup [kind : {"part"} \cap Kinds, parts : {l \in PartLists : Len(l) = 1}]
Names == UNION {Range(InstancesOf(part)) : part \in Parts}
Registries == Builds \cup {PickMade}
NoEntries == [n \in Names |-> None]
Phases == {"waiting", "parts", "executing", "asking", "ok", "failed"}

TypeOK ==
  /\ call \in [Builds -> Calls]
  /\ phase \in [Builds -> Phases]
  /\ at \in [Builds -> Nat]
  /\ \A b \in Builds : at[b] \in 1 .. Len(PartsOf(b)) + 1
  /\ target \in [Builds -> Registries \cup {None}]
  /\ \A b \in Builds : phase[b] \in {"executing", "asking"} =>
       target[b] # None /\ todo[b] # <<>>
  /\ asked \in [Builds -> SUBSET Names] /\ returned \in [Builds -> SUBSET Names]
  /\ built \in [Builds -> Seq(Names)] /\ todo \in [Builds -> Seq(Names)]
  /\ registries \in [Registries -> [Names -> Builds \cup {None}]]
  /\ current \in Registries \cup {None}
  /\ scene \in [Names -> Builds \cup {None}]
  /\ late \subseteq Names \X Builds

Init ==
  /\ call \in [Builds -> Calls]
  /\ phase = [b \in Builds |-> "waiting"]
  /\ at = [b \in Builds |-> 1]
  /\ todo = [b \in Builds |-> <<>>]
  /\ target = [b \in Builds |-> None]
  /\ asked = [b \in Builds |-> {}]
  /\ built = [b \in Builds |-> <<>>]
  /\ returned = [b \in Builds |-> {}]
  /\ registries = [r \in Registries |-> NoEntries]
  /\ current = None
  /\ scene = [n \in Names |-> None]
  /\ late = {}

-----------------------------------------------------------------------------
(* The scene *)

InScene(n) == scene[n] # None

UserDeletes(n) ==
  /\ InScene(n)
  /\ scene' = [scene EXCEPT ![n] = None]
  /\ UNCHANGED <<callVars, registries, current, late>>

(* Code the server has given up runs.                                      *)
LateCodeRuns(n, b) ==
  /\ <<n, b>> \in late
  /\ scene' = [scene EXCEPT ![n] = b]
  /\ late' = late \ {<<n, b>>}
  /\ UNCHANGED <<callVars, registries, current>>

-----------------------------------------------------------------------------
(* The calls *)

GoTo(b, to) == phase' = [phase EXCEPT ![b] = to]

Running(b) == phase[b] \in {"parts", "executing", "asking"}

(* The agent awaits a call before it makes the next.                       *)
Quiet == \A b \in Builds : ~Running(b)
Starts(b) == phase[b] = "waiting" /\ Quiet

(* The entry pick_object_at adds to an object it has hit, or None: it      *)
(* looks the name up in the registry of the session.                       *)
EntryOf(n) == IF current = None THEN None ELSE registries[current][n]

(* pick_object_at changes one thing: get_part_registry makes the registry  *)
(* of the session when there is none.                                      *)
Pick ==
  /\ Quiet
  /\ current = None
  /\ current' = PickMade
  /\ registries' = [registries EXCEPT ![PickMade] = NoEntries]
  /\ UNCHANGED <<callVars, scene, late>>

(* Fault: a registry that is there is kept.                                *)
TableFor_Kept(b) == IF call[b].kind = "part" \/ current # None THEN current ELSE b

(* build_from_spec puts an empty registry in the table, build_named_part   *)
(* leaves the one that is there.                                           *)
TableFor(b) == IF call[b].kind = "spec" THEN b ELSE current

Start(b) ==
  /\ Starts(b)
  /\ GoTo(b, IF Normalizes(PartsOf(b)) THEN "parts" ELSE "failed")
  /\ current' = IF Normalizes(PartsOf(b)) THEN TableFor(b) ELSE current
  /\ UNCHANGED <<call, at, todo, target, asked, built, returned, registries, scene,
                 late>>

(* get_part_registry.                                                      *)
RegistryFor(b) == IF current = None THEN b ELSE current

(* build_named_part, for the next part.                                    *)
BeginPart(b) ==
  /\ phase[b] = "parts"
  /\ at[b] <= Len(PartsOf(b))
  /\ current' = RegistryFor(b)
  /\ target' = [target EXCEPT ![b] = RegistryFor(b)]
  /\ IF ExpandsAlone(PartAt(b))
       THEN GoTo(b, "executing") /\ todo' = [todo EXCEPT ![b] = InstancesOf(PartAt(b))]
       ELSE GoTo(b, "failed") /\ UNCHANGED todo
  /\ UNCHANGED <<call, at, asked, built, returned, registries, scene, late>>

(* execute_blender_code for the next instance, and the three ways it ends. *)
Executes(b) ==
  /\ phase[b] = "executing"
  /\ asked' = [asked EXCEPT ![b] = @ \cup {Head(todo[b])}]
  /\ UNCHANGED <<call, at, todo, target, built, returned, registries, current>>

ExecuteSucceeds(b) ==
  /\ Executes(b)
  /\ scene' = [scene EXCEPT ![Head(todo[b])] = b]
  /\ GoTo(b, "asking")
  /\ UNCHANGED late

(* The code raises: before it removed the object it replaces, after that,  *)
(* or when the new one was there.                                          *)
ExecuteFails(b) ==
  /\ Executes(b)
  /\ \E x \in {scene[Head(todo[b])], None, b} :
       scene' = [scene EXCEPT ![Head(todo[b])] = x]
  /\ GoTo(b, "failed")
  /\ UNCHANGED late

ExecuteTimesOut(b) ==
  /\ Executes(b)
  /\ late' = late \cup {<<Head(todo[b]), b>>}
  /\ GoTo(b, "failed")
  /\ UNCHANGED scene

(* Fault: a part is registered when its last object is built.              *)
ToRegister_AtEnd(b) == IF Len(todo[b]) = 1 THEN InstancesOf(PartAt(b)) ELSE <<>>

ToRegister(b) == <<Head(todo[b])>>

(* Fault: an entry that is there is kept.                                  *)
Entered_Kept(entries, names, b) ==
  [n \in Names |-> IF n \in names /\ entries[n] = None THEN b ELSE entries[n]]

(* PartRegistry.add replaces the entry of an earlier build.                *)
Entered(entries, names, b) == [n \in Names |-> IF n \in names THEN b ELSE entries[n]]

(* get_object_info answers, and register_tool_result files the answer.     *)
Register(b) ==
  /\ phase[b] = "asking"
  /\ InScene(Head(todo[b]))
  /\ registries' =
       [registries EXCEPT ![target[b]] = Entered(@, Range(ToRegister(b)), b)]
  /\ built' = [built EXCEPT ![b] = @ \o ToRegister(b)]
  /\ todo' = [todo EXCEPT ![b] = Tail(@)]
  /\ IF Len(todo[b]) = 1
       THEN GoTo(b, "parts") /\ at' = [at EXCEPT ![b] = @ + 1]
       ELSE GoTo(b, "executing") /\ UNCHANGED at
  /\ UNCHANGED <<call, target, asked, returned, current, scene, late>>

AskFails(b) ==
  /\ phase[b] = "asking"
  /\ GoTo(b, "failed")
  /\ UNCHANGED <<call, at, todo, target, asked, built, returned, registries, current,
                 scene, late>>

NamesIn(r) == {n \in Names : registries[r][n] # None}

(* The call returns its registry: its own, or the one it added to.         *)
Return(b) ==
  /\ phase[b] = "parts"
  /\ at[b] > Len(PartsOf(b))
  /\ GoTo(b, "ok")
  /\ returned' =
       [returned EXCEPT ![b] = NamesIn(IF call[b].kind = "spec" THEN b ELSE target[b])]
  /\ UNCHANGED <<call, at, todo, target, asked, built, registries, current, scene,
                 late>>

(* The connection of the session ends: the call in progress fails, and the *)
(* cleanup clears the registry.  The scene is the user's and stays.        *)
SessionEnds ==
  /\ current # None
  /\ current' = None
  /\ phase' = [b \in Builds |-> IF Running(b) THEN "failed" ELSE phase[b]]
  /\ UNCHANGED <<call, at, todo, target, asked, built, returned, registries, scene,
                 late>>

-----------------------------------------------------------------------------
Next ==
  \/ Pick
  \/ SessionEnds
  \/ \E b \in Builds : \/ Start(b) \/ BeginPart(b) \/ Register(b) \/ AskFails(b) \/ Return(b)
                       \/ ExecuteSucceeds(b) \/ ExecuteFails(b) \/ ExecuteTimesOut(b)
  \/ \E n \in Names : UserDeletes(n)
  \/ \E n \in Names, b \in Builds : LateCodeRuns(n, b)

Spec == Init /\ [][Next]_vars

-----------------------------------------------------------------------------
(* Properties *)

(* A call that returned reports the objects of its spec: build_from_spec   *)
(* those and none of an earlier build, build_named_part at least those.    *)
OkReturnsItsParts ==
  \A b \in Builds : phase[b] = "ok" =>
    LET objects == ObjectsOf(PartsOf(b))
    IN  IF call[b].kind = "spec" THEN returned[b] = objects ELSE objects \subseteq returned[b]

(* However a call ends, at most one object it had Blender make, or may     *)
(* have, is not in a registry: the one it was at.                          *)
AtMostOneUnregistered ==
  \A b \in Builds : Cardinality(asked[b] \ Range(built[b])) <= 1

(* What a pick says of an object some build made is about that object: its *)
(* entry is from the call whose code made it.  The exceptions are objects  *)
(* of calls that failed, which replace others behind the registry's back,  *)
(* and the one that is being asked about.                                  *)
PicksDescribeTheObject ==
  \A n \in Names : InScene(n) /\ EntryOf(n) # None =>
    \/ EntryOf(n) = scene[n]
    \/ phase[scene[n]] = "failed"
    \/ phase[scene[n]] = "asking" /\ Head(todo[scene[n]]) = n

(* spec_agent.py:41 and the check of expand_part_instances want names to   *)
(* be unique after count expansion: a call that returned built no object   *)
(* twice.                                                                  *)
BuildsEachNameOnce ==
  \A b \in Builds : phase[b] = "ok" => IsInjective(built[b])
=============================================================================
