-------------------------- MODULE PartBuildProofs --------------------------
(***************************************************************************)
(* Proofs about PartBuild, for any calls and part lists: what a call       *)
(* returns, what a failed one leaves behind, that a pick is told about the *)
(* object it hit, and which lists have the parts of a build collide.       *)
(***************************************************************************)
EXTENDS PartBuild, TLAPS, FiniteSetTheorems, SequenceTheorems,
        WellFoundedInduction

InPart(b) == phase[b] \in {"executing", "asking"}

(* Nothing of the call's has reached a registry.                           *)
Fresh(b) == phase[b] = "waiting" \/ (phase[b] = "parts" /\ at[b] = 1)

OneAtATime == \A b, c \in Builds : Running(b) /\ Running(c) => b = c

(* The call in progress adds to the registry of the session.               *)
Placed ==
  \A b \in Builds : Running(b) =>
    /\ InPart(b) \/ at[b] > 1 => target[b] = current /\ current # None
    /\ call[b].kind = "spec" => current = b
    /\ InPart(b) => at[b] <= Len(PartsOf(b))

Untouched ==
  \A b \in Builds :
    /\ Fresh(b) => registries[b] = NoEntries /\ asked[b] = {} /\ built[b] = <<>>
    /\ phase[b] = "waiting" => current # b /\ at[b] = 1

(* What the call had made is registered, but for the object it is at.      *)
Tracked ==
  \A b \in Builds :
    /\ phase[b] = "asking" => asked[b] \subseteq Range(built[b]) \cup {Head(todo[b])}
    /\ phase[b] \notin {"asking", "failed"} => asked[b] \subseteq Range(built[b])
    /\ phase[b] = "failed" => \E n : asked[b] \subseteq Range(built[b]) \cup {n}

Objects(b, i) == Range(InstancesOf(PartsOf(b)[i]))

(* What the call has yet to build is in its list, what it built in the     *)
(* registry.                                                               *)
Progress ==
  \A b \in Builds : Running(b) =>
    /\ \A i \in 1 .. at[b] - 1 : Objects(b, i) \subseteq Range(built[b])
    /\ InPart(b) => /\ Objects(b, at[b]) \subseteq Range(built[b]) \cup Range(todo[b])
                    /\ Range(todo[b]) \subseteq Objects(b, at[b])
    /\ Range(built[b]) \subseteq ObjectsOf(PartsOf(b))
    /\ \A n \in Range(built[b]) : EntryOf(n) # None
    /\ call[b].kind = "spec" => NamesIn(b) \subseteq Range(built[b])

(* Only calls that failed leave code behind, and nothing else touches the  *)
(* object a call asks about.                                               *)
OthersFailed ==
  /\ \A n \in Names, b \in Builds : <<n, b>> \in late => phase[b] = "failed"
  /\ \A b \in Builds : phase[b] = "asking" =>
       \/ scene[Head(todo[b])] \in {None, b}
       \/ phase[scene[Head(todo[b])]] = "failed"

BuildInv ==
  /\ TypeOK /\ OneAtATime /\ Placed /\ Untouched /\ Tracked /\ Progress
  /\ OkReturnsItsParts /\ OthersFailed /\ PicksDescribeTheObject

-----------------------------------------------------------------------------
(* Lists *)

LEMMA NoneIsApart == None \notin Builds /\ None # PickMade /\ PickMade \notin Builds
BY BuildAssumption

LEMMA RangeOfAppend ==
  ASSUME NEW S, NEW s \in Seq(S), NEW x \in S
  PROVE  s \o <<x>> \in Seq(S) /\ Range(s \o <<x>>) = Range(s) \cup {x}
<1>1. s \o <<x>> \in Seq(S) /\ Len(s \o <<x>>) = Len(s) + 1 /\ Len(s) \in Nat
  OBVIOUS
<1>2. \A i \in 1 .. Len(s) : (s \o <<x>>)[i] = s[i]
  OBVIOUS
<1>3. (s \o <<x>>)[Len(s) + 1] = x
  OBVIOUS
<1>4. DOMAIN (s \o <<x>>) = 1 .. Len(s) + 1 /\ DOMAIN s = 1 .. Len(s)
  BY <1>1
<1>5. \A y : y \in Range(s \o <<x>>) <=> y \in Range(s) \/ y = x
  BY <1>1, <1>2, <1>3, <1>4 DEF Range
<1> QED BY <1>1, <1>5

LEMMA RangeOfTail ==
  ASSUME NEW S, NEW s \in Seq(S), s # <<>>
  PROVE  /\ Head(s) \in S /\ Tail(s) \in Seq(S) /\ Len(s) \in Nat /\ Len(s) > 0
         /\ Len(Tail(s)) = Len(s) - 1
         /\ Range(s) = {Head(s)} \cup Range(Tail(s))
<1>1. Len(s) \in Nat /\ Len(s) > 0 /\ DOMAIN s = 1 .. Len(s) /\ Head(s) = s[1]
  OBVIOUS
<1>2. /\ Tail(s) \in Seq(S) /\ Len(Tail(s)) = Len(s) - 1
      /\ \A i \in 1 .. Len(s) - 1 : Tail(s)[i] = s[i + 1]
  BY <1>1
<1>3. DOMAIN Tail(s) = 1 .. Len(s) - 1
  BY <1>1, <1>2
<1>4. ASSUME NEW y \in Range(s) PROVE y = Head(s) \/ y \in Range(Tail(s))
  <2>1. PICK i \in 1 .. Len(s) : y = s[i]
    BY <1>1, <1>4 DEF Range
  <2>2. CASE i = 1
    BY <2>1, <2>2, <1>1
  <2>3. CASE i # 1
    <3>1. i - 1 \in 1 .. Len(s) - 1 /\ Tail(s)[i - 1] = s[i]
      BY <2>1, <2>3, <1>1, <1>2
    <3> QED BY <3>1, <2>1, <1>3 DEF Range
  <2> QED BY <2>2, <2>3
<1>5. ASSUME NEW y \in Range(Tail(s)) PROVE y \in Range(s)
  <2>1. PICK i \in 1 .. Len(s) - 1 : y = Tail(s)[i]
    BY <1>3, <1>5 DEF Range
  <2>2. i + 1 \in 1 .. Len(s) /\ y = s[i + 1]
    BY <2>1, <1>1, <1>2
  <2> QED BY <2>2, <1>1 DEF Range
<1>6. Head(s) \in Range(s) /\ Head(s) \in S
  BY <1>1 DEF Range
<1>7. \A y : y \in Range(s) <=> y \in {Head(s)} \cup Range(Tail(s))
  BY <1>4, <1>5, <1>6
<1> QED BY <1>1, <1>2, <1>6, <1>7

(* The objects of a part are named, and there is at least one.             *)
LEMMA PartsHaveObjects ==
  ASSUME NEW part \in Parts
  PROVE  InstancesOf(part) \in Seq(Names) /\ InstancesOf(part) # <<>>
<1> DEFINE s == InstancesOf(part)
<1>1. CountOf(part) \in Int
  BY BuildAssumption DEF CountOf
<1>2. Range(s) \subseteq Names
  BY DEF Names
<1>3. CASE part.generator = "counted" /\ CountOf(part) > 1
  <2>1. s = [i \in 1 .. CountOf(part) |-> Append(part.name, i)]
    BY <1>3 DEF InstancesOf
  <2>2. DOMAIN s = 1 .. CountOf(part) /\ CountOf(part) \in Nat
    BY <2>1, <1>1, <1>3
  <2>3. s \in [1 .. CountOf(part) -> Names]
    BY <2>1, <2>2, <1>2 DEF Range
  <2>4. s \in Seq(Names)
    BY <2>2, <2>3
  <2> QED BY <2>2, <2>4, <1>3
<1>4. CASE ~(part.generator = "counted" /\ CountOf(part) > 1)
  <2>1. s = <<part.name>>
    BY <1>4 DEF InstancesOf
  <2>2. part.name \in Range(s)
    BY <2>1 DEF Range
  <2> QED BY <2>1, <2>2, <1>2
<1> QED BY <1>3, <1>4

(* The part a call is at.                                                  *)
LEMMA PartsInReach ==
  ASSUME TypeOK, NEW b \in Builds, NEW i \in 1 .. Len(PartsOf(b))
  PROVE  /\ PartsOf(b) \in Seq(Parts) /\ PartsOf(b)[i] \in Parts
         /\ i \in DOMAIN PartsOf(b)
         /\ Objects(b, i) \subseteq ObjectsOf(PartsOf(b))
<1>1. PartsOf(b) \in PartLists
  BY DEF TypeOK, Calls, PartsOf
<1>2. PartsOf(b) \in Seq(Parts)
  BY <1>1, BuildAssumption
<1>3. i \in DOMAIN PartsOf(b) /\ PartsOf(b)[i] \in Parts
  BY <1>2
<1> QED BY <1>2, <1>3 DEF Objects, ObjectsOf

LEMMA KindOfCall ==
  ASSUME TypeOK, NEW b \in Builds
  PROVE  /\ PartsOf(b) \in Seq(Parts) /\ Len(PartsOf(b)) \in Nat
         /\ call[b].kind \in {"spec", "part"}
         /\ call[b].kind = "part" => Len(PartsOf(b)) = 1
<1>1. PartsOf(b) \in PartLists /\ call[b].kind \in {"spec", "part"}
  BY DEF TypeOK, Calls, PartsOf
<1>2. call[b].kind = "part" => Len(PartsOf(b)) = 1
  BY DEF TypeOK, Calls, PartsOf
<1> QED BY <1>1, <1>2, BuildAssumption

-----------------------------------------------------------------------------
(* The invariant *)

LEMMA InitBuildInv == Init => BuildInv
<1> SUFFICES ASSUME Init PROVE BuildInv
  OBVIOUS
<1>1. TypeOK
  <2>1. \A b \in Builds : PartsOf(b) \in Seq(Parts) /\ Len(PartsOf(b)) \in Nat
    <3>1. \A b \in Builds : PartsOf(b) \in PartLists
      BY DEF Init, Calls, PartsOf
    <3> QED BY <3>1, BuildAssumption
  <2> QED BY <2>1 DEF Init, TypeOK, Phases, NoEntries, Registries
<1>2. \A b \in Builds : phase[b] = "waiting"
  BY DEF Init
<1>3. OneAtATime /\ Placed /\ Progress /\ OkReturnsItsParts /\ OthersFailed
  BY <1>2 DEF Init, OneAtATime, Placed, Progress, OkReturnsItsParts, OthersFailed, Running
<1>4. Untouched /\ Tracked
  BY <1>2, NoneIsApart DEF Init, Untouched, Tracked, Fresh, Registries
<1>5. PicksDescribeTheObject
  BY DEF Init, PicksDescribeTheObject, InScene
<1> QED BY <1>1, <1>3, <1>4, <1>5 DEF BuildInv

(* Where nothing of the calls or the registries changes.                   *)
LEMMA SceneSteps ==
  ASSUME BuildInv, UNCHANGED <<callVars, registries, current>>
  PROVE  OneAtATime' /\ Placed' /\ Untouched' /\ Tracked' /\ Progress' /\ OkReturnsItsParts'
BY ZenonT(60) DEF BuildInv, OneAtATime, Placed, Untouched, Tracked, Progress, OkReturnsItsParts, callVars,
       Running, InPart, Fresh, PartsOf, Objects, EntryOf, NamesIn

LEMMA UserDeletesKeeps ==
  ASSUME BuildInv, NEW n \in Names, UserDeletes(n)
  PROVE  BuildInv'
<1>1. UNCHANGED <<callVars, registries, current, late>> /\ scene' = [scene EXCEPT ![n] = None]
  BY DEF UserDeletes
<1>2. TypeOK'
  BY <1>1 DEF BuildInv, TypeOK, callVars, PartsOf
<1>3. OthersFailed'
  BY <1>1 DEF BuildInv, TypeOK, OthersFailed, callVars
<1>4. PicksDescribeTheObject'
  BY <1>1 DEF BuildInv, TypeOK, PicksDescribeTheObject, callVars, InScene, EntryOf
<1> QED BY <1>1, <1>2, <1>3, <1>4, SceneSteps DEF BuildInv

LEMMA LateCodeKeeps ==
  ASSUME BuildInv, NEW n \in Names, NEW b \in Builds, LateCodeRuns(n, b)
  PROVE  BuildInv'
<1>1. /\ UNCHANGED <<callVars, registries, current>>
      /\ scene' = [scene EXCEPT ![n] = b]
      /\ late' = late \ {<<n, b>>}
      /\ phase[b] = "failed"
  BY DEF LateCodeRuns, BuildInv, OthersFailed
<1>2. TypeOK'
  BY <1>1 DEF BuildInv, TypeOK, callVars, PartsOf
<1>3. OthersFailed'
  BY <1>1, SMTT(40) DEF BuildInv, TypeOK, OthersFailed, callVars
<1>4. PicksDescribeTheObject'
  BY <1>1 DEF BuildInv, TypeOK, PicksDescribeTheObject, callVars, InScene, EntryOf
<1> QED BY <1>1, <1>2, <1>3, <1>4, SceneSteps DEF BuildInv

LEMMA PickKeeps == ASSUME BuildInv, Pick PROVE BuildInv'
<1>1. /\ UNCHANGED <<callVars, scene, late>>
      /\ current = None /\ current' = PickMade
      /\ registries' = [registries EXCEPT ![PickMade] = NoEntries]
      /\ \A b \in Builds : ~Running(b)
  BY DEF Pick, Quiet
<1>2. registries \in [Registries -> [Names -> Builds \cup {None}]] /\ PickMade \in Registries
      /\ NoEntries \in [Names -> Builds \cup {None}]
  BY DEF BuildInv, TypeOK, Registries, NoEntries
<1>3. /\ registries' \in [Registries -> [Names -> Builds \cup {None}]]
      /\ \A b \in Builds : registries'[b] = registries[b]
      /\ registries'[PickMade] = NoEntries
  BY <1>1, <1>2, NoneIsApart DEF Registries
<1>4. TypeOK'
  BY <1>1, <1>2, <1>3 DEF BuildInv, TypeOK, callVars, PartsOf
<1>5. OneAtATime' /\ Placed' /\ Progress' /\ Tracked' /\ OthersFailed'
  BY <1>1 DEF BuildInv, OneAtATime, Placed, Progress, Tracked, OthersFailed, Running, callVars
<1>6. Untouched'
  BY <1>1, <1>3, NoneIsApart DEF BuildInv, Untouched, Fresh, callVars
<1>7. OkReturnsItsParts'
  BY <1>1 DEF BuildInv, OkReturnsItsParts, callVars, PartsOf
<1>8. PicksDescribeTheObject'
  BY <1>1, <1>3, NoneIsApart DEF PicksDescribeTheObject, EntryOf, NoEntries
<1> QED BY <1>4, <1>5, <1>6, <1>7, <1>8 DEF BuildInv

LEMMA SessionEndsKeeps == ASSUME BuildInv, SessionEnds PROVE BuildInv'
<1>1. /\ UNCHANGED <<call, at, todo, target, asked, built, returned, registries, scene, late>>
      /\ current' = None
      /\ phase' = [b \in Builds |-> IF Running(b) THEN "failed" ELSE phase[b]]
  BY DEF SessionEnds
<1>2. \A b \in Builds : \/ Running(b) /\ phase'[b] = "failed"
                        \/ ~Running(b) /\ phase'[b] = phase[b]
  BY <1>1
<1>3. \A b \in Builds : ~Running(b)'
  BY <1>2 DEF Running
<1>4. phase' \in [Builds -> Phases]
  BY <1>1 DEF BuildInv, TypeOK, Phases
<1>5. TypeOK'
  <2>1. \A b \in Builds : ~InPart(b)'
    BY <1>3 DEF Running, InPart
  <2> QED BY <1>1, <1>4, <2>1 DEF BuildInv, TypeOK, PartsOf, InPart
<1>6. OneAtATime' /\ Placed' /\ Progress'
  BY <1>3 DEF OneAtATime, Placed, Progress
<1>7. Untouched'
  BY <1>1, <1>2, NoneIsApart DEF BuildInv, Untouched, Fresh, Running
<1>8. Tracked'
  <2>1. \A b \in Builds : Running(b) => \E n : asked[b] \subseteq Range(built[b]) \cup {n}
    BY DEF BuildInv, Tracked, Running
  <2> QED BY <1>1, <1>2, <2>1 DEF BuildInv, Tracked, Running
<1>9. OkReturnsItsParts'
  BY <1>1, <1>2, <1>3 DEF BuildInv, OkReturnsItsParts, PartsOf, Running
<1>10. OthersFailed'
  BY <1>1, <1>2, <1>3 DEF BuildInv, OthersFailed, Running
<1>11. PicksDescribeTheObject'
  BY <1>1 DEF PicksDescribeTheObject, EntryOf
<1> QED BY <1>5, <1>6, <1>7, <1>8, <1>9, <1>10, <1>11 DEF BuildInv

(* The other calls while one is in progress.                               *)
LEMMA OthersRest ==
  ASSUME BuildInv, NEW b \in Builds, Running(b), NEW c \in Builds, c # b
  PROVE  ~Running(c)
BY DEF BuildInv, OneAtATime

LEMMA StartKeeps ==
  ASSUME BuildInv, NEW b \in Builds, Start(b)
  PROVE  BuildInv'
<1>1. /\ UNCHANGED <<call, at, todo, target, asked, built, returned, registries, scene, late>>
      /\ phase[b] = "waiting" /\ at[b] = 1 /\ current # b
      /\ registries[b] = NoEntries /\ asked[b] = {} /\ built[b] = <<>>
      /\ \A c \in Builds : ~Running(c)
  BY DEF Start, Starts, Quiet, BuildInv, Untouched, Fresh
<1>2. /\ \A c \in Builds : c # b => phase'[c] = phase[c]
      /\ \/ phase'[b] = "parts" /\ current' \in {b, current}
            /\ (call[b].kind = "spec" => current' = b)
         \/ phase'[b] = "failed" /\ current' = current
      /\ phase' \in [Builds -> Phases]
  BY <1>1 DEF Start, GoTo, TableFor, BuildInv, TypeOK, Phases
<1>3. current' \in Registries \cup {None}
  BY <1>2 DEF BuildInv, TypeOK, Registries
<1>4. TypeOK'
  BY <1>1, <1>2, <1>3 DEF BuildInv, TypeOK, PartsOf
<1>5. OneAtATime' /\ Placed'
  BY <1>1, <1>2 DEF OneAtATime, Placed, Running, InPart
<1>6. Untouched'
  BY <1>1, <1>2 DEF BuildInv, Untouched, Fresh
<1>7. Tracked'
  BY <1>1, <1>2 DEF BuildInv, Tracked
<1>8. Progress'
  <2>1. \A c \in Builds : c # b => ~Running(c)'
    BY <1>1, <1>2 DEF Running
  <2>2. ~InPart(b)' /\ at'[b] - 1 = 0 /\ built'[b] = <<>> /\ registries'[b] = NoEntries
    BY <1>1, <1>2 DEF InPart
  <2>3. \A n \in Names : NoEntries[n] = None
    BY DEF NoEntries
  <2>4. Range(built'[b]) = {}
    BY <2>2 DEF Range
  <2>5. NamesIn(b)' = {}
    BY <2>2, <2>3 DEF NamesIn
  <2> QED BY <2>1, <2>2, <2>4, <2>5 DEF Progress
<1>9. OkReturnsItsParts'
  BY <1>1, <1>2 DEF BuildInv, OkReturnsItsParts, PartsOf
<1>10. OthersFailed'
  <2>1. \A c \in Builds : phase'[c] # "asking"
    BY <1>1, <1>2 DEF Running
  <2> QED BY <1>1, <1>2, <2>1 DEF BuildInv, OthersFailed
<1>11. PicksDescribeTheObject'
  <2>1. CASE current' = current
    <3>1. \A n \in Names : EntryOf(n)' = EntryOf(n) /\ InScene(n)' = InScene(n)
      BY <2>1, <1>1 DEF EntryOf, InScene
    <3>2. \A c \in Builds : /\ phase[c] = "failed" => phase'[c] = "failed"
                            /\ phase[c] # "asking"
      BY <1>1, <1>2 DEF Running
    <3>3. \A n \in Names : InScene(n) => scene[n] \in Builds
      BY DEF BuildInv, TypeOK, InScene
    <3> QED BY <3>1, <3>2, <3>3, <1>1 DEF BuildInv, PicksDescribeTheObject
  <2>2. CASE current' # current
    <3>1. current' = b
      BY <2>2, <1>2
    <3>2. \A n \in Names : EntryOf(n)' = None
      BY <3>1, <1>1, NoneIsApart DEF EntryOf, NoEntries
    <3> QED BY <3>2 DEF PicksDescribeTheObject
  <2> QED BY <2>1, <2>2
<1> QED BY <1>4, <1>5, <1>6, <1>7, <1>8, <1>9, <1>10, <1>11 DEF BuildInv

LEMMA BeginPartKeeps ==
  ASSUME BuildInv, NEW b \in Builds, BeginPart(b)
  PROVE  BuildInv'
<1>1. /\ UNCHANGED <<call, at, asked, built, returned, registries, scene, late>>
      /\ phase[b] = "parts" /\ Running(b)
      /\ at[b] \in 1 .. Len(PartsOf(b))
      /\ current' = RegistryFor(b)
      /\ target' = [target EXCEPT ![b] = RegistryFor(b)]
  BY DEF BeginPart, BuildInv, TypeOK, Running
<1>2. /\ \A c \in Builds : c # b => phase'[c] = phase[c] /\ todo'[c] = todo[c]
      /\ \/ phase'[b] = "executing" /\ todo'[b] = InstancesOf(PartAt(b))
         \/ phase'[b] = "failed" /\ todo'[b] = todo[b]
      /\ phase' \in [Builds -> Phases]
  BY DEF BeginPart, GoTo, BuildInv, TypeOK, Phases
<1>3. \A c \in Builds : c # b => target'[c] = target[c]
  BY <1>1 DEF BuildInv, TypeOK
<1>4. target'[b] = current' /\ current' \in Registries /\ current' # None
  BY <1>1, NoneIsApart DEF BuildInv, TypeOK, RegistryFor, Registries
<1>5. PartAt(b) \in Parts /\ InstancesOf(PartAt(b)) \in Seq(Names) /\ InstancesOf(PartAt(b)) # <<>>
      /\ Objects(b, at[b]) = Range(InstancesOf(PartAt(b)))
      /\ Objects(b, at[b]) \subseteq ObjectsOf(PartsOf(b))
  <2>1. PartAt(b) \in Parts /\ Objects(b, at[b]) \subseteq ObjectsOf(PartsOf(b))
    BY <1>1, PartsInReach DEF BuildInv, PartAt
  <2> QED BY <2>1, PartsHaveObjects DEF Objects, PartAt
<1>6. current = None => at[b] = 1 /\ call[b].kind = "part" /\ registries[b] = NoEntries
                        /\ built[b] = <<>> /\ current' = b
  <2>1. ASSUME current = None PROVE call[b].kind = "part" /\ Len(PartsOf(b)) = 1
    BY <2>1, <1>1, KindOfCall, NoneIsApart DEF BuildInv, Placed
  <2>2. ASSUME current = None PROVE at[b] = 1
    <3>1. Len(PartsOf(b)) = 1
      BY <2>1, <2>2
    <3>2. at[b] \in 1 .. 1
      BY <3>1, <1>1
    <3> QED BY <3>2
  <2>3. ASSUME current = None PROVE registries[b] = NoEntries /\ built[b] = <<>>
    BY <2>2, <2>3, <1>1 DEF BuildInv, Untouched, Fresh
  <2>4. ASSUME current = None PROVE current' = b
    BY <2>4, <1>1 DEF RegistryFor
  <2> QED BY <2>1, <2>2, <2>3, <2>4
<1>7. current # None => current' = current
  BY <1>1 DEF RegistryFor
<1>8. \A c \in Builds : c # b => ~Running(c) /\ ~Running(c)'
  BY <1>1, <1>2, OthersRest DEF Running
<1>9. TypeOK'
  <2>1. todo' \in [Builds -> Seq(Names)]
    BY <1>5 DEF BeginPart, BuildInv, TypeOK
  <2>2. target' \in [Builds -> Registries \cup {None}]
    BY <1>1, <1>4 DEF BuildInv, TypeOK
  <2>3. \A c \in Builds : phase'[c] \in {"executing", "asking"} => target'[c] # None /\ todo'[c] # <<>>
    <3>1. \A c \in Builds : c # b => phase'[c] \notin {"executing", "asking"}
      BY <1>8 DEF Running
    <3> QED BY <3>1, <1>2, <1>4, <1>5
  <2> QED BY <1>1, <1>2, <1>4, <2>1, <2>2, <2>3 DEF BuildInv, TypeOK, PartsOf
<1>10. OneAtATime'
  BY <1>8 DEF OneAtATime
<1>11. Placed'
  <2>1. call[b].kind = "spec" => current' = b
    BY <1>1, <1>6, <1>7 DEF BuildInv, Placed
  <2> QED BY <1>1, <1>4, <1>8, <2>1 DEF Placed, PartsOf
<1>12. Untouched'
  <2>1. \A c \in Builds : Fresh(c)' => c # b /\ Fresh(c)
    BY <1>1, <1>2 DEF Fresh
  <2>2. \A c \in Builds : phase'[c] = "waiting" => c # b /\ phase[c] = "waiting"
    BY <1>2
  <2> QED BY <1>1, <1>6, <1>7, <2>1, <2>2 DEF BuildInv, Untouched
<1>13. Tracked'
  BY <1>1, <1>2 DEF BuildInv, Tracked
<1>14. Progress'
  <2>1. \A i \in 1 .. at[b] - 1 : Objects(b, i)' \subseteq Range(built'[b])
    BY <1>1 DEF BuildInv, Progress, Objects, PartsOf
  <2>2. InPart(b)' => /\ Objects(b, at[b])' \subseteq Range(built'[b]) \cup Range(todo'[b])
                      /\ Range(todo'[b]) \subseteq Objects(b, at[b])'
    BY <1>1, <1>2, <1>5 DEF InPart, Objects, PartsOf, PartAt
  <2>3. Range(built'[b]) \subseteq ObjectsOf(PartsOf(b))'
    BY <1>1 DEF BuildInv, Progress, PartsOf
  <2>4. \A n \in Range(built'[b]) : EntryOf(n)' # None
    <3>1. CASE current = None
      BY <3>1, <1>1, <1>6 DEF Range
    <3>2. CASE current # None
      BY <3>2, <1>1, <1>7 DEF BuildInv, Progress, EntryOf
    <3> QED BY <3>1, <3>2
  <2>5. call'[b].kind = "spec" => NamesIn(b)' \subseteq Range(built'[b])
    BY <1>1 DEF BuildInv, Progress, NamesIn
  <2> QED BY <1>1, <1>8, <2>1, <2>2, <2>3, <2>4, <2>5 DEF Progress
<1>15. OkReturnsItsParts'
  BY <1>1, <1>2 DEF BuildInv, OkReturnsItsParts, PartsOf
<1>16. OthersFailed'
  <2>1. \A c \in Builds : phase'[c] # "asking"
    BY <1>2, <1>8 DEF Running
  <2> QED BY <1>1, <1>2, <2>1 DEF BuildInv, OthersFailed
<1>17. PicksDescribeTheObject'
  <2>1. CASE current = None
    <3>1. \A n \in Names : EntryOf(n)' = None
      BY <2>1, <1>1, <1>6, NoneIsApart DEF EntryOf, NoEntries
    <3> QED BY <3>1 DEF PicksDescribeTheObject
  <2>2. CASE current # None
    <3>1. \A n \in Names : EntryOf(n)' = EntryOf(n) /\ InScene(n)' = InScene(n)
      BY <2>2, <1>7, <1>1 DEF EntryOf, InScene
    <3>2. \A c \in Builds : /\ phase[c] = "failed" => phase'[c] = "failed"
                            /\ phase[c] # "asking"
      BY <1>1, <1>2, <1>8 DEF Running
    <3>3. \A n \in Names : InScene(n) => scene[n] \in Builds
      BY DEF BuildInv, TypeOK, InScene
    <3> QED BY <3>1, <3>2, <3>3, <1>1 DEF BuildInv, PicksDescribeTheObject
  <2> QED BY <2>1, <2>2
<1> QED BY <1>9, <1>10, <1>11, <1>12, <1>13, <1>14, <1>15, <1>16, <1>17 DEF BuildInv

LEMMA ExecuteKeeps ==
  ASSUME BuildInv, NEW b \in Builds,
         ExecuteSucceeds(b) \/ ExecuteFails(b) \/ ExecuteTimesOut(b)
  PROVE  BuildInv'
<1> DEFINE h == Head(todo[b])
<1>1. /\ UNCHANGED <<call, at, todo, target, built, returned, registries, current>>
      /\ phase[b] = "executing" /\ Running(b) /\ InPart(b)
      /\ asked' = [asked EXCEPT ![b] = @ \cup {h}]
  BY DEF ExecuteSucceeds, ExecuteFails, ExecuteTimesOut, Executes, Running, InPart
<1>2. h \in Names
  BY <1>1, RangeOfTail DEF BuildInv, TypeOK
<1>3. /\ \A c \in Builds : c # b => phase'[c] = phase[c] /\ asked'[c] = asked[c]
      /\ asked'[b] = asked[b] \cup {h}
      /\ phase' \in [Builds -> Phases]
      /\ scene' \in [Names -> Builds \cup {None}]
      /\ \A n \in Names : n # h => scene'[n] = scene[n]
      /\ late' \subseteq late \cup {<<h, b>>}
      /\ \/ phase'[b] = "asking" /\ scene'[h] = b /\ late' = late
         \/ phase'[b] = "failed" /\ scene'[h] \in {scene[h], None, b}
  <2>1. /\ phase \in [Builds -> Phases] /\ asked \in [Builds -> SUBSET Names]
        /\ scene \in [Names -> Builds \cup {None}]
    BY DEF BuildInv, TypeOK
  <2>2. \/ /\ phase' = [phase EXCEPT ![b] = "asking"]
           /\ scene' = [scene EXCEPT ![h] = b] /\ late' = late
        \/ /\ phase' = [phase EXCEPT ![b] = "failed"]
           /\ \E x \in {scene[h], None, b} : scene' = [scene EXCEPT ![h] = x]
           /\ late' = late
        \/ /\ phase' = [phase EXCEPT ![b] = "failed"]
           /\ scene' = scene /\ late' = late \cup {<<h, b>>}
    BY DEF ExecuteSucceeds, ExecuteFails, ExecuteTimesOut, GoTo
  <2>3. /\ scene' \in [Names -> Builds \cup {None}]
        /\ \A n \in Names : n # h => scene'[n] = scene[n]
        /\ late' \subseteq late \cup {<<h, b>>}
    BY <2>1, <2>2, <1>2
  <2>4. /\ phase' \in [Builds -> Phases]
        /\ \A c \in Builds : c # b => phase'[c] = phase[c]
    BY <2>1, <2>2 DEF Phases
  <2>5. \/ phase'[b] = "asking" /\ scene'[h] = b /\ late' = late
        \/ phase'[b] = "failed" /\ scene'[h] \in {scene[h], None, b}
    BY <2>1, <2>2, <1>2
  <2>6. /\ \A c \in Builds : c # b => asked'[c] = asked[c]
        /\ asked'[b] = asked[b] \cup {h}
    BY <2>1, <1>1
  <2> QED BY <2>3, <2>4, <2>5, <2>6
<1>4. \A c \in Builds : c # b => ~Running(c) /\ ~Running(c)'
  BY <1>1, <1>3, OthersRest DEF Running
<1>5. TypeOK'
  <2>1. asked' \in [Builds -> SUBSET Names]
    BY <1>1, <1>2 DEF BuildInv, TypeOK
  <2>2. late' \subseteq Names \X Builds
    BY <1>2, <1>3 DEF BuildInv, TypeOK
  <2>3. \A c \in Builds : phase'[c] \in {"executing", "asking"} =>
                            phase[c] \in {"executing", "asking"}
    BY <1>1, <1>3
  <2> QED BY <1>1, <1>3, <2>1, <2>2, <2>3 DEF BuildInv, TypeOK, PartsOf
<1>6. OneAtATime' /\ Placed'
  <2>1. \A c \in Builds : Running(c)' => Running(c) /\ (InPart(c)' => InPart(c))
    BY <1>1, <1>3, <1>4
  <2> QED BY <1>1, <2>1 DEF BuildInv, OneAtATime, Placed, PartsOf
<1>7. Untouched'
  <2>1. \A c \in Builds : /\ Fresh(c)' => c # b /\ Fresh(c)
                          /\ phase'[c] = "waiting" => phase[c] = "waiting"
    BY <1>1, <1>3 DEF Fresh
  <2> QED BY <1>1, <1>3, <2>1 DEF BuildInv, Untouched
<1>8. Tracked'
  <2>1. asked'[b] \subseteq Range(built'[b]) \cup {h}
    BY <1>1, <1>3 DEF BuildInv, Tracked
  <2>2. phase'[b] \in {"asking", "failed"}
    BY <1>3
  <2>3. ASSUME NEW c \in Builds, c # b
        PROVE  phase'[c] = phase[c] /\ UNCHANGED <<asked[c], built[c], todo[c]>>
    BY <2>3, <1>1, <1>3
  <2> QED BY <1>1, <2>1, <2>2, <2>3 DEF BuildInv, Tracked
<1>9. Progress'
  <2>1. \A c \in Builds : Running(c)' => Running(c) /\ (InPart(c)' => InPart(c))
    BY <1>1, <1>3, <1>4
  <2> QED BY <1>1, <2>1 DEF BuildInv, Progress, Objects, PartsOf, EntryOf, NamesIn
<1>10. OkReturnsItsParts'
  BY <1>1, <1>3 DEF BuildInv, OkReturnsItsParts, PartsOf
<1>11. OthersFailed'
  <2>1. \A c \in Builds : phase[c] = "failed" => phase'[c] = "failed"
    BY <1>1, <1>3
  <2>2. \A c \in Builds : phase'[c] = "asking" => c = b
    BY <1>4 DEF Running
  <2>3. phase'[b] = "asking" => scene'[Head(todo'[b])] = b
    BY <1>1, <1>2, <1>3
  <2>4. \A n \in Names, c \in Builds : <<n, c>> \in late' => phase'[c] = "failed"
    <3>1. ASSUME NEW n \in Names, NEW c \in Builds, <<n, c>> \in late' PROVE phase'[c] = "failed"
      <4>1. CASE <<n, c>> \in late
        BY <4>1, <2>1 DEF BuildInv, OthersFailed
      <4>2. CASE <<n, c>> \notin late
        <5>1. c = b /\ late' # late
          BY <4>2, <3>1, <1>3
        <5> QED BY <5>1, <1>3
      <4> QED BY <4>1, <4>2
    <3> QED BY <3>1
  <2> QED BY <2>2, <2>3, <2>4 DEF OthersFailed
<1>12. PicksDescribeTheObject'
  <2>1. \A c \in Builds : /\ phase[c] = "failed" => phase'[c] = "failed"
                          /\ phase[c] # "asking"
    BY <1>1, <1>3, <1>4 DEF Running
  <2>2. \A n \in Names : EntryOf(n)' = EntryOf(n)
    BY <1>1 DEF EntryOf
  <2>3. ASSUME NEW n \in Names, InScene(n)', scene'[n] = scene[n], EntryOf(n)' # None
        PROVE  EntryOf(n)' = scene'[n] \/ phase'[scene'[n]] = "failed"
    <3>1. scene[n] \in Builds /\ InScene(n)
      BY <2>3 DEF BuildInv, TypeOK, InScene
    <3> QED BY <3>1, <2>1, <2>2, <2>3 DEF BuildInv, PicksDescribeTheObject
  <2>4. ASSUME NEW n \in Names, InScene(n)', scene'[n] # scene[n]
        PROVE  \/ phase'[scene'[n]] = "failed"
               \/ phase'[scene'[n]] = "asking" /\ Head(todo'[scene'[n]]) = n
    BY <2>4, <1>1, <1>2, <1>3 DEF InScene
  <2> QED BY <2>3, <2>4 DEF PicksDescribeTheObject
<1> QED BY <1>5, <1>6, <1>7, <1>8, <1>9, <1>10, <1>11, <1>12 DEF BuildInv

LEMMA AskFailsKeeps ==
  ASSUME BuildInv, NEW b \in Builds, AskFails(b)
  PROVE  BuildInv'
<1>1. /\ UNCHANGED <<call, at, todo, target, asked, built, returned, registries, current,
                     scene, late>>
      /\ phase[b] = "asking" /\ Running(b)
      /\ phase' = [phase EXCEPT ![b] = "failed"]
  BY DEF AskFails, GoTo, Running
<1>2. /\ \A c \in Builds : c # b => phase'[c] = phase[c]
      /\ phase'[b] = "failed"
      /\ phase' \in [Builds -> Phases]
  BY <1>1 DEF BuildInv, TypeOK, Phases
<1>3. \A c \in Builds : ~Running(c)'
  BY <1>1, <1>2, OthersRest DEF Running
<1>4. TypeOK'
  BY <1>1, <1>2, <1>3 DEF BuildInv, TypeOK, PartsOf, Running
<1>5. OneAtATime' /\ Placed' /\ Progress'
  BY <1>3 DEF OneAtATime, Placed, Progress
<1>6. Untouched'
  BY <1>1, <1>2 DEF BuildInv, Untouched, Fresh
<1>7. Tracked'
  BY <1>1, <1>2 DEF BuildInv, Tracked
<1>8. OkReturnsItsParts'
  BY <1>1, <1>2 DEF BuildInv, OkReturnsItsParts, PartsOf
<1>9. OthersFailed'
  BY <1>1, <1>2, <1>3 DEF BuildInv, OthersFailed, Running
<1>10. PicksDescribeTheObject'
  <2>1. \A n \in Names : EntryOf(n)' = EntryOf(n) /\ InScene(n)' = InScene(n)
    BY <1>1 DEF EntryOf, InScene
  <2>2. \A c \in Builds : phase[c] \in {"failed", "asking"} => phase'[c] = "failed"
    BY <1>1, <1>2, OthersRest DEF Running
  <2>3. \A n \in Names : InScene(n) => scene[n] \in Builds
    BY DEF BuildInv, TypeOK, InScene
  <2> QED BY <2>1, <2>2, <2>3, <1>1 DEF BuildInv, PicksDescribeTheObject
<1> QED BY <1>4, <1>5, <1>6, <1>7, <1>8, <1>9, <1>10 DEF BuildInv

LEMMA ReturnKeeps ==
  ASSUME BuildInv, NEW b \in Builds, Return(b)
  PROVE  BuildInv'
<1> DEFINE r == IF call[b].kind = "spec" THEN b ELSE target[b]
<1>1. /\ UNCHANGED <<call, at, todo, target, asked, built, registries, current, scene, late>>
      /\ phase[b] = "parts" /\ Running(b) /\ ~(at[b] <= Len(PartsOf(b)))
      /\ phase' = [phase EXCEPT ![b] = "ok"]
      /\ returned' = [returned EXCEPT ![b] = NamesIn(r)]
  BY DEF Return, GoTo, Running, BuildInv, TypeOK
<1>2. /\ \A c \in Builds : c # b => phase'[c] = phase[c] /\ returned'[c] = returned[c]
      /\ phase'[b] = "ok" /\ returned'[b] = NamesIn(r)
      /\ phase' \in [Builds -> Phases]
      /\ returned' \in [Builds -> SUBSET Names]
  BY <1>1 DEF BuildInv, TypeOK, Phases, NamesIn
<1>3. \A c \in Builds : ~Running(c)'
  BY <1>1, <1>2, OthersRest DEF Running
<1>4. TypeOK'
  BY <1>1, <1>2, <1>3 DEF BuildInv, TypeOK, PartsOf, Running
<1>5. OneAtATime' /\ Placed' /\ Progress'
  BY <1>3 DEF OneAtATime, Placed, Progress
<1>6. Untouched'
  BY <1>1, <1>2 DEF BuildInv, Untouched, Fresh
<1>7. Tracked'
  BY <1>1, <1>2 DEF BuildInv, Tracked
<1>8. OkReturnsItsParts'
  <2>1. PartsOf(b) \in Seq(Parts) /\ Len(PartsOf(b)) \in Nat /\ at[b] = Len(PartsOf(b)) + 1
    <3>1. at[b] \in 1 .. Len(PartsOf(b)) + 1
      BY DEF BuildInv, TypeOK
    <3> QED BY <3>1, <1>1, KindOfCall DEF BuildInv
  <2>2. ObjectsOf(PartsOf(b)) = Range(built[b])
    <3>1. DOMAIN PartsOf(b) = 1 .. at[b] - 1
      BY <2>1
    <3>2. ObjectsOf(PartsOf(b)) \subseteq Range(built[b])
      BY <3>1, <1>1 DEF BuildInv, Progress, ObjectsOf, Objects
    <3> QED BY <3>2, <1>1 DEF BuildInv, Progress
  <2>3. Range(built[b]) \subseteq Names
    <3>1. built[b] \in Seq(Names)
      BY DEF BuildInv, TypeOK
    <3> QED BY <3>1 DEF Range
  <2>4. CASE call[b].kind = "spec"
    <3>1. NamesIn(b) \subseteq Range(built[b]) /\ current = b
      BY <2>4, <1>1 DEF BuildInv, Progress, Placed
    <3>2. \A n \in Range(built[b]) : registries[b][n] # None
      BY <3>1, <1>1, NoneIsApart DEF BuildInv, Progress, EntryOf
    <3>3. NamesIn(b) = ObjectsOf(PartsOf(b))
      BY <3>1, <3>2, <2>2, <2>3 DEF NamesIn
    <3> QED BY <3>3, <2>4, <1>1, <1>2 DEF BuildInv, OkReturnsItsParts, PartsOf
  <2>5. CASE call[b].kind # "spec"
    <3>1. PartsOf(b) # <<>>
      BY <2>5, <2>1, KindOfCall, SMTT(40) DEF BuildInv
    <3>2. at[b] > 1
      BY <3>1, <2>1
    <3>3. target[b] = current /\ current # None
      BY <3>2, <1>1 DEF BuildInv, Placed
    <3>4. \A n \in Range(built[b]) : registries[target[b]][n] # None
      BY <3>3, <1>1 DEF BuildInv, Progress, EntryOf
    <3>5. ObjectsOf(PartsOf(b)) \subseteq NamesIn(target[b])
      BY <3>4, <2>2, <2>3 DEF NamesIn
    <3> QED BY <3>5, <2>5, <1>1, <1>2 DEF BuildInv, OkReturnsItsParts, PartsOf
  <2> QED BY <2>4, <2>5
<1>9. OthersFailed'
  BY <1>1, <1>2, <1>3 DEF BuildInv, OthersFailed, Running
<1>10. PicksDescribeTheObject'
  <2>1. \A n \in Names : EntryOf(n)' = EntryOf(n) /\ InScene(n)' = InScene(n)
    BY <1>1 DEF EntryOf, InScene
  <2>2. \A c \in Builds : /\ phase[c] = "failed" => phase'[c] = "failed"
                          /\ phase[c] # "asking"
    BY <1>1, <1>2, OthersRest DEF Running
  <2>3. \A n \in Names : InScene(n) => scene[n] \in Builds
    BY DEF BuildInv, TypeOK, InScene
  <2> QED BY <2>1, <2>2, <2>3, <1>1 DEF BuildInv, PicksDescribeTheObject
<1> QED BY <1>4, <1>5, <1>6, <1>7, <1>8, <1>9, <1>10 DEF BuildInv

LEMMA RegisterKeeps ==
  ASSUME BuildInv, NEW b \in Builds, Register(b)
  PROVE  BuildInv'
<1> DEFINE h == Head(todo[b])
<1>1. /\ UNCHANGED <<call, target, asked, returned, current, scene, late>>
      /\ phase[b] = "asking" /\ Running(b) /\ InPart(b) /\ InScene(h)
      /\ ToRegister(b) = <<h>>
      /\ registries' =
           [registries EXCEPT ![target[b]] = Entered(@, Range(ToRegister(b)), b)]
      /\ built' = [built EXCEPT ![b] = @ \o ToRegister(b)]
      /\ todo' = [todo EXCEPT ![b] = Tail(@)]
      /\ \/ /\ Len(todo[b]) = 1
            /\ phase' = [phase EXCEPT ![b] = "parts"]
            /\ at' = [at EXCEPT ![b] = @ + 1]
         \/ /\ Len(todo[b]) # 1
            /\ phase' = [phase EXCEPT ![b] = "executing"]
            /\ at' = at
  BY DEF Register, GoTo, Running, InPart, ToRegister
<1>2. /\ todo[b] \in Seq(Names) /\ todo[b] # <<>> /\ h \in Names
      /\ Tail(todo[b]) \in Seq(Names) /\ Range(todo[b]) = {h} \cup Range(Tail(todo[b]))
      /\ Len(todo[b]) \in Nat /\ Len(todo[b]) > 0 /\ Len(Tail(todo[b])) = Len(todo[b]) - 1
      /\ built[b] \in Seq(Names)
  BY <1>1, RangeOfTail DEF BuildInv, TypeOK
<1>3. built[b] \o <<h>> \in Seq(Names) /\ Range(built[b] \o <<h>>) = Range(built[b]) \cup {h}
  BY <1>2, RangeOfAppend
<1>4. /\ target[b] = current /\ current # None /\ current \in Registries
      /\ at[b] \in 1 .. Len(PartsOf(b))
      /\ call[b].kind = "spec" => current = b
  BY <1>1 DEF BuildInv, TypeOK, Placed
<1>5. Range(ToRegister(b)) = {h}
  BY <1>1 DEF Range
<1>6. /\ registries' \in [Registries -> [Names -> Builds \cup {None}]]
      /\ \A n \in Names : registries'[current][n] = IF n = h THEN b ELSE registries[current][n]
      /\ \A r \in Registries : r # current => registries'[r] = registries[r]
  <2>1. /\ registries \in [Registries -> [Names -> Builds \cup {None}]]
    BY DEF BuildInv, TypeOK
  <2>2. registries' = [registries EXCEPT ![current] =
           [n \in Names |-> IF n \in {h} THEN b ELSE registries[current][n]]]
    BY <1>1, <1>4, <1>5 DEF Entered
  <2>3. [n \in Names |-> IF n \in {h} THEN b ELSE registries[current][n]]
          \in [Names -> Builds \cup {None}]
    BY <2>1, <1>4
  <2> QED BY <2>1, <2>2, <2>3, <1>4
<1>7. \A c \in Builds : c # b => /\ phase'[c] = phase[c] /\ at'[c] = at[c]
                                 /\ todo'[c] = todo[c] /\ built'[c] = built[c]
  BY <1>1 DEF BuildInv, TypeOK
<1>8. /\ todo'[b] = Tail(todo[b]) /\ built'[b] = built[b] \o <<h>>
      /\ Range(built'[b]) = Range(built[b]) \cup {h}
      /\ \/ Len(todo[b]) = 1 /\ phase'[b] = "parts" /\ at'[b] = at[b] + 1
         \/ Len(todo[b]) # 1 /\ phase'[b] = "executing" /\ at'[b] = at[b]
      /\ phase' \in [Builds -> Phases] /\ at' \in [Builds -> Nat]
      /\ todo' \in [Builds -> Seq(Names)] /\ built' \in [Builds -> Seq(Names)]
  <2>1. /\ phase \in [Builds -> Phases] /\ at \in [Builds -> Nat]
        /\ todo \in [Builds -> Seq(Names)] /\ built \in [Builds -> Seq(Names)]
    BY DEF BuildInv, TypeOK
  <2>2. todo'[b] = Tail(todo[b]) /\ todo' \in [Builds -> Seq(Names)]
    BY <2>1, <1>1, <1>2
  <2>3. built'[b] = built[b] \o <<h>> /\ built' \in [Builds -> Seq(Names)]
    BY <2>1, <1>1, <1>3
  <2>4. phase' \in [Builds -> Phases] /\ at' \in [Builds -> Nat]
    <3>1. phase' \in [Builds -> Phases]
      BY <2>1, <1>1 DEF Phases
    <3>2. at[b] + 1 \in Nat
      BY <2>1
    <3>3. at' = at \/ at' = [at EXCEPT ![b] = at[b] + 1]
      BY <1>1
    <3>4. at' \in [Builds -> Nat]
      BY <2>1, <3>2, <3>3
    <3> QED BY <3>1, <3>4
  <2>5. \/ Len(todo[b]) = 1 /\ phase'[b] = "parts" /\ at'[b] = at[b] + 1
        \/ Len(todo[b]) # 1 /\ phase'[b] = "executing" /\ at'[b] = at[b]
    BY <2>1, <1>1
  <2> QED BY <2>2, <2>3, <2>4, <2>5, <1>3
<1>9. \A c \in Builds : c # b => ~Running(c) /\ ~Running(c)'
  BY <1>1, <1>7, OthersRest DEF Running
<1>10. TypeOK'
  <2>1. \A c \in Builds : at'[c] \in 1 .. Len(PartsOf(c)') + 1
    <3>1. at'[b] \in 1 .. Len(PartsOf(b)) + 1
      BY <1>4, <1>8, KindOfCall DEF BuildInv
    <3> QED BY <3>1, <1>1, <1>7 DEF BuildInv, TypeOK, PartsOf
  <2>2. \A c \in Builds : phase'[c] \in {"executing", "asking"} => target'[c] # None /\ todo'[c] # <<>>
    <3>1. \A c \in Builds : c # b => phase'[c] \notin {"executing", "asking"}
      BY <1>9 DEF Running
    <3>2. phase'[b] \in {"executing", "asking"} => Tail(todo[b]) # <<>>
      <4>1. ASSUME phase'[b] \in {"executing", "asking"} PROVE Len(Tail(todo[b])) > 0
        <5>1. Len(todo[b]) # 1
          BY <4>1, <1>8
        <5>2. Len(todo[b]) \in Nat /\ Len(todo[b]) > 0 /\ Len(Tail(todo[b])) = Len(todo[b]) - 1
          BY <1>2
        <5>3. \A n \in Nat : n > 0 /\ n # 1 => n - 1 > 0
          OBVIOUS
        <5> QED BY <5>1, <5>2, <5>3, Zenon
      <4>2. Len(<<>>) = 0 /\ ~(0 > 0)
        OBVIOUS
      <4> QED BY <4>1, <4>2, Zenon
    <3> QED BY <3>1, <3>2, <1>1, <1>4, <1>8
  <2> QED BY <1>1, <1>6, <1>8, <2>1, <2>2 DEF BuildInv, TypeOK
<1>11. OneAtATime'
  BY <1>9 DEF OneAtATime
<1>12. Placed'
  <2>1. InPart(b)' => at'[b] <= Len(PartsOf(b)')
    BY <1>1, <1>4, <1>8, KindOfCall DEF BuildInv, InPart, PartsOf
  <2> QED BY <1>1, <1>4, <1>9, <2>1 DEF Placed
<1>13. Untouched'
  <2>1. ~Fresh(b)' /\ phase'[b] # "waiting"
    BY <1>4, <1>8 DEF Fresh
  <2>2. ASSUME NEW c \in Builds, c # b, Fresh(c)'
        PROVE  registries'[c] = registries[c] /\ Fresh(c) /\ asked'[c] = asked[c]
               /\ built'[c] = built[c]
    <3>1. phase[c] = "waiting"
      BY <2>2, <1>7, <1>9 DEF Fresh, Running
    <3>2. current # c
      BY <3>1 DEF BuildInv, Untouched
    <3> QED BY <3>1, <3>2, <1>1, <1>6, <1>7 DEF Fresh, Registries
  <2>3. \A c \in Builds : c # b /\ phase'[c] = "waiting" =>
                            phase[c] = "waiting" /\ at'[c] = at[c]
    BY <1>7
  <2> QED BY <1>1, <2>1, <2>2, <2>3 DEF BuildInv, Untouched
<1>14. Tracked'
  <2>1. asked[b] \subseteq Range(built'[b])
    BY <1>1, <1>8 DEF BuildInv, Tracked
  <2>2. phase'[b] \notin {"asking", "failed"}
    BY <1>8
  <2> QED BY <1>1, <1>7, <2>1, <2>2 DEF BuildInv, Tracked
<1>15. Progress'
  <2>1. /\ \A i \in 1 .. at[b] - 1 : Objects(b, i) \subseteq Range(built[b])
        /\ Objects(b, at[b]) \subseteq Range(built[b]) \cup Range(todo[b])
        /\ Range(todo[b]) \subseteq Objects(b, at[b])
        /\ Range(built[b]) \subseteq ObjectsOf(PartsOf(b))
        /\ \A n \in Range(built[b]) : EntryOf(n) # None
        /\ call[b].kind = "spec" => NamesIn(b) \subseteq Range(built[b])
    BY <1>1 DEF BuildInv, Progress
  <2>2. \A i : Objects(b, i)' = Objects(b, i)
    BY <1>1 DEF Objects, PartsOf
  <2>3. \A i \in 1 .. at'[b] - 1 : Objects(b, i) \subseteq Range(built'[b])
    <3>1. CASE at'[b] = at[b]
      BY <3>1, <2>1, <1>8
    <3>2. CASE Len(todo[b]) = 1 /\ at'[b] = at[b] + 1
      <4>1. Range(Tail(todo[b])) = {}
        BY <3>2, <1>2 DEF Range
      <4>2. Objects(b, at[b]) \subseteq Range(built'[b])
        BY <4>1, <2>1, <1>2, <1>8
      <4>3. \A i \in 1 .. at[b] + 1 - 1 : i \in 1 .. at[b] - 1 \/ i = at[b]
        BY <1>4
      <4>4. \A i \in 1 .. at[b] - 1 : Objects(b, i) \subseteq Range(built'[b])
        BY <2>1, <1>8
      <4>5. ASSUME NEW i \in 1 .. at'[b] - 1 PROVE i \in 1 .. at[b] - 1 \/ i = at[b]
        <5>1. at'[b] = at[b] + 1 /\ at[b] \in Int
          BY <3>2, <1>4
        <5>2. at'[b] - 1 = at[b] + 1 - 1
          BY <5>1
        <5> QED BY <5>2, <4>3, <4>5, Zenon
      <4> QED BY <4>2, <4>4, <4>5, Zenon
    <3> QED BY <3>1, <3>2, <1>8
  <2>4. InPart(b)' => /\ Objects(b, at'[b]) \subseteq Range(built'[b]) \cup Range(todo'[b])
                      /\ Range(todo'[b]) \subseteq Objects(b, at'[b])
    BY <2>1, <1>2, <1>8 DEF InPart
  <2>5. Range(built'[b]) \subseteq ObjectsOf(PartsOf(b))
    <3>1. h \in Objects(b, at[b])
      BY <2>1, <1>2
    <3>2. Objects(b, at[b]) \subseteq ObjectsOf(PartsOf(b))
      BY <1>4, PartsInReach DEF BuildInv
    <3> QED BY <3>1, <3>2, <2>1, <1>8
  <2>6. \A n \in Range(built'[b]) : EntryOf(n)' # None
    <3>1. Range(built[b]) \subseteq Names
      BY <1>2 DEF Range
    <3>2. ASSUME NEW n \in Range(built'[b]) PROVE registries'[current][n] # None
      <4>1. CASE n = h
        BY <4>1, <1>2, <1>6, NoneIsApart
      <4>2. CASE n # h
        <5>1. n \in Range(built[b]) /\ n \in Names
          BY <4>2, <3>1, <3>2, <1>8
        <5>2. registries[current][n] # None
          BY <5>1, <2>1, <1>4 DEF EntryOf
        <5> QED BY <5>1, <5>2, <4>2, <1>6
      <4> QED BY <4>1, <4>2
    <3> QED BY <3>2, <1>1, <1>4 DEF EntryOf
  <2>7. call[b].kind = "spec" => NamesIn(b)' \subseteq Range(built'[b])
    <3>1. ASSUME call[b].kind = "spec", NEW n \in Names, registries'[b][n] # None
          PROVE  n \in Range(built'[b])
      <4>1. current = b
        BY <3>1, <1>4
      <4>2. n = h \/ registries[b][n] # None
        BY <4>1, <3>1, <1>6
      <4>3. n = h \/ n \in Range(built[b])
        BY <4>2, <3>1, <2>1 DEF NamesIn
      <4> QED BY <4>3, <1>8
    <3> QED BY <3>1 DEF NamesIn
  <2>8. Range(built'[b]) \subseteq ObjectsOf(PartsOf(b))'
    BY <2>5, <1>1 DEF PartsOf
  <2>9. \A i \in 1 .. at'[b] - 1 : Objects(b, i)' \subseteq Range(built'[b])
    BY <2>2, <2>3
  <2>10. InPart(b)' => /\ Objects(b, at[b])' \subseteq Range(built'[b]) \cup Range(todo'[b])
                       /\ Range(todo'[b]) \subseteq Objects(b, at[b])'
    BY <2>4, <1>1 DEF Objects, PartsOf
  <2>11. call'[b].kind = "spec" => NamesIn(b)' \subseteq Range(built'[b])
    BY <2>7, <1>1
  <2> QED BY <1>9, <2>6, <2>8, <2>9, <2>10, <2>11 DEF Progress
<1>16. OkReturnsItsParts'
  <2>1. \A c \in Builds : phase'[c] = "ok" => phase[c] = "ok"
    BY <1>7, <1>8
  <2> QED BY <1>1, <2>1 DEF BuildInv, OkReturnsItsParts, PartsOf
<1>17. OthersFailed'
  <2>1. \A c \in Builds : phase'[c] # "asking"
    BY <1>8, <1>9 DEF Running
  <2>2. \A c \in Builds : phase[c] = "failed" => phase'[c] = "failed"
    BY <1>1, <1>7
  <2> QED BY <1>1, <2>1, <2>2 DEF BuildInv, OthersFailed
<1>18. PicksDescribeTheObject'
  <2>1. \A c \in Builds : phase[c] = "failed" => phase'[c] = "failed"
    BY <1>1, <1>7
  <2>2. \A c \in Builds : phase[c] = "asking" => c = b
    BY <1>9 DEF Running
  <2>3. ASSUME NEW n \in Names, InScene(n)', EntryOf(n)' # None
        PROVE  EntryOf(n)' = scene'[n] \/ phase'[scene'[n]] = "failed"
    <3>1. scene[n] \in Builds /\ InScene(n) /\ scene'[n] = scene[n]
      BY <2>3, <1>1 DEF BuildInv, TypeOK, InScene
    <3>2. EntryOf(n)' = registries'[current][n] /\ EntryOf(n) = registries[current][n]
      BY <1>1, <1>4 DEF EntryOf
    <3>3. CASE n = h
      <4>1. EntryOf(n)' = b
        BY <3>2, <3>3, <1>6
      <4>2. scene[n] = b \/ phase[scene[n]] = "failed"
        BY <3>1, <3>3, <1>1 DEF BuildInv, OthersFailed, InScene
      <4> QED BY <4>1, <4>2, <3>1, <2>1
    <3>4. CASE n # h
      <4>1. EntryOf(n)' = EntryOf(n)
        BY <3>2, <3>4, <1>6
      <4>2. EntryOf(n) = scene[n] \/ phase[scene[n]] = "failed"
        BY <4>1, <3>1, <3>4, <2>2, <2>3 DEF BuildInv, PicksDescribeTheObject
      <4> QED BY <4>1, <4>2, <3>1, <2>1
    <3> QED BY <3>3, <3>4
  <2> QED BY <2>3 DEF PicksDescribeTheObject
<1> QED BY <1>10, <1>11, <1>12, <1>13, <1>14, <1>15, <1>16, <1>17, <1>18 DEF BuildInv

LEMMA NextBuildInv == BuildInv /\ [Next]_vars => BuildInv'
<1> SUFFICES ASSUME BuildInv, [Next]_vars PROVE BuildInv'
  OBVIOUS
<1>1. CASE Next
  <2>1. ASSUME NEW b \in Builds, ExecuteSucceeds(b) \/ ExecuteFails(b) \/ ExecuteTimesOut(b)
        PROVE  BuildInv'
    BY <2>1, ExecuteKeeps
  <2>2. ASSUME NEW b \in Builds, Start(b) \/ BeginPart(b) \/ Register(b) \/ AskFails(b) \/ Return(b)
        PROVE  BuildInv'
    BY <2>2, StartKeeps, BeginPartKeeps, RegisterKeeps, AskFailsKeeps, ReturnKeeps
  <2> QED BY <1>1, <2>1, <2>2, PickKeeps, SessionEndsKeeps, UserDeletesKeeps, LateCodeKeeps
          DEF Next
<1>2. CASE UNCHANGED vars
  <2>1. UNCHANGED <<callVars, registries, current, scene, late>>
    BY <1>2 DEF vars
  <2>2. TypeOK' /\ OthersFailed' /\ PicksDescribeTheObject'
    BY <2>1 DEF BuildInv, TypeOK, OthersFailed, PicksDescribeTheObject, callVars, PartsOf,
                InScene, EntryOf
  <2> QED BY <2>1, <2>2, SceneSteps DEF BuildInv
<1> QED BY <1>1, <1>2

(* The invariant holds of every execution.                                 *)
THEOREM BuildInvariance == Spec => []BuildInv
<1> QED BY InitBuildInv, NextBuildInv, PTL DEF Spec

(* TypeOK, for any calls and part lists.                                   *)
THEOREM BuildTypeCorrect == Spec => []TypeOK
<1>1. BuildInv => TypeOK
  BY DEF BuildInv
<1> QED BY <1>1, BuildInvariance, PTL

(* A call that returns reports its own objects.                            *)
THEOREM BuildsReportTheirs == Spec => []OkReturnsItsParts
<1>1. BuildInv => OkReturnsItsParts
  BY DEF BuildInv
<1> QED BY <1>1, BuildInvariance, PTL

(* A pick is told about the object it hit.                                 *)
THEOREM PicksAreTrue == Spec => []PicksDescribeTheObject
<1>1. BuildInv => PicksDescribeTheObject
  BY DEF BuildInv
<1> QED BY <1>1, BuildInvariance, PTL

(* However a call ends, it leaves at most one object unregistered.         *)
THEOREM OneUnregistered == Spec => []AtMostOneUnregistered
<1>1. ASSUME BuildInv PROVE AtMostOneUnregistered
  <2>1. ASSUME NEW b \in Builds PROVE Cardinality(asked[b] \ Range(built[b])) <= 1
    <3> DEFINE left == asked[b] \ Range(built[b])
    <3>1. \E n : left \subseteq {n}
      <4>1. \E n : asked[b] \subseteq Range(built[b]) \cup {n}
        BY <1>1 DEF BuildInv, Tracked
      <4> QED BY <4>1
    <3>2. PICK n : left \subseteq {n}
      BY <3>1
    <3>3. left = {} \/ left = {n}
      BY <3>2
    <3> HIDE DEF left
    <3>4. Cardinality(left) = 0 \/ Cardinality(left) = 1
      BY <3>3, FS_EmptySet, FS_Singleton
    <3> QED BY <3>4 DEF left
  <2> QED BY <2>1 DEF AtMostOneUnregistered
<1> QED BY <1>1, BuildInvariance, PTL

-----------------------------------------------------------------------------
(* What a call builds, in which order.  FlattenSeq is a recursive function:*)
(* the lists it goes through are found by induction on the parts, with the *)
(* induction step stated over sets.                                        *)

(* A set that holds 0 and the successor of every member holds every number.*)
LEMMA SetInduction ==
  ASSUME NEW T, 0 \in T, \A n \in Nat : n \in T => n + 1 \in T
  PROVE  Nat \subseteq T
<1> DEFINE Out == Nat \ T
<1> SUFFICES ASSUME Out # {} PROVE FALSE
  OBVIOUS
<1>1. \A m \in Nat, n \in Nat : <<m, n>> \in OpToRel(<, Nat) <=> m < n
  BY DEF OpToRel
<1>2. PICK n \in Out : \A m \in Out : ~(<<m, n>> \in OpToRel(<, Nat))
  <2>1. Out \subseteq Nat
    OBVIOUS
  <2> HIDE DEF Out
  <2> QED BY <2>1, NatLessThanWellFounded, WFMin, Zenon
<1>3. n - 1 \in Out
  OBVIOUS
<1>4. n \in Nat /\ n - 1 \in Nat /\ n - 1 < n
  BY <1>3
<1> HIDE DEF Out
<1> QED BY <1>1, <1>2, <1>3, <1>4

(* The lists g, each one sequence longer: flatten is the g that this leaves*)
(* as it is.                                                               *)
Longer(seqs, g) ==
  [i \in 1 .. Len(seqs) |-> IF i = 1 THEN seqs[i] ELSE g[i - 1] \o seqs[i]]

LEMMA FlattenExists ==
  ASSUME NEW S, NEW seqs \in Seq(Seq(S))
  PROVE  \E g : g = Longer(seqs, g)
<1> DEFINE Step(g, i) == IF i = 1 THEN seqs[i] ELSE g[i - 1] \o seqs[i]
<1> DEFINE Upto(g, m) == /\ g = [i \in 1 .. m |-> g[i]]
                         /\ \A i \in 1 .. m : g[i] = Step(g, i)
<1> DEFINE T == {m \in Nat : \E g : Upto(g, m)}
<1>1. 0 \in T
  <2> DEFINE g == [i \in 1 .. 0 |-> <<>>]
  <2>1. Upto(g, 0)
    OBVIOUS
  <2> QED BY <2>1
<1>2. ASSUME NEW m \in Nat, m \in T PROVE m + 1 \in T
  <2>1. PICK g : Upto(g, m)
    BY <1>2
  <2> DEFINE h == [i \in 1 .. (m + 1) |-> IF i = m + 1 THEN Step(g, i) ELSE g[i]]
  <2>2. h = [i \in 1 .. (m + 1) |-> h[i]]
    OBVIOUS
  <2>3. h[m + 1] = Step(g, m + 1) /\ \A i \in 1 .. m : h[i] = g[i]
    <3> HIDE DEF Step
    <3> QED OBVIOUS
  <2> HIDE DEF h
  <2>4. ASSUME NEW i \in 1 .. (m + 1) PROVE h[i] = Step(h, i)
    <3>1. i # 1 => i - 1 \in 1 .. m /\ h[i - 1] = g[i - 1]
      BY <2>3
    <3>2. Step(h, i) = Step(g, i)
      BY <3>1
    <3>3. CASE i = m + 1
      BY <3>2, <3>3, <2>3
    <3>4. CASE i \in 1 .. m
      <4>1. g[i] = Step(g, i)
        BY <2>1, <3>4
      <4> QED BY <3>2, <3>4, <2>3, <4>1
    <3>5. i = m + 1 \/ i \in 1 .. m
      OBVIOUS
    <3> QED BY <3>3, <3>4, <3>5
  <2>5. Upto(h, m + 1)
    <3> HIDE DEF Step
    <3> QED BY <2>2, <2>4
  <2> HIDE DEF Upto
  <2>6. \E k : Upto(k, m + 1)
    BY <2>5
  <2> QED BY <2>6
<1>3. Nat \subseteq T
  <2> HIDE DEF T
  <2> QED BY <1>1, <1>2, SetInduction
<1>4. PICK g : Upto(g, Len(seqs))
  BY <1>3
<1>5. g = Longer(seqs, g)
  <2> DEFINE f == Longer(seqs, g)
  <2>1. f = [i \in 1 .. Len(seqs) |-> f[i]]
    BY DEF Longer
  <2>2. \A i \in 1 .. Len(seqs) : f[i] = Step(g, i)
    BY DEF Longer
  <2> HIDE DEF f
  <2>3. g = f
    BY <1>4, <2>1, <2>2
  <2> QED BY <2>3 DEF f
<1> QED BY <1>5

(* FlattenSeq appends one sequence after the other.                        *)
LEMMA FlattenInSteps ==
  ASSUME NEW S, NEW seqs \in Seq(Seq(S))
  PROVE  \E f : /\ f[0] = <<>>
                /\ \A i \in 1 .. Len(seqs) : f[i] = f[i - 1] \o seqs[i]
                /\ FlattenSeq(seqs) = f[Len(seqs)]
<1> DEFINE g == CHOOSE k : k = Longer(seqs, k)
           f == [i \in 0 .. Len(seqs) |-> IF i = 0 THEN <<>> ELSE g[i]]
<1>1. g = Longer(seqs, g)
  BY FlattenExists
<1>2. Len(seqs) # 0 => FlattenSeq(seqs) = g[Len(seqs)]
  BY DEF FlattenSeq, Longer
<1>3. Len(seqs) = 0 => FlattenSeq(seqs) = <<>>
  BY DEF FlattenSeq
<1> HIDE DEF g
<1>4. \A i \in 1 .. Len(seqs) : g[i] = IF i = 1 THEN seqs[i] ELSE g[i - 1] \o seqs[i]
  <2> DEFINE h == Longer(seqs, g)
  <2>1. \A i \in 1 .. Len(seqs) : h[i] = IF i = 1 THEN seqs[i] ELSE g[i - 1] \o seqs[i]
    BY DEF Longer
  <2> HIDE DEF h
  <2>2. g = h
    BY <1>1 DEF h
  <2> QED BY <2>1, <2>2
<1>5. f[0] = <<>> /\ \A i \in 1 .. Len(seqs) : f[i] = g[i]
  OBVIOUS
<1> HIDE DEF f
<1>6. ASSUME NEW i \in 1 .. Len(seqs) PROVE f[i] = f[i - 1] \o seqs[i]
  <2>1. CASE i = 1
    <3>1. seqs[i] \in Seq(S) /\ <<>> \o seqs[i] = seqs[i]
      OBVIOUS
    <3>2. f[i] = seqs[i] /\ f[i - 1] = <<>>
      BY <2>1, <1>4, <1>5
    <3> QED BY <3>1, <3>2
  <2>2. CASE i # 1
    <3>1. i - 1 \in 1 .. Len(seqs)
      BY <2>2
    <3> QED BY <2>2, <3>1, <1>4, <1>5
  <2> QED BY <2>1, <2>2
<1>7. FlattenSeq(seqs) = f[Len(seqs)]
  <2>1. CASE Len(seqs) = 0
    BY <2>1, <1>3, <1>5
  <2>2. CASE Len(seqs) # 0
    BY <2>2, <1>2, <1>5
  <2> QED BY <2>1, <2>2
<1> QED BY <1>5, <1>6, <1>7

(* The expansion of the first i parts of a list, for every i.              *)
Expansions(parts) ==
  CHOOSE f : /\ f[0] = <<>>
             /\ \A i \in 1 .. Len(parts) : f[i] = f[i - 1] \o InstancesOf(parts[i])
             /\ Instances(parts) = f[Len(parts)]

LEMMA ExpansionsGrow ==
  ASSUME NEW parts \in Seq(Parts)
  PROVE  /\ Expansions(parts)[0] = <<>>
         /\ \A i \in 1 .. Len(parts) :
              Expansions(parts)[i] = Expansions(parts)[i - 1] \o InstancesOf(parts[i])
         /\ Instances(parts) = Expansions(parts)[Len(parts)]
<1> DEFINE seqs == [i \in DOMAIN parts |-> InstancesOf(parts[i])]
<1>1. DOMAIN parts = 1 .. Len(parts) /\ \A i \in 1 .. Len(parts) : parts[i] \in Parts
  OBVIOUS
<1>2. seqs \in Seq(Seq(Names)) /\ Len(seqs) = Len(parts)
  <2>1. seqs \in [1 .. Len(parts) -> Seq(Names)]
    BY <1>1, PartsHaveObjects
  <2> QED BY <2>1
<1>3. \A i \in 1 .. Len(parts) : seqs[i] = InstancesOf(parts[i])
  BY <1>1
<1>4. Instances(parts) = FlattenSeq(seqs)
  BY DEF Instances
<1> HIDE DEF seqs
<1>5. PICK f : /\ f[0] = <<>>
               /\ \A i \in 1 .. Len(seqs) : f[i] = f[i - 1] \o seqs[i]
               /\ FlattenSeq(seqs) = f[Len(seqs)]
  BY <1>2, FlattenInSteps
<1>6. /\ f[0] = <<>>
      /\ \A i \in 1 .. Len(parts) : f[i] = f[i - 1] \o InstancesOf(parts[i])
      /\ Instances(parts) = f[Len(parts)]
  BY <1>2, <1>3, <1>4, <1>5
<1> QED BY <1>6, Zenon DEF Expansions

(* A call has built the instances of its parts up to the one it is at, in  *)
(* the order of the list, and of nothing but parts that passed the checks. *)
Ordered ==
  \A b \in Builds :
    /\ phase[b] \in {"parts", "executing", "asking", "ok"} => Normalizes(PartsOf(b))
    /\ phase[b] = "parts" =>
         /\ built[b] = Expansions(PartsOf(b))[at[b] - 1]
         /\ \A i \in 1 .. at[b] - 1 : ExpandsAlone(PartsOf(b)[i])
    /\ InPart(b) =>
         /\ built[b] \o todo[b] = Expansions(PartsOf(b))[at[b]]
         /\ \A i \in 1 .. at[b] : ExpandsAlone(PartsOf(b)[i])
    /\ phase[b] = "ok" =>
         /\ built[b] = Instances(PartsOf(b))
         /\ \A i \in 1 .. Len(PartsOf(b)) : ExpandsAlone(PartsOf(b)[i])

LEMMA InitOrdered == Init => Ordered
BY DEF Init, Ordered, InPart

(* The variables Ordered is about, and how a step changes them.            *)
LEMMA NextOrdered == BuildInv /\ Ordered /\ [Next]_vars => Ordered'
<1> SUFFICES ASSUME BuildInv, Ordered, [Next]_vars PROVE Ordered'
  OBVIOUS
<1> DEFINE Ord(b, ph, bu, to, n) ==
      /\ ph \in {"parts", "executing", "asking", "ok"} => Normalizes(PartsOf(b))
      /\ ph = "parts" =>
           /\ bu = Expansions(PartsOf(b))[n - 1]
           /\ \A i \in 1 .. n - 1 : ExpandsAlone(PartsOf(b)[i])
      /\ ph \in {"executing", "asking"} =>
           /\ bu \o to = Expansions(PartsOf(b))[n]
           /\ \A i \in 1 .. n : ExpandsAlone(PartsOf(b)[i])
      /\ ph = "ok" =>
           /\ bu = Instances(PartsOf(b))
           /\ \A i \in 1 .. Len(PartsOf(b)) : ExpandsAlone(PartsOf(b)[i])
<1>1. \A b \in Builds : Ord(b, phase[b], built[b], todo[b], at[b])
  BY DEF Ordered, InPart
<1>2. SUFFICES /\ call' = call
               /\ \A b \in Builds : Ord(b, phase'[b], built'[b], todo'[b], at'[b])
  BY DEF Ordered, InPart, PartsOf
<1>3. call' = call
  BY DEF Next, vars, callVars, Pick, SessionEnds, Start, BeginPart, Register, AskFails,
         Return, ExecuteSucceeds, ExecuteFails, ExecuteTimesOut, Executes, UserDeletes,
         LateCodeRuns
<1>4. ASSUME NEW b \in Builds, NEW ph, NEW bu, NEW to, NEW n,
             ph = "failed"
      PROVE  Ord(b, ph, bu, to, n)
  BY <1>4
<1>5. /\ phase \in [Builds -> Phases] /\ at \in [Builds -> Nat]
      /\ todo \in [Builds -> Seq(Names)] /\ built \in [Builds -> Seq(Names)]
      /\ \A b \in Builds : at[b] \in 1 .. Len(PartsOf(b)) + 1
  BY DEF BuildInv, TypeOK
<1>6. \A b \in Builds : PartsOf(b) \in Seq(Parts) /\ Len(PartsOf(b)) \in Nat
  BY KindOfCall DEF BuildInv
<1>7. ASSUME UNCHANGED <<phase, built, todo, at>>
      PROVE  \A b \in Builds : Ord(b, phase'[b], built'[b], todo'[b], at'[b])
  BY <1>1, <1>7
<1>8. CASE Pick \/ (\E n \in Names : UserDeletes(n))
           \/ (\E n \in Names, b \in Builds : LateCodeRuns(n, b)) \/ UNCHANGED vars
  BY <1>3, <1>7, <1>8 DEF Pick, UserDeletes, LateCodeRuns, vars, callVars
<1>9. ASSUME NEW b \in Builds,
             \A c \in Builds : c # b => /\ phase'[c] = phase[c] /\ built'[c] = built[c]
                                       /\ todo'[c] = todo[c] /\ at'[c] = at[c],
             Ord(b, phase'[b], built'[b], todo'[b], at'[b])
      PROVE  \A c \in Builds : Ord(c, phase'[c], built'[c], todo'[c], at'[c])
  <2> HIDE DEF Ord
  <2> QED BY <1>1, <1>9
<1>10. ASSUME NEW b \in Builds, Start(b)
       PROVE  \A c \in Builds : Ord(c, phase'[c], built'[c], todo'[c], at'[c])
  <2>1. /\ phase[b] = "waiting" /\ UNCHANGED <<built, todo, at>>
        /\ \A c \in Builds : c # b => phase'[c] = phase[c]
        /\ phase'[b] = IF Normalizes(PartsOf(b)) THEN "parts" ELSE "failed"
    BY <1>5, <1>10 DEF Start, Starts, GoTo
  <2>2. built[b] = <<>> /\ at[b] = 1
    BY <2>1 DEF BuildInv, Untouched, Fresh
  <2>3. Expansions(PartsOf(b))[0] = <<>>
    BY <1>6, ExpansionsGrow
  <2>4. Ord(b, phase'[b], built'[b], todo'[b], at'[b])
    BY <2>1, <2>2, <2>3
  <2> HIDE DEF Ord
  <2> QED BY <1>9, <2>1, <2>4
<1>11. ASSUME NEW b \in Builds, BeginPart(b)
       PROVE  \A c \in Builds : Ord(c, phase'[c], built'[c], todo'[c], at'[c])
  <2>1. /\ phase[b] = "parts" /\ at[b] <= Len(PartsOf(b)) /\ UNCHANGED <<built, at>>
        /\ \A c \in Builds : c # b => phase'[c] = phase[c] /\ todo'[c] = todo[c]
        /\ \/ /\ phase'[b] = "executing" /\ todo'[b] = InstancesOf(PartAt(b))
              /\ ExpandsAlone(PartAt(b))
           \/ phase'[b] = "failed"
    BY <1>5, <1>11 DEF BeginPart, GoTo
  <2>2. at[b] \in 1 .. Len(PartsOf(b)) /\ PartAt(b) = PartsOf(b)[at[b]]
    <3>1. at[b] \in 1 .. Len(PartsOf(b)) + 1
      BY <1>5
    <3> QED BY <1>6, <2>1, <3>1 DEF PartAt
  <2>3. /\ Normalizes(PartsOf(b)) /\ built[b] = Expansions(PartsOf(b))[at[b] - 1]
        /\ \A i \in 1 .. at[b] - 1 : ExpandsAlone(PartsOf(b)[i])
    BY <1>1, <2>1
  <2>4. Expansions(PartsOf(b))[at[b]] = built[b] \o InstancesOf(PartAt(b))
    BY <1>6, <2>2, <2>3, ExpansionsGrow
  <2>5. ASSUME ExpandsAlone(PartAt(b)), NEW i \in 1 .. at[b]
        PROVE  ExpandsAlone(PartsOf(b)[i])
    <3>1. i = at[b] \/ i \in 1 .. at[b] - 1
      BY <2>2
    <3> QED BY <3>1, <2>2, <2>3, <2>5
  <2>6. Ord(b, phase'[b], built'[b], todo'[b], at'[b])
    BY <2>1, <2>3, <2>4, <2>5
  <2> HIDE DEF Ord
  <2> QED BY <1>9, <2>1, <2>6
<1>12. ASSUME NEW b \in Builds, ExecuteSucceeds(b) \/ ExecuteFails(b) \/ ExecuteTimesOut(b)
       PROVE  \A c \in Builds : Ord(c, phase'[c], built'[c], todo'[c], at'[c])
  <2>1. /\ phase[b] = "executing" /\ UNCHANGED <<built, todo, at>>
        /\ \A c \in Builds : c # b => phase'[c] = phase[c]
        /\ phase'[b] \in {"asking", "failed"}
    BY <1>5, <1>12 DEF ExecuteSucceeds, ExecuteFails, ExecuteTimesOut, Executes, GoTo
  <2>2. Ord(b, phase'[b], built'[b], todo'[b], at'[b])
    BY <1>1, <2>1
  <2> HIDE DEF Ord
  <2> QED BY <1>9, <2>1, <2>2
<1>13. ASSUME NEW b \in Builds, Register(b)
       PROVE  \A c \in Builds : Ord(c, phase'[c], built'[c], todo'[c], at'[c])
  <2> DEFINE h == Head(todo[b])
  <2>1. /\ phase[b] = "asking"
        /\ \A c \in Builds : c # b => /\ phase'[c] = phase[c] /\ built'[c] = built[c]
                                      /\ todo'[c] = todo[c] /\ at'[c] = at[c]
        /\ built'[b] = built[b] \o <<h>> /\ todo'[b] = Tail(todo[b])
        /\ \/ Len(todo[b]) = 1 /\ phase'[b] = "parts" /\ at'[b] = at[b] + 1
           \/ phase'[b] = "executing" /\ at'[b] = at[b]
    BY <1>5, <1>13 DEF Register, GoTo, ToRegister
  <2>2. todo[b] # <<>> /\ todo[b] \in Seq(Names) /\ built[b] \in Seq(Names) /\ at[b] \in Nat
    BY <1>5, <2>1 DEF BuildInv, TypeOK
  <2>3. /\ built'[b] \o todo'[b] = built[b] \o todo[b]
        /\ Len(todo[b]) = 1 => built'[b] = built[b] \o todo[b]
    <3>1. h \in Names /\ Tail(todo[b]) \in Seq(Names)
      BY <2>2
    <3>2. <<h>> \o Tail(todo[b]) = todo[b]
      BY <2>2
    <3>3. (built[b] \o <<h>>) \o Tail(todo[b]) = built[b] \o (<<h>> \o Tail(todo[b]))
      <4>1. <<h>> \in Seq(Names)
        BY <3>1
      <4>2. \A r, t, u \in Seq(Names) : (r \o t) \o u = r \o (t \o u)
        BY ConcatAssociative
      <4> HIDE DEF h
      <4> QED BY <2>2, <3>1, <4>1, <4>2, Zenon
    <3>4. Len(todo[b]) = 1 => todo[b] = <<h>>
      BY <2>2
    <3> QED BY <2>1, <3>2, <3>3, <3>4
  <2>4. /\ Normalizes(PartsOf(b)) /\ built[b] \o todo[b] = Expansions(PartsOf(b))[at[b]]
        /\ \A i \in 1 .. at[b] : ExpandsAlone(PartsOf(b)[i])
    BY <1>1, <2>1
  <2>5. Ord(b, phase'[b], built'[b], todo'[b], at'[b])
    <3>1. CASE Len(todo[b]) = 1 /\ phase'[b] = "parts" /\ at'[b] = at[b] + 1
      <4>1. at'[b] - 1 = at[b]
        <5>1. \A n \in Nat : (n + 1) - 1 = n
          OBVIOUS
        <5> QED BY ONLY <5>1, <2>2, <3>1, Zenon
      <4> QED BY <2>3, <2>4, <3>1, <4>1
    <3>2. CASE phase'[b] = "executing" /\ at'[b] = at[b]
      BY <2>3, <2>4, <3>2
    <3> QED BY <2>1, <3>1, <3>2
  <2> HIDE DEF Ord
  <2> QED BY <1>9, <2>1, <2>5
<1>14. ASSUME NEW b \in Builds, AskFails(b)
       PROVE  \A c \in Builds : Ord(c, phase'[c], built'[c], todo'[c], at'[c])
  <2>1. /\ UNCHANGED <<built, todo, at>> /\ phase'[b] = "failed"
        /\ \A c \in Builds : c # b => phase'[c] = phase[c]
    BY <1>5, <1>14 DEF AskFails, GoTo
  <2>2. Ord(b, phase'[b], built'[b], todo'[b], at'[b])
    BY <2>1
  <2> HIDE DEF Ord
  <2> QED BY <1>9, <2>1, <2>2
<1>15. ASSUME NEW b \in Builds, Return(b)
       PROVE  \A c \in Builds : Ord(c, phase'[c], built'[c], todo'[c], at'[c])
  <2>1. /\ phase[b] = "parts" /\ at[b] > Len(PartsOf(b)) /\ UNCHANGED <<built, todo, at>>
        /\ \A c \in Builds : c # b => phase'[c] = phase[c]
        /\ phase'[b] = "ok"
    BY <1>5, <1>15 DEF Return, GoTo
  <2>2. at[b] - 1 = Len(PartsOf(b))
    <3>1. at[b] \in 1 .. Len(PartsOf(b)) + 1
      BY <1>5
    <3> QED BY <1>6, <2>1, <3>1
  <2>3. /\ Normalizes(PartsOf(b)) /\ built[b] = Expansions(PartsOf(b))[at[b] - 1]
        /\ \A i \in 1 .. at[b] - 1 : ExpandsAlone(PartsOf(b)[i])
    BY <1>1, <2>1
  <2>4. built[b] = Instances(PartsOf(b))
    BY <1>6, <2>2, <2>3, ExpansionsGrow
  <2>5. Ord(b, phase'[b], built'[b], todo'[b], at'[b])
    BY <2>1, <2>2, <2>3, <2>4
  <2> HIDE DEF Ord
  <2> QED BY <1>9, <2>1, <2>5
<1>16. CASE SessionEnds
  <2>1. /\ UNCHANGED <<built, todo, at>>
        /\ \A c \in Builds : phase'[c] = "failed" \/ phase'[c] = phase[c]
    BY <1>5, <1>16 DEF SessionEnds
  <2>2. ASSUME NEW c \in Builds PROVE Ord(c, phase'[c], built'[c], todo'[c], at'[c])
    <3>1. CASE phase'[c] = "failed"
      BY <3>1
    <3>2. CASE phase'[c] = phase[c]
      <4>1. built'[c] = built[c] /\ todo'[c] = todo[c] /\ at'[c] = at[c]
        BY <2>1
      <4> HIDE DEF Ord
      <4> QED BY <1>1, <3>2, <4>1
    <3> QED BY <2>1, <3>1, <3>2
  <2> HIDE DEF Ord
  <2> QED BY <1>3, <2>2, Zenon
<1> QED
  <2> HIDE DEF Ord
  <2> QED BY <1>3, <1>8, <1>10, <1>11, <1>12, <1>13, <1>14, <1>15, <1>16 DEF Next

(* A call that returned has built the expansion of its list, in order:     *)
(* every instance of every part, and nothing else.                         *)
BuildsItsExpansion ==
  \A b \in Builds : phase[b] = "ok" => built[b] = Instances(PartsOf(b))

(* build_named_part, called one part at a time, does what                  *)
(* expand_part_instances says of the whole list.                           *)
THEOREM BuildsInOrder == Spec => []BuildsItsExpansion
<1>1. Spec => [](BuildInv /\ Ordered)
  BY InitBuildInv, NextBuildInv, InitOrdered, NextOrdered, PTL DEF Spec
<1>2. Ordered => BuildsItsExpansion
  BY DEF Ordered, BuildsItsExpansion
<1> QED BY <1>1, <1>2, PTL

(* A call that returned has built no object twice exactly when its whole   *)
(* list would have passed the check of expand_part_instances, which        *)
(* build_from_spec applies to one part at a time only.                     *)
NamesOnceIfTheListIsChecked ==
  \A b \in Builds : phase[b] = "ok" => (IsInjective(built[b]) <=> ExpandsWell(PartsOf(b)))

(* A list of one part has been checked when the part has.                  *)
LEMMA ListOfOne ==
  ASSUME NEW parts \in Seq(Parts), Len(parts) = 1
  PROVE  parts = <<parts[1]>>
OBVIOUS

(* BuildsEachNameOnce fails for lists that the missing check would reject, *)
(* and for no other.                                                       *)
THEOREM TheMissingCheckIsTheCause == Spec => []NamesOnceIfTheListIsChecked
<1>1. Spec => [](BuildInv /\ Ordered)
  BY InitBuildInv, NextBuildInv, InitOrdered, NextOrdered, PTL DEF Spec
<1>2. ASSUME BuildInv, Ordered PROVE NamesOnceIfTheListIsChecked
  <2> SUFFICES ASSUME NEW b \in Builds, phase[b] = "ok"
               PROVE  IsInjective(built[b]) <=> ExpandsWell(PartsOf(b))
    BY DEF NamesOnceIfTheListIsChecked
  <2>1. /\ Normalizes(PartsOf(b)) /\ built[b] = Instances(PartsOf(b))
        /\ \A i \in 1 .. Len(PartsOf(b)) : ExpandsAlone(PartsOf(b)[i])
    BY <1>2 DEF Ordered
  <2>2. \A part : ExpandsAlone(part) => CountOf(part) >= 1
    BY DEF ExpandsAlone, ExpandsWell
  <2>3. DOMAIN PartsOf(b) = 1 .. Len(PartsOf(b))
    BY <1>2, KindOfCall DEF BuildInv
  <2>4. \A i \in DOMAIN PartsOf(b) : CountOf(PartsOf(b)[i]) >= 1
    BY <2>1, <2>2, <2>3
  <2> QED BY <2>1, <2>4 DEF ExpandsWell
<1> QED BY <1>1, <1>2, PTL

(* build_named_part, called by itself, never builds a name twice.          *)
PartsBuildNamesOnce ==
  \A b \in Builds : phase[b] = "ok" /\ call[b].kind = "part" => IsInjective(built[b])

(* Only lists of several parts are exposed to the missing check.           *)
THEOREM AloneIsChecked == Spec => []PartsBuildNamesOnce
<1>1. Spec => [](BuildInv /\ Ordered)
  BY InitBuildInv, NextBuildInv, InitOrdered, NextOrdered, PTL DEF Spec
<1>2. ASSUME BuildInv, Ordered PROVE PartsBuildNamesOnce
  <2> SUFFICES ASSUME NEW b \in Builds, phase[b] = "ok", call[b].kind = "part"
               PROVE  IsInjective(built[b])
    BY DEF PartsBuildNamesOnce
  <2>1. PartsOf(b) \in Seq(Parts) /\ Len(PartsOf(b)) = 1
    BY <1>2, KindOfCall DEF BuildInv
  <2>2. built[b] = Instances(PartsOf(b)) /\ ExpandsAlone(PartsOf(b)[1])
    <3>1. 1 \in 1 .. Len(PartsOf(b))
      BY <2>1
    <3> QED BY <1>2, <3>1 DEF Ordered
  <2>3. ExpandsWell(PartsOf(b))
    BY <2>1, <2>2, ListOfOne DEF ExpandsAlone
  <2> QED BY <2>2, <2>3 DEF ExpandsWell
<1> QED BY <1>1, <1>2, PTL

(* The check of one part can only fail for its generator or its count: the *)
(* numbers a counted part's instances get keep their names apart, so that  *)
(* the comparison of names is idle when build_named_part makes it.         *)
THEOREM CheckOfOnePart ==
  ASSUME NEW S, Nat \subseteq S, NEW part, part.name \in Seq(S), part.count \in Int
  PROVE  ExpandsAlone(part) <=> part.generator \in Supported /\ CountOf(part) >= 1
<1> DEFINE parts == <<part>>
           seqs == [i \in DOMAIN parts |-> InstancesOf(parts[i])]
<1>1. DOMAIN parts = {1} /\ parts[1] = part /\ parts # <<>>
  OBVIOUS
<1>2. Normalizes(parts) <=> part.generator \in Supported
  BY <1>1 DEF Normalizes
<1>3. CountOf(part) \in Int
  BY DEF CountOf
<1>4. InstancesOf(part) \in Seq(Seq(S)) /\ IsInjective(InstancesOf(part))
  <2>1. CASE part.generator = "counted" /\ CountOf(part) > 1
    <3> DEFINE n == CountOf(part)
               s == [i \in 1 .. n |-> Append(part.name, i)]
    <3>1. InstancesOf(part) = s /\ n \in Nat
      BY <2>1, <1>3 DEF InstancesOf
    <3>2. \A i \in 1 .. n : /\ Append(part.name, i) \in Seq(S)
                            /\ Append(part.name, i)[Len(part.name) + 1] = i
      OBVIOUS
    <3>3. s \in [1 .. n -> Seq(S)]
      BY <3>2
    <3>4. ASSUME NEW i \in 1 .. n, NEW j \in 1 .. n, s[i] = s[j] PROVE i = j
      BY <3>2, <3>4
    <3> HIDE DEF s
    <3>5. s \in Seq(Seq(S)) /\ DOMAIN s = 1 .. n
      BY <3>1, <3>3
    <3> QED BY <3>1, <3>4, <3>5 DEF IsInjective
  <2>2. CASE ~(part.generator = "counted" /\ CountOf(part) > 1)
    BY <2>2 DEF InstancesOf, IsInjective
  <2> QED BY <2>1, <2>2
<1>5. Instances(parts) = InstancesOf(part)
  <2>1. seqs = <<InstancesOf(part)>>
    BY <1>1
  <2>2. seqs \in Seq(Seq(Seq(S))) /\ Len(seqs) = 1 /\ seqs[1] = InstancesOf(part)
    BY <1>4, <2>1
  <2>3. Instances(parts) = FlattenSeq(seqs)
    BY DEF Instances
  <2> HIDE DEF seqs
  <2>4. PICK f : /\ f[0] = <<>>
                 /\ \A i \in 1 .. Len(seqs) : f[i] = f[i - 1] \o seqs[i]
                 /\ FlattenSeq(seqs) = f[Len(seqs)]
    BY <2>2, FlattenInSteps
  <2>5. f[1] = f[0] \o seqs[1]
    <3>1. 1 \in 1 .. Len(seqs) /\ 1 - 1 = 0
      BY <2>2
    <3> QED BY <2>4, <3>1
  <2>6. <<>> \o InstancesOf(part) = InstancesOf(part)
    BY <1>4
  <2> QED BY <2>2, <2>3, <2>4, <2>5, <2>6
<1> QED BY <1>1, <1>2, <1>4, <1>5 DEF ExpandsAlone, ExpandsWell
=============================================================================
