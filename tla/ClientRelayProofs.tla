------------------------- MODULE ClientRelayProofs -------------------------
(***************************************************************************)
(* Proofs about ClientRelay, for any calls, frames and size of the         *)
(* executor's memory: what it remembers, that it runs nothing again while  *)
(* it remembers it, that no speech outlives an interruption, that no call  *)
(* gets lost on its way, and what an interruption may have to wait for.    *)
(***************************************************************************)
EXTENDS ClientRelay, TLAPS

(* The executor remembers the end of the history of answered calls.        *)
EndOfHistory ==
  /\ Len(recentIds) <= Len(remembered)
  /\ Len(recentIds) = MaxRecent \/ Len(recentIds) = Len(remembered)
  /\ \A i \in 1 .. Len(recentIds) :
       recentIds[i] = remembered[Len(remembered) - Len(recentIds) + i]

(* g[i] is the generation of what the loop reads before frame i: the       *)
(* interrupts on their way lead from what the client has handled to what   *)
(* the server has sent.                                                    *)
Dated(frames, g, from, to) ==
  /\ g \in [1 .. Len(frames) + 1 -> 0 .. MaxSpeech]
  /\ g[1] = from /\ g[Len(frames) + 1] = to
  /\ \A i \in 1 .. Len(frames) :
       /\ g[i + 1] = IF frames[i] = Interrupt THEN g[i] + 1 ELSE g[i]
       /\ frames[i] \in AudioFrames => frames[i].generation = g[i]

InboxDated == linked => \E g : Dated(inbox, g, cleared, barged)

RelayInv == TypeOK /\ MemoryConsistent /\ EndOfHistory /\ InboxDated /\ NoStaleSpeech

-----------------------------------------------------------------------------
(* Sequences *)

LEMMA Appended ==
  ASSUME NEW S, NEW s \in Seq(S), NEW x \in S
  PROVE  /\ Append(s, x) \in Seq(S) /\ Len(Append(s, x)) = Len(s) + 1 /\ Len(s) \in Nat
         /\ \A i \in 1 .. Len(s) : Append(s, x)[i] = s[i]
         /\ Append(s, x)[Len(s) + 1] = x
OBVIOUS

LEMMA HeadAndTail ==
  ASSUME NEW S, NEW s \in Seq(S), s # <<>>
  PROVE  /\ Len(s) \in Nat /\ Len(s) > 0 /\ Head(s) = s[1] /\ Head(s) \in S
         /\ Tail(s) \in Seq(S) /\ Len(Tail(s)) = Len(s) - 1
         /\ \A i \in 1 .. Len(s) - 1 : Tail(s)[i] = s[i + 1]
OBVIOUS

LEMMA InRange ==
  ASSUME NEW S, NEW s \in Seq(S), NEW x
  PROVE  x \in Range(s) <=> \E i \in 1 .. Len(s) : x = s[i]
BY DEF Range

LEMMA DistinctItems ==
  ASSUME NEW S, NEW s \in Seq(S)
  PROVE  IsInjective(s) <=> \A i, j \in 1 .. Len(s) : s[i] = s[j] => i = j
BY DEF IsInjective

-----------------------------------------------------------------------------
(* The memory *)

LEMMA Bounds == MaxRecent \in Nat /\ MaxRecent > 0 /\ MaxSpeech \in Nat /\ MaxCopies \in Nat
BY RelayAssumption

(* The ids without the oldest, when the memory is full.                    *)
Kept == IF Evicts THEN Tail(recentIds) ELSE recentIds

LEMMA AfterEviction ==
  ASSUME TypeOK, MemoryConsistent, EndOfHistory
  PROVE  /\ Kept \in Seq(Calls) /\ Len(Kept) < MaxRecent /\ IsInjective(Kept)
         /\ Range(Kept) = recentSet \ (IF Evicts THEN {Head(recentIds)} ELSE {})
         /\ Len(Kept) <= Len(remembered)
         /\ Len(Kept) = MaxRecent - 1 \/ Len(Kept) = Len(remembered)
         /\ \A i \in 1 .. Len(Kept) : Kept[i] = remembered[Len(remembered) - Len(Kept) + i]
<1> DEFINE ids == Kept
<1>1. recentIds \in Seq(Calls) /\ remembered \in Seq(Calls)
      /\ Len(recentIds) \in Nat /\ Len(remembered) \in Nat /\ Len(recentIds) <= MaxRecent
      /\ recentSet = Range(recentIds)
  BY SMTT(40) DEF TypeOK, MemoryConsistent
<1>2. CASE Evicts
  <2>1. recentIds # <<>> /\ Len(recentIds) = MaxRecent /\ ids = Tail(recentIds)
    BY <1>1, <1>2, Bounds DEF Evicts, Kept
  <2> HIDE DEF ids
  <2>2. /\ Head(recentIds) = recentIds[1]
        /\ ids \in Seq(Calls) /\ Len(ids) = MaxRecent - 1
        /\ \A i \in 1 .. MaxRecent - 1 : ids[i] = recentIds[i + 1]
    BY <1>1, <2>1, HeadAndTail
  <2>3. \A i, j \in 1 .. MaxRecent : recentIds[i] = recentIds[j] => i = j
    BY <1>1, <2>1, DistinctItems DEF MemoryConsistent
  <2>4. \A i \in 1 .. MaxRecent - 1 : i + 1 \in 1 .. MaxRecent /\ i + 1 # 1
    BY Bounds
  <2>5. IsInjective(ids)
    <3>1. \A i, j \in 1 .. MaxRecent - 1 : ids[i] = ids[j] => i = j
      BY <2>2, <2>3, <2>4
    <3> QED BY <3>1, <2>2, DistinctItems
  <2>6. Range(ids) = recentSet \ {Head(recentIds)}
    <3>1. ASSUME NEW x \in Range(ids) PROVE x \in Range(recentIds) /\ x # recentIds[1]
      <4>1. PICK i \in 1 .. MaxRecent - 1 : x = ids[i]
        <5>1. x \in Range(ids) /\ ids \in Seq(Calls) /\ Len(ids) = MaxRecent - 1
          BY <3>1, <2>2
        <5>2. \E i \in 1 .. Len(ids) : x = ids[i]
          BY <5>1, InRange
        <5> QED BY <5>1, <5>2
      <4>2. x = recentIds[i + 1] /\ i + 1 \in 1 .. MaxRecent /\ i + 1 # 1 /\ 1 \in 1 .. MaxRecent
        BY <4>1, <2>2, <2>4, Bounds
      <4> QED BY <4>2, <2>1, <2>3, <1>1, InRange
    <3>2. ASSUME NEW x \in Range(recentIds), x # recentIds[1] PROVE x \in Range(ids)
      <4>1. PICK i \in 1 .. MaxRecent : x = recentIds[i]
        BY <2>1, <1>1, <3>2, InRange
      <4>2. i - 1 \in 1 .. MaxRecent - 1 /\ x = ids[i - 1]
        <5>1. i # 1
          BY <4>1, <3>2
        <5>2. i - 1 \in 1 .. MaxRecent - 1 /\ i - 1 + 1 = i
          BY <5>1, Bounds
        <5> QED BY <5>2, <4>1, <2>2
      <4> QED BY <4>2, <2>2, InRange
    <3> QED BY <3>1, <3>2, <1>1, <2>2
  <2>7. \A i \in 1 .. Len(ids) : ids[i] = remembered[Len(remembered) - Len(ids) + i]
    <3>1. ASSUME NEW i \in 1 .. MaxRecent - 1
          PROVE  ids[i] = remembered[Len(remembered) - (MaxRecent - 1) + i]
      <4>1. ids[i] = remembered[Len(remembered) - MaxRecent + (i + 1)]
        BY <2>1, <2>2, <2>4 DEF EndOfHistory
      <4>2. Len(remembered) - MaxRecent + (i + 1) = Len(remembered) - (MaxRecent - 1) + i
        BY <1>1, Bounds
      <4> QED BY <4>1, <4>2
    <3> QED BY <3>1, <2>2
  <2>8. Len(ids) <= Len(remembered) /\ Len(ids) < MaxRecent
    BY <1>1, <2>1, <2>2, Bounds DEF EndOfHistory
  <2> USE DEF ids
  <2> QED BY <1>2, <2>2, <2>5, <2>6, <2>7, <2>8
<1>3. CASE ~Evicts
  <2>1. ids = recentIds /\ Len(recentIds) # MaxRecent
    BY <1>3 DEF Evicts, Kept
  <2> QED BY <1>1, <1>3, <2>1, Bounds DEF MemoryConsistent, EndOfHistory
<1> QED BY <1>2, <1>3

(* _remember_call_id keeps the two halves of the memory together.          *)
LEMMA RememberKeeps ==
  ASSUME TypeOK, MemoryConsistent, EndOfHistory, NEW c \in Calls, Remember(c)
  PROVE  /\ recentIds' \in Seq(Calls) /\ recentSet' \subseteq Calls /\ remembered' \in Seq(Calls)
         /\ MemoryConsistent' /\ EndOfHistory'
<1>1. CASE c \in recentSet
  <2>1. UNCHANGED <<recentIds, recentSet, remembered>>
    BY <1>1 DEF Remember, memoryVars
  <2> QED BY <2>1 DEF TypeOK, MemoryConsistent, EndOfHistory
<1>2. CASE c \notin recentSet
  <2> DEFINE ids == Kept
  <2>1. /\ recentIds' = Append(ids, c)
        /\ recentSet' = (recentSet \ (IF Evicts THEN {Head(recentIds)} ELSE {})) \cup {c}
        /\ remembered' = Append(remembered, c)
    BY <1>2 DEF Remember, NewRecentIds, NewRecentSet, Kept
  <2>2. /\ ids \in Seq(Calls) /\ Len(ids) < MaxRecent /\ IsInjective(ids)
        /\ Range(ids) = recentSet \ (IF Evicts THEN {Head(recentIds)} ELSE {})
        /\ Len(ids) <= Len(remembered)
        /\ Len(ids) = MaxRecent - 1 \/ Len(ids) = Len(remembered)
        /\ \A i \in 1 .. Len(ids) : ids[i] = remembered[Len(remembered) - Len(ids) + i]
    BY AfterEviction
  <2> HIDE DEF ids
  <2>3. remembered \in Seq(Calls) /\ recentSet \subseteq Calls
    BY DEF TypeOK
  <2>4. /\ recentIds' \in Seq(Calls) /\ Len(recentIds') = Len(ids) + 1 /\ Len(ids) \in Nat
        /\ \A i \in 1 .. Len(ids) : recentIds'[i] = ids[i]
        /\ recentIds'[Len(ids) + 1] = c
    BY <2>1, <2>2, Appended
  <2>5. /\ remembered' \in Seq(Calls) /\ Len(remembered') = Len(remembered) + 1
        /\ Len(remembered) \in Nat
        /\ \A i \in 1 .. Len(remembered) : remembered'[i] = remembered[i]
        /\ remembered'[Len(remembered) + 1] = c
    BY <2>1, <2>3, Appended
  <2>6. Range(recentIds') = Range(ids) \cup {c}
    <3>1. \A x : x \in Range(recentIds') <=> \E i \in 1 .. Len(ids) + 1 : x = recentIds'[i]
      BY <2>4, InRange
    <3>2. \A x : x \in Range(ids) <=> \E i \in 1 .. Len(ids) : x = ids[i]
      BY <2>2, InRange
    <3>3. \A i \in 1 .. Len(ids) + 1 : i \in 1 .. Len(ids) \/ i = Len(ids) + 1
      BY <2>4
    <3>4. Len(ids) + 1 \in 1 .. Len(ids) + 1 /\ \A i \in 1 .. Len(ids) : i \in 1 .. Len(ids) + 1
      BY <2>4
    <3>5. \A x : x \in Range(recentIds') <=> x \in Range(ids) \/ x = c
      BY <3>1, <3>2, <3>3, <3>4, <2>4
    <3> QED BY <3>5
  <2>7. c \notin Range(ids)
    BY <1>2, <2>2
  <2>8. IsInjective(recentIds')
    <3>1. \A i, j \in 1 .. Len(ids) : ids[i] = ids[j] => i = j
      BY <2>2, DistinctItems
    <3>2. \A i \in 1 .. Len(ids) : ids[i] # c
      BY <2>2, <2>7, InRange
    <3>3. \A i \in 1 .. Len(ids) + 1 : i \in 1 .. Len(ids) \/ i = Len(ids) + 1
      BY <2>4
    <3>4. \A i, j \in 1 .. Len(ids) + 1 : recentIds'[i] = recentIds'[j] => i = j
      BY <3>1, <3>2, <3>3, <2>4
    <3> QED BY <3>4, <2>4, DistinctItems
  <2>9. MemoryConsistent'
    BY <2>1, <2>2, <2>4, <2>6, <2>8, Bounds DEF MemoryConsistent
  <2>10. EndOfHistory'
    <3>1. ASSUME NEW i \in 1 .. Len(ids) + 1
          PROVE  recentIds'[i] = remembered'[Len(remembered) + 1 - (Len(ids) + 1) + i]
      <4>1. CASE i = Len(ids) + 1
        <5>1. Len(remembered) + 1 - (Len(ids) + 1) + i = Len(remembered) + 1
          BY <4>1, <2>4, <2>5
        <5> QED BY <5>1, <4>1, <2>4, <2>5
      <4>2. CASE i \in 1 .. Len(ids)
        <5>1. /\ Len(remembered) + 1 - (Len(ids) + 1) + i = Len(remembered) - Len(ids) + i
              /\ Len(remembered) - Len(ids) + i \in 1 .. Len(remembered)
          BY <4>2, <2>2, <2>4, <2>5
        <5> QED BY <5>1, <4>2, <2>2, <2>4, <2>5
      <4> QED BY <4>1, <4>2, <2>4
    <3>2. Len(recentIds') <= Len(remembered')
      BY <2>2, <2>4, <2>5
    <3>3. Len(recentIds') = MaxRecent \/ Len(recentIds') = Len(remembered')
      BY <2>2, <2>4, <2>5, Bounds
    <3>4. \A i \in 1 .. Len(recentIds') :
            recentIds'[i] = remembered'[Len(remembered') - Len(recentIds') + i]
      BY <3>1, <2>4, <2>5
    <3> QED BY <3>2, <3>3, <3>4 DEF EndOfHistory
  <2>11. recentSet' \subseteq Calls
    BY <2>1, <2>3
  <2> QED BY <2>4, <2>5, <2>9, <2>10, <2>11
<1> QED BY <1>1, <1>2

(* What was among the last to be answered is remembered.                   *)
LEMMA LastAreRecent ==
  ASSUME TypeOK, MemoryConsistent, EndOfHistory
  PROVE  LastRemembered \subseteq recentSet
<1>1. ASSUME NEW j \in 1 .. Len(remembered), j + MaxRecent > Len(remembered)
      PROVE  remembered[j] \in recentSet
  <2> DEFINE i == j - (Len(remembered) - Len(recentIds))
  <2>1. Len(remembered) \in Nat /\ Len(recentIds) \in Nat /\ recentIds \in Seq(Calls)
    <3>1. recentIds \in Seq(Calls) /\ remembered \in Seq(Calls)
      BY DEF TypeOK
    <3> QED BY <3>1
  <2>2. i \in 1 .. Len(recentIds) /\ Len(remembered) - Len(recentIds) + i = j
    BY <2>1, <1>1, Bounds DEF EndOfHistory
  <2>3. recentIds[i] = remembered[j]
    BY <2>2 DEF EndOfHistory
  <2> QED BY <2>1, <2>2, <2>3, InRange DEF MemoryConsistent
<1> QED BY <1>1 DEF LastRemembered

-----------------------------------------------------------------------------
(* The frames on their way *)

LEMMA FrameKinds ==
  /\ \A frame \in ToolFrames : frame \in Frames /\ frame \notin AudioFrames /\ frame # Interrupt
  /\ \A frame \in AudioFrames : /\ frame \in Frames /\ frame # Interrupt
                                /\ frame.generation \in 0 .. MaxSpeech
  /\ Interrupt \in Frames /\ Interrupt \notin AudioFrames
<1>1. \A frame \in ToolFrames : frame.type = "tool_call"
  BY DEF ToolFrames
<1>2. \A frame \in AudioFrames : frame.type = "audio" /\ frame.generation \in 0 .. MaxSpeech
  BY DEF AudioFrames
<1>3. Interrupt.type = "interrupt"
  BY DEF Interrupt
<1> QED BY <1>1, <1>2, <1>3 DEF Frames

LEMMA DatedAppend ==
  ASSUME NEW frames \in Seq(Frames), NEW g, NEW from, NEW to, Dated(frames, g, from, to),
         NEW frame \in Frames, frame \in AudioFrames => frame.generation = to,
         NEW next \in 0 .. MaxSpeech, next = IF frame = Interrupt THEN to + 1 ELSE to
  PROVE  \E h : Dated(Append(frames, frame), h, from, next)
<1> DEFINE n == Len(frames)
           all == Append(frames, frame)
           h == [i \in 1 .. n + 2 |-> IF i = n + 2 THEN next ELSE g[i]]
<1>1. /\ n \in Nat /\ Len(all) = n + 1
      /\ \A i \in 1 .. n : all[i] = frames[i]
      /\ all[n + 1] = frame
  BY Appended
<1> HIDE DEF all
<1>2. /\ g \in [1 .. n + 1 -> 0 .. MaxSpeech]
      /\ g[1] = from /\ g[n + 1] = to
      /\ \A i \in 1 .. n : /\ g[i + 1] = IF frames[i] = Interrupt THEN g[i] + 1 ELSE g[i]
                           /\ frames[i] \in AudioFrames => frames[i].generation = g[i]
  BY DEF Dated
<1> HIDE DEF n
<1>3. /\ \A i \in 1 .. n + 1 : i \in 1 .. n + 2 /\ i # n + 2
      /\ \A i \in 1 .. n : i + 1 \in 1 .. n + 1 /\ i \in 1 .. n + 1
      /\ 1 \in 1 .. n + 1 /\ n + 1 \in 1 .. n + 1 /\ n + 2 \in 1 .. n + 2
      /\ \A i \in 1 .. n + 2 : i \in 1 .. n + 1 \/ i = n + 2
      /\ \A i \in 1 .. n + 1 : i \in 1 .. n \/ i = n + 1
      /\ n + 1 + 1 = n + 2
  BY <1>1
<1>4. /\ \A i \in 1 .. n + 1 : h[i] = g[i]
      /\ h[n + 2] = next
  BY <1>3
<1>5. h \in [1 .. n + 2 -> 0 .. MaxSpeech]
  <2>1. \A i \in 1 .. n + 2 : (IF i = n + 2 THEN next ELSE g[i]) \in 0 .. MaxSpeech
    BY <1>2, <1>3
  <2> QED BY <2>1
<1> HIDE DEF h
<1>6. ASSUME NEW i \in 1 .. n + 1
      PROVE  /\ h[i + 1] = IF all[i] = Interrupt THEN h[i] + 1 ELSE h[i]
             /\ all[i] \in AudioFrames => all[i].generation = h[i]
  <2>1. CASE i \in 1 .. n
    <3>1. h[i + 1] = g[i + 1] /\ h[i] = g[i] /\ all[i] = frames[i]
      BY <2>1, <1>1, <1>3, <1>4
    <3> QED BY <3>1, <2>1, <1>2
  <2>2. CASE i = n + 1
    <3>1. h[i + 1] = next /\ h[i] = to /\ all[i] = frame
      BY <2>2, <1>1, <1>2, <1>3, <1>4
    <3> QED BY <3>1
  <2> QED BY <2>1, <2>2, <1>3
<1>7. h[1] = from /\ h[n + 2] = next
  BY <1>2, <1>3, <1>4
<1>8. Dated(all, h, from, next)
  <2>1. Len(all) + 1 = n + 2
    BY <1>1
  <2> QED BY <1>1, <1>5, <1>6, <1>7, <2>1 DEF Dated
<1> QED BY <1>8 DEF all

LEMMA DatedTail ==
  ASSUME NEW frames \in Seq(Frames), frames # <<>>, NEW g, NEW from, NEW to,
         Dated(frames, g, from, to)
  PROVE  /\ from \in 0 .. MaxSpeech
         /\ Head(frames) \in AudioFrames => Head(frames).generation = from
         /\ Head(frames) # Interrupt => \E h : Dated(Tail(frames), h, from, to)
         /\ Head(frames) = Interrupt => /\ from + 1 \in 0 .. MaxSpeech
                                        /\ \E h : Dated(Tail(frames), h, from + 1, to)
<1> DEFINE n == Len(frames)
           rest == Tail(frames)
           h == [i \in 1 .. n |-> g[i + 1]]
<1>1. /\ n \in Nat /\ n > 0 /\ Head(frames) = frames[1] /\ Len(rest) = n - 1
      /\ \A i \in 1 .. n - 1 : rest[i] = frames[i + 1]
  BY HeadAndTail
<1> HIDE DEF rest
<1>2. /\ g \in [1 .. n + 1 -> 0 .. MaxSpeech]
      /\ g[1] = from /\ g[n + 1] = to
      /\ \A i \in 1 .. n : /\ g[i + 1] = IF frames[i] = Interrupt THEN g[i] + 1 ELSE g[i]
                           /\ frames[i] \in AudioFrames => frames[i].generation = g[i]
  BY DEF Dated
<1> HIDE DEF n
<1>3. /\ 1 \in 1 .. n /\ 1 \in 1 .. n + 1 /\ 2 \in 1 .. n + 1 /\ n \in 1 .. n /\ 1 + 1 = 2
      /\ \A i \in 1 .. n : i + 1 \in 1 .. n + 1
      /\ \A i \in 1 .. n - 1 : i \in 1 .. n /\ i + 1 \in 1 .. n
      /\ n - 1 + 1 = n
  BY <1>1
<1>4. h \in [1 .. n -> 0 .. MaxSpeech] /\ \A i \in 1 .. n : h[i] = g[i + 1]
  BY <1>2, <1>3
<1> HIDE DEF h
<1>5. Dated(rest, h, g[2], to)
  <2>1. ASSUME NEW i \in 1 .. n - 1
        PROVE  /\ h[i + 1] = IF rest[i] = Interrupt THEN h[i] + 1 ELSE h[i]
               /\ rest[i] \in AudioFrames => rest[i].generation = h[i]
    <3>1. h[i + 1] = g[i + 1 + 1] /\ h[i] = g[i + 1] /\ rest[i] = frames[i + 1]
      BY <1>1, <1>3, <1>4
    <3> QED BY <3>1, <1>2, <1>3
  <2>2. h[1] = g[2] /\ h[n] = to
    BY <1>2, <1>3, <1>4
  <2>3. Len(rest) = n - 1 /\ Len(rest) + 1 = n
    BY <1>1, <1>3
  <2> QED BY <2>1, <2>2, <2>3, <1>4 DEF Dated
<1>6. g[2] = IF Head(frames) = Interrupt THEN from + 1 ELSE from
  BY <1>1, <1>2, <1>3
<1>7. g[2] \in 0 .. MaxSpeech /\ from \in 0 .. MaxSpeech
  BY <1>2, <1>3
<1>8. Head(frames) \in AudioFrames => Head(frames).generation = from
  BY <1>1, <1>2, <1>3
<1> QED BY <1>5, <1>6, <1>7, <1>8 DEF rest

-----------------------------------------------------------------------------
(* The invariant *)

LEMMA InitRelayInv == Init => RelayInv
<1> SUFFICES ASSUME Init PROVE RelayInv
  OBVIOUS
<1> USE Bounds
<1>1. TypeOK
  BY DEF Init, TypeOK
<1>2. MemoryConsistent /\ EndOfHistory /\ NoStaleSpeech
  BY DEF Init, MemoryConsistent, EndOfHistory, NoStaleSpeech, Range, IsInjective
<1>3. Dated(inbox, [i \in 1 .. 1 |-> 0], cleared, barged)
  BY DEF Init, Dated
<1> QED BY <1>1, <1>2, <1>3 DEF RelayInv, InboxDated

LEMMA MemoryStays ==
  ASSUME RelayInv, UNCHANGED memoryVars
  PROVE  /\ recentIds' \in Seq(Calls) /\ recentSet' \subseteq Calls /\ remembered' \in Seq(Calls)
         /\ MemoryConsistent' /\ EndOfHistory'
BY DEF RelayInv, TypeOK, MemoryConsistent, EndOfHistory, memoryVars

LEMMA SpeechStays ==
  ASSUME RelayInv, UNCHANGED soundVars
  PROVE  NoStaleSpeech'
BY DEF RelayInv, NoStaleSpeech, soundVars

(* A frame of the current generation joins those on their way.             *)
LEMMA DeliveryDated ==
  ASSUME RelayInv, NEW frame \in Frames, Deliver(frame), barged' \in 0 .. MaxSpeech,
         frame \in AudioFrames => frame.generation = barged,
         barged' = IF frame = Interrupt THEN barged + 1 ELSE barged
  PROVE  inbox' \in Seq(Frames) /\ InboxDated'
<1>1. inbox \in Seq(Frames) /\ inbox' = Append(inbox, frame) /\ linked /\ cleared' = cleared
  BY DEF RelayInv, TypeOK, Deliver, soundVars
<1>2. PICK g : Dated(inbox, g, cleared, barged)
  BY <1>1 DEF RelayInv, InboxDated
<1>3. \E h : Dated(Append(inbox, frame), h, cleared, barged')
  BY <1>1, <1>2, DatedAppend
<1> QED BY <1>1, <1>3, Appended DEF InboxDated

(* The loop takes a frame off.                                             *)
LEMMA ReadingDated ==
  ASSUME RelayInv, linked, inbox # <<>>, inbox' = Tail(inbox), UNCHANGED barged,
         cleared' = IF Head(inbox) = Interrupt THEN cleared + 1 ELSE cleared
  PROVE  /\ inbox' \in Seq(Frames) /\ cleared' \in 0 .. MaxSpeech /\ InboxDated'
         /\ Head(inbox) \in AudioFrames => Head(inbox).generation = cleared
<1>1. inbox \in Seq(Frames)
  BY DEF RelayInv, TypeOK
<1>2. PICK g : Dated(inbox, g, cleared, barged)
  BY DEF RelayInv, InboxDated
<1>3. /\ cleared \in 0 .. MaxSpeech
      /\ Head(inbox) \in AudioFrames => Head(inbox).generation = cleared
      /\ Head(inbox) # Interrupt => \E h : Dated(Tail(inbox), h, cleared, barged)
      /\ Head(inbox) = Interrupt => /\ cleared + 1 \in 0 .. MaxSpeech
                                    /\ \E h : Dated(Tail(inbox), h, cleared + 1, barged)
  BY <1>1, <1>2, DatedTail
<1>4. \E h : Dated(Tail(inbox), h, cleared', barged)
  BY <1>3
<1>5. cleared' \in 0 .. MaxSpeech
  BY <1>3
<1> QED BY <1>1, <1>3, <1>4, <1>5, HeadAndTail DEF InboxDated

(* A frame of a call is read.                                              *)
LEMMA ReadsCall ==
  ASSUME RelayInv, NEW c \in Calls, NEW f \in Forms,
         Reads([type |-> "tool_call", call |-> c, form |-> f]), UNCHANGED <<barged, cleared>>
  PROVE  inbox' \in Seq(Frames) /\ InboxDated'
<1>1. [type |-> "tool_call", call |-> c, form |-> f] \in ToolFrames
  BY DEF ToolFrames
<1>2. linked /\ inbox # <<>> /\ inbox' = Tail(inbox) /\ Head(inbox) # Interrupt
  BY <1>1, FrameKinds DEF Reads
<1> QED BY <1>2, ReadingDated

LEMMA NextRelayInv == RelayInv /\ [Next]_vars => RelayInv'
<1> SUFFICES ASSUME RelayInv, [Next]_vars PROVE RelayInv'
  OBVIOUS
<1>0. TypeOK
  BY DEF RelayInv
<1>1. ASSUME NEW c \in Calls, ServerCalls(c) PROVE RelayInv'
  <2>1. PICK f \in Forms : /\ Deliver([type |-> "tool_call", call |-> c, form |-> f])
                           /\ form' = [form EXCEPT ![c] = f]
    BY <1>1 DEF ServerCalls
  <2>2. UNCHANGED <<barged, spoken, copies, linked, awaiting, threads, memoryVars, answers, runs,
                    soundVars>> /\ open' = c
    BY <1>1, <2>1 DEF ServerCalls, Deliver
  <2>3. [type |-> "tool_call", call |-> c, form |-> f] \in ToolFrames
    BY DEF ToolFrames
  <2>4. inbox' \in Seq(Frames) /\ InboxDated'
    BY <2>1, <2>2, <2>3, <1>0, FrameKinds, DeliveryDated DEF TypeOK
  <2>5. form' \in [Calls -> Forms \cup {None}]
    BY <2>1, <1>0 DEF TypeOK
  <2>6. TypeOK'
    BY <2>2, <2>4, <2>5, <1>0, MemoryStays DEF TypeOK, soundVars
  <2> QED BY <2>2, <2>4, <2>6, MemoryStays, SpeechStays DEF RelayInv
<1>2. CASE ServerCloses
  <2>1. UNCHANGED <<linked, inbox, awaiting, threads, memoryVars, answers, runs, soundVars, form,
                    barged, spoken, copies>> /\ open' = None
    BY <1>2 DEF ServerCloses
  <2>2. TypeOK' /\ InboxDated'
    BY <2>1, <1>0, MemoryStays DEF RelayInv, TypeOK, soundVars, InboxDated
  <2> QED BY <2>1, <2>2, MemoryStays, SpeechStays DEF RelayInv
<1>3. ASSUME NEW c \in Calls, Redeliver(c) PROVE RelayInv'
  <2>1. /\ Deliver([type |-> "tool_call", call |-> c, form |-> form[c]])
        /\ copies' = copies + 1 /\ copies < MaxCopies /\ form[c] # None
        /\ UNCHANGED <<open, form, barged, spoken, linked, awaiting, threads, memoryVars,
                       answers, runs, soundVars>>
    BY <1>3 DEF Redeliver, Deliver
  <2>2. PICK f \in Forms : form[c] = f
    BY <2>1, <1>0 DEF TypeOK
  <2>3. [type |-> "tool_call", call |-> c, form |-> f] \in ToolFrames
    BY DEF ToolFrames
  <2>4. inbox' \in Seq(Frames) /\ InboxDated'
    BY <2>1, <2>2, <2>3, <1>0, FrameKinds, DeliveryDated DEF TypeOK
  <2>5. copies' \in 0 .. MaxCopies
    BY <2>1, <1>0, Bounds DEF TypeOK
  <2>6. TypeOK'
    BY <2>1, <2>4, <2>5, <1>0, MemoryStays DEF TypeOK, soundVars
  <2> QED BY <2>1, <2>4, <2>6, MemoryStays, SpeechStays DEF RelayInv
<1>4. CASE ServerSpeaks
  <2>1. PICK b \in 0 .. MaxSpeech : b = barged
    BY <1>0 DEF TypeOK
  <2>2. /\ Deliver([type |-> "audio", generation |-> b])
        /\ spoken < MaxSpeech /\ spoken' = spoken + 1
        /\ UNCHANGED <<open, form, barged, copies, linked, awaiting, threads, memoryVars,
                       answers, runs, soundVars>>
    BY <1>4, <2>1 DEF ServerSpeaks, Deliver
  <2>3. [type |-> "audio", generation |-> b] \in AudioFrames
    BY DEF AudioFrames
  <2>4. inbox' \in Seq(Frames) /\ InboxDated'
    BY <2>1, <2>2, <2>3, <1>0, FrameKinds, DeliveryDated DEF TypeOK
  <2>5. spoken' \in 0 .. MaxSpeech
    BY <2>2, <1>0, Bounds, SMTT(40) DEF TypeOK
  <2>6. TypeOK'
    BY <2>2, <2>4, <2>5, <1>0, MemoryStays DEF TypeOK, soundVars
  <2> QED BY <2>2, <2>4, <2>6, MemoryStays, SpeechStays DEF RelayInv
<1>5. CASE ServerInterrupts
  <2>1. /\ Deliver(Interrupt)
        /\ barged < MaxSpeech /\ barged' = barged + 1
        /\ UNCHANGED <<open, form, spoken, copies, linked, awaiting, threads, memoryVars,
                       answers, runs, soundVars>>
    BY <1>5 DEF ServerInterrupts, Deliver
  <2>2. barged' \in 0 .. MaxSpeech
    BY <2>1, <1>0, Bounds, SMTT(40) DEF TypeOK
  <2>3. inbox' \in Seq(Frames) /\ InboxDated'
    BY <2>1, <2>2, FrameKinds, DeliveryDated
  <2>4. TypeOK'
    BY <2>1, <2>2, <2>3, <1>0, MemoryStays DEF TypeOK, soundVars
  <2> QED BY <2>1, <2>3, <2>4, MemoryStays, SpeechStays DEF RelayInv
<1>6. CASE ReadAudio
  <2>1. /\ linked /\ inbox # <<>> /\ Head(inbox) \in AudioFrames /\ inbox' = Tail(inbox)
        /\ playback' = Append(playback, Head(inbox).generation)
        /\ UNCHANGED <<linked, awaiting, threads, memoryVars, answers, runs, cleared,
                       serverVars>>
    BY <1>6 DEF ReadAudio, Reads
  <2>2. inbox' \in Seq(Frames) /\ InboxDated' /\ Head(inbox).generation = cleared
    BY <2>1, FrameKinds, ReadingDated DEF serverVars
  <2>3. playback \in Seq(0 .. MaxSpeech) /\ cleared \in 0 .. MaxSpeech
    BY <1>0 DEF TypeOK
  <2>4. /\ playback' \in Seq(0 .. MaxSpeech) /\ Len(playback') = Len(playback) + 1
        /\ \A i \in 1 .. Len(playback) : playback'[i] = playback[i]
        /\ playback'[Len(playback) + 1] = cleared
        /\ Len(playback) \in Nat
    BY <2>1, <2>2, <2>3, Appended
  <2>5. NoStaleSpeech'
    <3>1. \A i \in 1 .. Len(playback) + 1 : i \in 1 .. Len(playback) \/ i = Len(playback) + 1
      BY <2>4
    <3> QED BY <3>1, <2>1, <2>4 DEF RelayInv, NoStaleSpeech
  <2>6. TypeOK'
    BY <2>1, <2>2, <2>4, <1>0, MemoryStays DEF TypeOK, serverVars
  <2> QED BY <2>1, <2>2, <2>5, <2>6, MemoryStays DEF RelayInv
<1>7. CASE ReadInterrupt
  <2>1. /\ linked /\ inbox # <<>> /\ Head(inbox) = Interrupt /\ inbox' = Tail(inbox)
        /\ playback' = <<>> /\ cleared' = cleared + 1
        /\ UNCHANGED <<linked, awaiting, threads, memoryVars, answers, runs, serverVars>>
    BY <1>7 DEF ReadInterrupt, Reads, AfterInterrupt
  <2>2. inbox' \in Seq(Frames) /\ InboxDated' /\ cleared' \in 0 .. MaxSpeech
    BY <2>1, ReadingDated DEF serverVars
  <2>3. NoStaleSpeech' /\ playback' \in Seq(0 .. MaxSpeech)
    BY <2>1 DEF NoStaleSpeech
  <2>4. TypeOK'
    BY <2>1, <2>2, <2>3, <1>0, MemoryStays DEF TypeOK, serverVars
  <2> QED BY <2>1, <2>2, <2>3, <2>4, MemoryStays DEF RelayInv
<1>8. CASE Play
  <2>1. /\ playback # <<>> /\ playback' = Tail(playback)
        /\ UNCHANGED <<linked, inbox, awaiting, threads, memoryVars, answers, runs, cleared,
                       serverVars>>
    BY <1>8 DEF Play
  <2>2. playback \in Seq(0 .. MaxSpeech)
    BY <1>0 DEF TypeOK
  <2>3. /\ playback' \in Seq(0 .. MaxSpeech) /\ Len(playback') = Len(playback) - 1
        /\ \A i \in 1 .. Len(playback) - 1 : playback'[i] = playback[i + 1]
        /\ Len(playback) \in Nat
    BY <2>1, <2>2, HeadAndTail
  <2>4. NoStaleSpeech'
    <3>1. \A i \in 1 .. Len(playback) - 1 : i + 1 \in 1 .. Len(playback)
      BY <2>3
    <3> QED BY <3>1, <2>1, <2>3 DEF RelayInv, NoStaleSpeech
  <2>5. TypeOK' /\ InboxDated'
    BY <2>1, <2>3, <1>0, MemoryStays DEF RelayInv, TypeOK, serverVars, InboxDated
  <2> QED BY <2>1, <2>4, <2>5, MemoryStays DEF RelayInv
<1>9. ASSUME NEW c \in Calls,
             HandleMalformed(c) \/ HandleDuplicate(c) \/ HandleUnprepared(c) \/ Dispatch(c)
      PROVE  RelayInv'
  <2>1. /\ \E f \in Forms : Reads([type |-> "tool_call", call |-> c, form |-> f])
        /\ UNCHANGED <<linked, soundVars, serverVars>>
    BY <1>9 DEF HandleMalformed, HandleDuplicate, HandleUnprepared, Dispatch, Forms
  <2>2. inbox' \in Seq(Frames) /\ InboxDated'
    BY <2>1, ReadsCall DEF soundVars, serverVars
  <2>3. /\ recentIds' \in Seq(Calls) /\ recentSet' \subseteq Calls /\ remembered' \in Seq(Calls)
        /\ MemoryConsistent' /\ EndOfHistory'
    <3>1. UNCHANGED memoryVars \/ Remember(c)
      BY <1>9 DEF HandleMalformed, HandleDuplicate, HandleUnprepared, Dispatch
    <3> QED BY <3>1, MemoryStays, RememberKeeps DEF RelayInv
  <2>4. answers' \in [Calls -> Nat] /\ runs' \in [Calls -> Nat]
    <3>1. /\ UNCHANGED answers \/ answers' = [answers EXCEPT ![c] = answers[c] + 1]
          /\ UNCHANGED runs \/ runs' = [runs EXCEPT ![c] = runs[c] + 1]
      BY <1>9 DEF HandleMalformed, HandleDuplicate, HandleUnprepared, Dispatch, Answer
    <3>2. answers \in [Calls -> Nat] /\ runs \in [Calls -> Nat]
      BY <1>0 DEF TypeOK
    <3>3. answers[c] + 1 \in Nat /\ runs[c] + 1 \in Nat
      BY <3>2
    <3> QED BY <3>1, <3>2, <3>3
  <2>5. awaiting' \in Calls \cup {None} /\ threads' \subseteq Calls
    BY <1>9, <1>0 DEF HandleMalformed, HandleDuplicate, HandleUnprepared, Dispatch, TypeOK
  <2>6. TypeOK'
    BY <2>1, <2>2, <2>3, <2>4, <2>5, <1>0 DEF TypeOK, soundVars, serverVars
  <2> QED BY <2>1, <2>2, <2>3, <2>6, SpeechStays DEF RelayInv
<1>10. ASSUME NEW c \in Calls, ThreadEnds(c) PROVE RelayInv'
  <2>1. /\ threads' = threads \ {c}
        /\ \/ Answer(c) /\ Remember(c) /\ awaiting' = None
           \/ UNCHANGED <<answers, memoryVars, awaiting>>
        /\ UNCHANGED <<linked, inbox, runs, soundVars, serverVars>>
    BY <1>10 DEF ThreadEnds, AfterAnswer
  <2>2. /\ recentIds' \in Seq(Calls) /\ recentSet' \subseteq Calls /\ remembered' \in Seq(Calls)
        /\ MemoryConsistent' /\ EndOfHistory'
    BY <2>1, MemoryStays, RememberKeeps DEF RelayInv
  <2>3. answers' \in [Calls -> Nat]
    <3>1. UNCHANGED answers \/ answers' = [answers EXCEPT ![c] = answers[c] + 1]
      BY <2>1 DEF Answer
    <3>2. answers \in [Calls -> Nat]
      BY <1>0 DEF TypeOK
    <3>3. answers[c] + 1 \in Nat
      BY <3>2
    <3> QED BY <3>1, <3>2, <3>3
  <2>4. awaiting' \in Calls \cup {None} /\ threads' \subseteq Calls
    BY <2>1, <1>0 DEF TypeOK
  <2>5. TypeOK' /\ InboxDated'
    BY <2>1, <2>2, <2>3, <2>4, <1>0
       DEF RelayInv, TypeOK, soundVars, serverVars, InboxDated
  <2> QED BY <2>1, <2>2, <2>5, SpeechStays DEF RelayInv
<1>11. CASE Disconnect
  <2>1. /\ linked' = FALSE /\ inbox' = <<>> /\ awaiting' = None /\ playback' = <<>>
        /\ UNCHANGED <<threads, memoryVars, answers, runs, cleared, serverVars>>
    BY <1>11 DEF Disconnect
  <2>2. TypeOK'
    <3>1. linked' \in BOOLEAN
      BY <2>1
    <3>2. inbox' \in Seq(Frames) /\ playback' \in Seq(0 .. MaxSpeech)
      BY <2>1
    <3>3. awaiting' \in Calls \cup {None}
      BY <2>1
    <3> QED BY <3>1, <3>2, <3>3, <2>1, <1>0, MemoryStays DEF TypeOK, serverVars
  <2>3. NoStaleSpeech' /\ InboxDated'
    BY <2>1 DEF NoStaleSpeech, InboxDated
  <2> QED BY <2>1, <2>2, <2>3, MemoryStays DEF RelayInv
<1>12. CASE UNCHANGED vars
  <2>1. UNCHANGED <<linked, inbox, awaiting, threads, memoryVars, answers, runs, soundVars,
                    serverVars>>
    BY <1>12 DEF vars, memoryVars, soundVars, serverVars
  <2>2. TypeOK' /\ InboxDated'
    BY <2>1, <1>0, MemoryStays DEF RelayInv, TypeOK, soundVars, serverVars, InboxDated
  <2> QED BY <2>1, <2>2, MemoryStays, SpeechStays DEF RelayInv
<1> QED BY <1>1, <1>2, <1>3, <1>4, <1>5, <1>6, <1>7, <1>8, <1>9, <1>10, <1>11, <1>12
        DEF Next, LoopStep

(* The invariant holds of every execution.                                 *)
THEOREM RelayInvariance == Spec => []RelayInv
<1> QED BY InitRelayInv, NextRelayInv, PTL DEF Spec

(* TypeOK, for any calls, frames and bounds.                               *)
THEOREM RelayTypeCorrect == Spec => []TypeOK
<1>1. RelayInv => TypeOK
  BY DEF RelayInv
<1> QED BY <1>1, RelayInvariance, PTL

(* The halves of the executor's memory agree, whatever its size.           *)
THEOREM MemoryAgrees == Spec => []MemoryConsistent
<1>1. RelayInv => MemoryConsistent
  BY DEF RelayInv
<1> QED BY <1>1, RelayInvariance, PTL

(* No speech from before an interruption is left to play after it.         *)
THEOREM OldSpeechIsDropped == Spec => []NoStaleSpeech
<1>1. RelayInv => NoStaleSpeech
  BY DEF RelayInv
<1> QED BY <1>1, RelayInvariance, PTL

(* A call among the last that were answered is not run again.              *)
THEOREM AnsweredNotRerun == Spec => NotRerun
<1>1. ASSUME RelayInv, [Next]_vars, NEW c \in Calls, runs'[c] # runs[c]
      PROVE  c \notin LastRemembered
  <2>1. \E d \in Calls : Dispatch(d)
    BY <1>1
       DEF Next, LoopStep, ServerCloses, ServerSpeaks, ServerInterrupts, ServerCalls, Redeliver,
           Deliver, ThreadEnds, ReadAudio, ReadInterrupt, HandleMalformed, HandleDuplicate,
           HandleUnprepared, Play, Disconnect, vars
  <2>2. PICK d \in Calls : Dispatch(d)
    BY <2>1
  <2>3. runs \in [Calls -> Nat] /\ runs' = [runs EXCEPT ![d] = runs[d] + 1] /\ d \notin recentSet
    <3>1. runs \in [Calls -> Nat]
      BY <1>1 DEF RelayInv, TypeOK
    <3>2. d \notin recentSet
      BY <2>2 DEF Dispatch, IsDuplicate
    <3>3. runs' = [runs EXCEPT ![d] = runs[d] + 1]
      BY <2>2 DEF Dispatch
    <3> QED BY <3>1, <3>2, <3>3
  <2>4. c = d
    BY <2>3, <1>1
  <2> QED BY <2>3, <2>4, <1>1, LastAreRecent DEF RelayInv
<1>2. RelayInv /\ [Next]_vars =>
        [\A c \in Calls : runs'[c] # runs[c] => c \notin LastRemembered]_vars
  BY <1>1
<1> QED BY <1>2, RelayInvariance, PTL DEF Spec, NotRerun
-----------------------------------------------------------------------------
(* What becomes of a call *)

FramesOf(c) == {frame \in ToolFrames : frame.call = c}

(* The loop awaits the one command that runs for its connection.           *)
OneThread ==
  /\ linked => threads = {awaiting} \ {None}
  /\ ~linked => awaiting = None /\ inbox = <<>>

(* What is remembered was answered, and what is awaited is not remembered. *)
RememberedIsAnswered ==
  /\ awaiting \notin recentSet
  /\ \A c \in Calls : c \in recentSet => answers[c] > 0

(* Every run of a call has its answer, except the one that is awaited or   *)
(* that the end of the connection overtook.                                *)
RunsAreAnswered ==
  \A c \in Calls : runs[c] <= answers[c] + (IF awaiting = c \/ ~linked THEN 1 ELSE 0)

(* There is no frame of a call that the server has not made.               *)
NotBeforeItIsMade ==
  \A c \in Calls : form[c] = None =>
    /\ c \notin threads /\ awaiting # c
    /\ \A i \in 1 .. Len(inbox) : inbox[i] \notin FramesOf(c)

(* Every interrupt on its way comes before the call the server waits for.  *)
InterruptsAhead ==
  open # None =>
    /\ form[open] # None
    /\ \A i, j \in 1 .. Len(inbox) :
         i < j /\ inbox[i] \in FramesOf(open) => inbox[j] # Interrupt
    /\ awaiting = open => \A j \in 1 .. Len(inbox) : inbox[j] # Interrupt

CallsInv ==
  OneThread /\ RememberedIsAnswered /\ RunsAreAnswered /\ NotBeforeItIsMade /\ InterruptsAhead

LEMMA CallTypes ==
  ASSUME TypeOK
  PROVE  /\ answers \in [Calls -> Nat] /\ runs \in [Calls -> Nat]
         /\ form \in [Calls -> Forms \cup {None}]
         /\ recentSet \subseteq Calls /\ None \notin recentSet /\ None \notin Calls
         /\ inbox \in Seq(Frames) /\ Len(inbox) \in Nat
         /\ threads \subseteq Calls /\ linked \in BOOLEAN
         /\ awaiting \in Calls \cup {None} /\ open \in Calls \cup {None}
BY RelayAssumption, SMTT(40) DEF TypeOK

LEMMA GoodIsNoCall == None \notin Calls /\ \A c \in Calls : c # None
BY RelayAssumption

(* Every step that takes a frame from the loop's side.                     *)
LEMMA ReadFacts ==
  ASSUME TypeOK, NEW frame, Reads(frame)
  PROVE  /\ linked /\ awaiting = None /\ inbox # <<>> /\ frame = inbox[1]
         /\ Len(inbox) > 0 /\ Len(inbox') = Len(inbox) - 1 /\ inbox' = Tail(inbox)
         /\ \A i \in 1 .. Len(inbox') : i + 1 \in 1 .. Len(inbox) /\ inbox'[i] = inbox[i + 1]
<1>1. linked /\ awaiting = None /\ inbox # <<>> /\ frame = Head(inbox) /\ inbox' = Tail(inbox)
  BY DEF Reads
<1>2. inbox \in Seq(Frames)
  BY DEF TypeOK
<1>3. /\ Len(inbox) \in Nat /\ Len(inbox) > 0 /\ Head(inbox) = inbox[1]
      /\ Len(inbox') = Len(inbox) - 1
      /\ \A i \in 1 .. Len(inbox) - 1 : inbox'[i] = inbox[i + 1]
  BY <1>1, <1>2, HeadAndTail
<1> QED BY <1>1, <1>3

(* Any step of the executor's memory.                                      *)
LEMMA RememberAdds ==
  ASSUME NEW c, Remember(c)
  PROVE  recentSet' \subseteq recentSet \cup {c}
BY DEF Remember, NewRecentSet, memoryVars

LEMMA AnswersGrow ==
  ASSUME TypeOK, NEW c \in Calls, Answer(c)
  PROVE  /\ \A d \in Calls : answers[d] \in Nat /\ answers'[d] \in Nat /\ answers'[d] >= answers[d]
         /\ answers'[c] = answers[c] + 1
BY CallTypes DEF Answer

(* A step that neither starts nor ends a call's handling.                  *)
Aside == UNCHANGED <<linked, awaiting, threads, memoryVars, answers, runs>>

LEMMA AsideSteps ==
  \/ ServerCloses \/ ServerSpeaks \/ ServerInterrupts \/ ReadAudio \/ ReadInterrupt \/ Play
  \/ (\E c \in Calls : ServerCalls(c) \/ Redeliver(c) \/ HandleDuplicate(c))
  \/ UNCHANGED vars
  => Aside
BY DEF ServerCloses, ServerSpeaks, ServerInterrupts, ReadAudio, ReadInterrupt, Play,
       ServerCalls, Redeliver, HandleDuplicate, Deliver, Aside, vars, memoryVars

LEMMA ReadAudioReads == ReadAudio => Reads(Head(inbox)) /\ Head(inbox) \in AudioFrames
BY DEF ReadAudio

LEMMA NextThreads ==
  ASSUME TypeOK, TypeOK', OneThread, RememberedIsAnswered, RunsAreAnswered, [Next]_vars
  PROVE  /\ linked' => threads' = {awaiting'} \ {None}
         /\ ~linked' => awaiting' = None
         /\ RememberedIsAnswered' /\ RunsAreAnswered'
<1> DEFINE Goal == /\ linked' => threads' = {awaiting'} \ {None}
                   /\ ~linked' => awaiting' = None
                   /\ RememberedIsAnswered' /\ RunsAreAnswered'
<1> USE CallTypes
<1>1. CASE Aside
  BY <1>1 DEF Aside, memoryVars, OneThread, RememberedIsAnswered, RunsAreAnswered
<1>2. ASSUME NEW c \in Calls, HandleMalformed(c) PROVE Goal
  <2>1. Answer(c) /\ UNCHANGED <<linked, awaiting, threads, memoryVars, runs>>
    BY <1>2 DEF HandleMalformed
  <2>2. \A d \in Calls : /\ answers[d] \in Nat /\ answers'[d] \in Nat /\ answers'[d] >= answers[d]
                         /\ runs[d] \in Nat
    BY <2>1, AnswersGrow
  <2>3. RememberedIsAnswered'
    BY <2>1, <2>2 DEF RememberedIsAnswered, memoryVars
  <2>4. RunsAreAnswered'
    <3>1. ASSUME NEW d \in Calls
          PROVE  runs'[d] <= answers'[d] + (IF awaiting' = d \/ ~linked' THEN 1 ELSE 0)
      BY <2>1, <2>2, SMTT(40) DEF RunsAreAnswered
    <3> QED BY <3>1 DEF RunsAreAnswered
  <2> QED BY <2>1, <2>3, <2>4 DEF OneThread
<1>3. ASSUME NEW c \in Calls, HandleUnprepared(c) PROVE Goal
  <2>1. /\ Answer(c) /\ Remember(c) /\ UNCHANGED <<linked, awaiting, threads, runs>>
        /\ Reads([type |-> "tool_call", call |-> c, form |-> "good"])
    BY <1>3 DEF HandleUnprepared
  <2>2. /\ \A d \in Calls : /\ answers[d] \in Nat /\ answers'[d] \in Nat
                            /\ answers'[d] >= answers[d] /\ runs[d] \in Nat
        /\ answers'[c] > 0
    BY <2>1, AnswersGrow
  <2>3. RememberedIsAnswered'
    <3>1. awaiting' = None /\ recentSet' \subseteq recentSet \cup {c}
      BY <2>1, ReadFacts, RememberAdds
    <3>2. None \notin recentSet'
      BY <3>1, GoodIsNoCall
    <3>3. ASSUME NEW d \in Calls, d \in recentSet' PROVE answers'[d] > 0
      BY <3>1, <3>3, <2>2 DEF RememberedIsAnswered
    <3> QED BY <3>1, <3>2, <3>3 DEF RememberedIsAnswered
  <2>4. RunsAreAnswered'
    <3>1. ASSUME NEW d \in Calls
          PROVE  runs'[d] <= answers'[d] + (IF awaiting' = d \/ ~linked' THEN 1 ELSE 0)
      BY <2>1, <2>2, SMTT(40) DEF RunsAreAnswered
    <3> QED BY <3>1 DEF RunsAreAnswered
  <2> QED BY <2>1, <2>3, <2>4 DEF OneThread
<1>4. ASSUME NEW c \in Calls, Dispatch(c) PROVE Goal
  <2>1. /\ Reads([type |-> "tool_call", call |-> c, form |-> "good"])
        /\ c \notin recentSet /\ awaiting' = c /\ threads' = threads \cup {c}
        /\ runs' = [runs EXCEPT ![c] = @ + 1]
        /\ UNCHANGED <<linked, memoryVars, answers>>
    BY <1>4 DEF Dispatch, IsDuplicate
  <2>2. linked /\ awaiting = None /\ c # None
    BY <2>1, ReadFacts, GoodIsNoCall
  <2>3. threads' = {awaiting'} \ {None}
    BY <2>1, <2>2 DEF OneThread
  <2>4. RememberedIsAnswered'
    BY <2>1 DEF RememberedIsAnswered, memoryVars
  <2>5. RunsAreAnswered'
    <3>1. ASSUME NEW d \in Calls
          PROVE  runs'[d] <= answers'[d] + (IF awaiting' = d \/ ~linked' THEN 1 ELSE 0)
      <4>1. runs[d] <= answers[d] /\ runs[d] \in Nat /\ answers[d] \in Nat /\ d # None
        BY <2>2, GoodIsNoCall DEF RunsAreAnswered
      <4>2. CASE d = c
        BY <4>1, <4>2, <2>1
      <4>3. CASE d # c
        BY <4>1, <4>3, <2>1
      <4> QED BY <4>2, <4>3
    <3> QED BY <3>1 DEF RunsAreAnswered
  <2> QED BY <2>1, <2>2, <2>3, <2>4, <2>5
<1>5. ASSUME NEW c \in Calls, ThreadEnds(c) PROVE Goal
  <2>1. c \in threads /\ threads' = threads \ {c} /\ UNCHANGED <<linked, runs>> /\ c # None
    BY <1>5, GoodIsNoCall DEF ThreadEnds
  <2>2. CASE linked
    <3>1. Answer(c) /\ Remember(c) /\ awaiting' = None
      BY <1>5, <2>2 DEF ThreadEnds, AfterAnswer
    <3>2. threads = {c} /\ awaiting = c
      BY <2>1, <2>2 DEF OneThread
    <3>3. /\ \A d \in Calls : /\ answers[d] \in Nat /\ answers'[d] \in Nat
                              /\ answers'[d] >= answers[d] /\ runs[d] \in Nat
          /\ answers'[c] = answers[c] + 1
      BY <3>1, AnswersGrow
    <3>4. recentSet' \subseteq recentSet \cup {c}
      BY <3>1, RememberAdds
    <3>5. RememberedIsAnswered'
      <4>1. None \notin recentSet'
        BY <3>4, GoodIsNoCall
      <4>2. ASSUME NEW d \in Calls, d \in recentSet' PROVE answers'[d] > 0
        BY <3>3, <3>4, <4>2 DEF RememberedIsAnswered
      <4> QED BY <3>1, <4>1, <4>2 DEF RememberedIsAnswered
    <3>6. RunsAreAnswered'
      <4>1. ASSUME NEW d \in Calls
            PROVE  runs'[d] <= answers'[d] + (IF awaiting' = d \/ ~linked' THEN 1 ELSE 0)
        <5>1. CASE d = c
          BY <5>1, <2>1, <2>2, <3>1, <3>2, <3>3 DEF RunsAreAnswered
        <5>2. CASE d # c
          BY <5>2, <2>1, <2>2, <3>1, <3>2, <3>3 DEF RunsAreAnswered
        <5> QED BY <5>1, <5>2
      <4> QED BY <4>1 DEF RunsAreAnswered
    <3> QED BY <2>1, <2>2, <3>1, <3>2, <3>5, <3>6
  <2>3. CASE ~linked
    <3>1. UNCHANGED <<linked, answers, memoryVars, awaiting, runs>>
      BY <1>5, <2>3 DEF ThreadEnds
    <3> QED
      BY <2>3, <3>1 DEF OneThread, RememberedIsAnswered, RunsAreAnswered, memoryVars
  <2> QED BY <2>2, <2>3
<1>6. CASE Disconnect
  <2>1. ~linked' /\ awaiting' = None /\ UNCHANGED <<memoryVars, answers, runs>>
    BY <1>6 DEF Disconnect
  <2>2. RunsAreAnswered'
    <3>1. ASSUME NEW d \in Calls
          PROVE  runs'[d] <= answers'[d] + (IF awaiting' = d \/ ~linked' THEN 1 ELSE 0)
      BY <2>1 DEF RunsAreAnswered
    <3> QED BY <3>1 DEF RunsAreAnswered
  <2> QED BY <2>1, <2>2 DEF RememberedIsAnswered, memoryVars
<1> HIDE DEF Goal
<1>7. Goal
  BY <1>1, <1>2, <1>3, <1>4, <1>5, <1>6, AsideSteps DEF Next, LoopStep, Goal
<1> QED BY <1>7 DEF Goal
LEMMA FramesApart ==
  /\ \A c \in Calls, f \in Forms : [type |-> "tool_call", call |-> c, form |-> f] \in FramesOf(c)
  /\ \A c \in Calls : /\ Interrupt \notin FramesOf(c)
                      /\ \A frame \in AudioFrames : frame \notin FramesOf(c)
                      /\ \A frame \in FramesOf(c) : frame \in Frames /\ frame # Interrupt
  /\ \A c, d \in Calls : \A frame \in FramesOf(c) : frame \in FramesOf(d) => c = d
<1>1. \A c \in Calls, f \in Forms : [type |-> "tool_call", call |-> c, form |-> f] \in FramesOf(c)
  BY DEF FramesOf, ToolFrames
<1>2. \A c : FramesOf(c) \subseteq ToolFrames /\ \A frame \in FramesOf(c) : frame.call = c
  BY DEF FramesOf
<1>3. \A c, d \in Calls : \A frame \in FramesOf(c) : frame \in FramesOf(d) => c = d
  BY <1>2
<1>4. \A c \in Calls : /\ Interrupt \notin FramesOf(c)
                       /\ \A frame \in AudioFrames : frame \notin FramesOf(c)
                       /\ \A frame \in FramesOf(c) : frame \in Frames /\ frame # Interrupt
  BY <1>2, FrameKinds
<1> QED BY <1>1, <1>3, <1>4

(* The loop's queue stays or is gone, and nobody makes or reads a call.    *)
LEMMA QueueStays ==
  ASSUME TypeOK, NotBeforeItIsMade, InterruptsAhead,
         inbox' = inbox \/ inbox' = <<>>, form' = form, open' = open \/ open' = None,
         threads' \subseteq threads, awaiting' = awaiting \/ awaiting' = None
  PROVE  NotBeforeItIsMade' /\ InterruptsAhead'
<1>1. \A i \in 1 .. Len(inbox') : i \in 1 .. Len(inbox) /\ inbox'[i] = inbox[i]
  BY CallTypes
<1>2. NotBeforeItIsMade'
  BY <1>1, GoodIsNoCall DEF NotBeforeItIsMade
<1>3. CASE open' = None
  BY <1>2, <1>3 DEF InterruptsAhead
<1>4. CASE open' = open /\ open # None
  <2>1. awaiting' = open => awaiting = open
    BY <1>4
  <2> QED BY <1>2, <1>1, <1>4, <2>1 DEF InterruptsAhead
<1> QED BY <1>2, <1>3, <1>4

(* The loop reads a frame; if it then awaits a call, it is that frame's.   *)
LEMMA QueueShrinks ==
  ASSUME TypeOK, NotBeforeItIsMade, InterruptsAhead, NEW frame, Reads(frame),
         form' = form, open' = open,
         \/ UNCHANGED <<threads, awaiting>>
         \/ \E c \in Calls : frame \in FramesOf(c) /\ awaiting' = c /\ threads' = threads \cup {c}
  PROVE  NotBeforeItIsMade' /\ InterruptsAhead'
<1>1. /\ awaiting = None /\ frame = inbox[1] /\ 1 \in 1 .. Len(inbox) /\ Len(inbox) \in Nat
      /\ \A i \in 1 .. Len(inbox') : i + 1 \in 1 .. Len(inbox) /\ inbox'[i] = inbox[i + 1]
      /\ Len(inbox') = Len(inbox) - 1
  BY ReadFacts, CallTypes
<1>2. NotBeforeItIsMade'
  <2>1. ASSUME NEW d \in Calls, form[d] = None
        PROVE  /\ d \notin threads' /\ awaiting' # d
               /\ \A i \in 1 .. Len(inbox') : inbox'[i] \notin FramesOf(d)
    <3>1. /\ d \notin threads /\ d # None
          /\ \A i \in 1 .. Len(inbox) : inbox[i] \notin FramesOf(d)
      BY <2>1, GoodIsNoCall DEF NotBeforeItIsMade
    <3>2. \A c \in Calls : frame \in FramesOf(c) => c # d
      BY <1>1, <3>1
    <3> QED BY <1>1, <3>1, <3>2
  <2> QED BY <2>1 DEF NotBeforeItIsMade
<1>3. ASSUME open # None
      PROVE  /\ form[open] # None
             /\ \A i, j \in 1 .. Len(inbox') :
                  i < j /\ inbox'[i] \in FramesOf(open) => inbox'[j] # Interrupt
             /\ awaiting' = open => \A j \in 1 .. Len(inbox') : inbox'[j] # Interrupt
  <2>1. /\ form[open] # None /\ open \in Calls
        /\ \A i, j \in 1 .. Len(inbox) :
             i < j /\ inbox[i] \in FramesOf(open) => inbox[j] # Interrupt
    BY <1>3, CallTypes DEF InterruptsAhead
  <2>2. ASSUME NEW i \in 1 .. Len(inbox'), NEW j \in 1 .. Len(inbox'),
               i < j, inbox'[i] \in FramesOf(open)
        PROVE  inbox'[j] # Interrupt
    <3>1. i + 1 < j + 1 /\ i + 1 \in 1 .. Len(inbox) /\ j + 1 \in 1 .. Len(inbox)
      BY <1>1, <2>2
    <3> QED BY <3>1, <2>1, <2>2, <1>1
  <2>3. ASSUME awaiting' = open, NEW j \in 1 .. Len(inbox') PROVE inbox'[j] # Interrupt
    <3>1. inbox[1] \in FramesOf(open)
      BY <1>1, <1>3, <2>3
    <3>2. 1 < j + 1 /\ j + 1 \in 1 .. Len(inbox) /\ inbox'[j] = inbox[j + 1]
      BY <1>1, <2>3
    <3> QED BY <3>1, <3>2, <2>1, <1>1
  <2> QED BY <2>1, <2>2, <2>3
<1> QED BY <1>2, <1>3 DEF InterruptsAhead

(* A frame of a call that is made now, or of one that was, or no call's.   *)
LEMMA QueueGrows ==
  ASSUME TypeOK, NotBeforeItIsMade, InterruptsAhead, NEW frame \in Frames, Deliver(frame),
         \/ open = None /\ open' = None /\ form' = form /\ (\A d \in Calls : frame \notin FramesOf(d))
         \/ \E c \in Calls : /\ frame \in FramesOf(c)
                             /\ \/ form[c] # None /\ form' = form /\ open' = open
                                \/ /\ form[c] = None /\ open' = c
                                   /\ \E f \in Forms : f # None /\ form' = [form EXCEPT ![c] = f]
  PROVE  NotBeforeItIsMade' /\ InterruptsAhead'
<1>1. /\ inbox \in Seq(Frames) /\ Len(inbox) \in Nat /\ Len(inbox') = Len(inbox) + 1
      /\ \A i \in 1 .. Len(inbox) : inbox'[i] = inbox[i]
      /\ inbox'[Len(inbox) + 1] = frame
      /\ UNCHANGED <<threads, awaiting>>
  BY CallTypes, Appended DEF Deliver
<1>2. \A i \in 1 .. Len(inbox') : i \in 1 .. Len(inbox) \/ i = Len(inbox) + 1
  BY <1>1
<1>3. ASSUME NEW d \in Calls, form'[d] = None
      PROVE  /\ d \notin threads' /\ awaiting' # d
             /\ \A i \in 1 .. Len(inbox') : inbox'[i] \notin FramesOf(d)
  <2>1. form[d] = None /\ frame \notin FramesOf(d)
    BY <1>3, CallTypes, FramesApart
  <2>2. d \notin threads /\ awaiting # d /\ \A i \in 1 .. Len(inbox) : inbox[i] \notin FramesOf(d)
    BY <2>1 DEF NotBeforeItIsMade
  <2> QED BY <1>1, <1>2, <2>1, <2>2
<1>4. NotBeforeItIsMade'
  BY <1>3 DEF NotBeforeItIsMade
<1>5. CASE open' = None
  BY <1>4, <1>5 DEF InterruptsAhead
<1>6. CASE open' # None /\ open' = open /\ form' = form
  <2>1. frame # Interrupt
    BY <1>6, FramesApart
  <2>2. /\ form[open] # None
        /\ \A i, j \in 1 .. Len(inbox) :
             i < j /\ inbox[i] \in FramesOf(open) => inbox[j] # Interrupt
        /\ awaiting = open => \A j \in 1 .. Len(inbox) : inbox[j] # Interrupt
    BY <1>6 DEF InterruptsAhead
  <2>3. ASSUME NEW i \in 1 .. Len(inbox'), NEW j \in 1 .. Len(inbox'),
               i < j, inbox'[i] \in FramesOf(open)
        PROVE  inbox'[j] # Interrupt
    <3>1. CASE j = Len(inbox) + 1
      BY <3>1, <2>1, <1>1
    <3>2. CASE j \in 1 .. Len(inbox)
      <4>1. i \in 1 .. Len(inbox)
        BY <3>2, <2>3, <1>1
      <4> QED BY <4>1, <3>2, <2>2, <2>3, <1>1
    <3> QED BY <3>1, <3>2, <1>2
  <2>4. ASSUME awaiting' = open, NEW j \in 1 .. Len(inbox') PROVE inbox'[j] # Interrupt
    BY <2>4, <2>1, <2>2, <1>1, <1>2
  <2> QED BY <1>4, <1>6, <2>2, <2>3, <2>4 DEF InterruptsAhead
<1>7. ASSUME NEW c \in Calls, frame \in FramesOf(c), form[c] = None, open' = c,
             NEW f \in Forms, f # None, form' = [form EXCEPT ![c] = f]
      PROVE  InterruptsAhead'
  <2>1. awaiting # c /\ \A i \in 1 .. Len(inbox) : inbox[i] \notin FramesOf(c)
    BY <1>7 DEF NotBeforeItIsMade
  <2>2. form'[c] # None
    BY <1>7, CallTypes
  <2>3. ASSUME NEW i \in 1 .. Len(inbox'), NEW j \in 1 .. Len(inbox'),
               i < j, inbox'[i] \in FramesOf(c)
        PROVE  inbox'[j] # Interrupt
    <3>1. i \in 1 .. Len(inbox)
      BY <2>3, <1>1
    <3> QED BY <3>1, <2>1, <2>3, <1>1
  <2> QED BY <1>7, <1>1, <2>1, <2>2, <2>3 DEF InterruptsAhead
<1> QED BY <1>4, <1>5, <1>6, <1>7
LEMMA NextQueue ==
  ASSUME TypeOK, OneThread, NotBeforeItIsMade, InterruptsAhead, [Next]_vars
  PROVE  NotBeforeItIsMade' /\ InterruptsAhead'
<1>1. CASE ServerCloses \/ Play \/ Disconnect \/ UNCHANGED vars
  BY <1>1, QueueStays DEF ServerCloses, Play, Disconnect, serverVars, vars
<1>2. ASSUME NEW c \in Calls, ThreadEnds(c) PROVE NotBeforeItIsMade' /\ InterruptsAhead'
  BY <1>2, QueueStays DEF ThreadEnds, serverVars
<1>3. ASSUME NEW c \in Calls, NEW f \in Forms,
             Reads([type |-> "tool_call", call |-> c, form |-> f]), UNCHANGED serverVars,
             \/ UNCHANGED <<threads, awaiting>>
             \/ awaiting' = c /\ threads' = threads \cup {c}
      PROVE  NotBeforeItIsMade' /\ InterruptsAhead'
  <2> DEFINE frame == [type |-> "tool_call", call |-> c, form |-> f]
  <2>1. frame \in FramesOf(c)
    BY FramesApart
  <2>2. Reads(frame) /\ form' = form /\ open' = open
    BY <1>3 DEF serverVars
  <2> HIDE DEF frame
  <2> QED BY <1>3, <2>1, <2>2, QueueShrinks
<1>4. "good" \in Forms /\ None \notin Calls
  BY RelayAssumption DEF Forms
<1>5. ASSUME NEW c \in Calls,
             HandleMalformed(c) \/ HandleDuplicate(c) \/ HandleUnprepared(c) \/ Dispatch(c)
      PROVE  NotBeforeItIsMade' /\ InterruptsAhead'
  <2>1. CASE HandleMalformed(c)
    BY <1>3, <2>1 DEF HandleMalformed
  <2>2. CASE HandleDuplicate(c) \/ HandleUnprepared(c) \/ Dispatch(c)
    BY <1>3, <1>4, <2>2 DEF HandleDuplicate, HandleUnprepared, Dispatch
  <2> QED BY <1>5, <2>1, <2>2
<1>6. CASE ReadAudio \/ ReadInterrupt
  <2>1. PICK frame : Reads(frame)
    BY <1>6 DEF ReadAudio, ReadInterrupt
  <2>2. form' = form /\ open' = open /\ UNCHANGED <<threads, awaiting>>
    BY <1>6 DEF ReadAudio, ReadInterrupt, serverVars
  <2> QED BY <2>1, <2>2, QueueShrinks
<1>7. ASSUME NEW c \in Calls, ServerCalls(c) PROVE NotBeforeItIsMade' /\ InterruptsAhead'
  <2>1. PICK f \in Forms : /\ Deliver([type |-> "tool_call", call |-> c, form |-> f])
                           /\ form' = [form EXCEPT ![c] = f]
    BY <1>7 DEF ServerCalls
  <2> DEFINE frame == [type |-> "tool_call", call |-> c, form |-> f]
  <2>2. form[c] = None /\ open' = c
    BY <1>7 DEF ServerCalls
  <2>3. frame \in FramesOf(c) /\ frame \in Frames
    BY FramesApart
  <2>4. CASE f # None
    <3>1. Deliver(frame)
      BY <2>1
    <3> HIDE DEF frame
    <3> QED BY <2>1, <2>2, <2>3, <2>4, <3>1, QueueGrows
  <2>5. f # None
    BY RelayAssumption DEF Forms
  <2> QED BY <2>4, <2>5
<1>8. ASSUME NEW c \in Calls, Redeliver(c) PROVE NotBeforeItIsMade' /\ InterruptsAhead'
  <2> DEFINE frame == [type |-> "tool_call", call |-> c, form |-> form[c]]
  <2>1. form[c] # None /\ Deliver(frame) /\ form' = form /\ open' = open
    BY <1>8 DEF Redeliver
  <2>2. form[c] \in Forms
    BY <2>1, CallTypes
  <2>3. frame \in FramesOf(c)
    BY <2>2, FramesApart
  <2> HIDE DEF frame
  <2>4. frame \in Frames
    BY <2>3, FramesApart
  <2> QED BY <2>1, <2>3, <2>4, QueueGrows
<1>9. CASE ServerSpeaks \/ ServerInterrupts
  <2>1. PICK frame \in {[type |-> "audio", generation |-> barged], Interrupt} : Deliver(frame)
    BY <1>9 DEF ServerSpeaks, ServerInterrupts
  <2>2. open = None /\ open' = None /\ form' = form
    BY <1>9 DEF ServerSpeaks, ServerInterrupts
  <2>3. frame \in AudioFrames \cup {Interrupt}
    BY <2>1 DEF AudioFrames, TypeOK
  <2>4. frame \in Frames /\ \A d \in Calls : frame \notin FramesOf(d)
    BY <2>3, FramesApart, FrameKinds
  <2> QED BY <2>1, <2>2, <2>4, QueueGrows
<1> QED BY <1>1, <1>2, <1>5, <1>6, <1>7, <1>8, <1>9 DEF Next, LoopStep

(* Frames are on their way only while there is a connection.               *)
LEMMA NextLinked ==
  ASSUME OneThread, [Next]_vars, ~linked'
  PROVE  inbox' = <<>>
<1>1. CASE Disconnect
  BY <1>1 DEF Disconnect
<1>2. CASE ~Disconnect
  <2>1. linked' = linked
    BY <1>2 DEF Next, LoopStep, ServerCloses, ServerSpeaks, ServerInterrupts, ReadAudio,
                ReadInterrupt, Play, ServerCalls, Redeliver, HandleDuplicate, HandleMalformed,
                HandleUnprepared, Dispatch, ThreadEnds, Deliver, vars
  <2>2. ~linked /\ inbox = <<>>
    BY <2>1 DEF OneThread
  <2>3. inbox' = inbox
    BY <2>2 DEF Next, LoopStep, ServerCloses, ServerSpeaks, ServerInterrupts, ReadAudio,
                ReadInterrupt, Play, ServerCalls, Redeliver, HandleDuplicate, HandleMalformed,
                HandleUnprepared, Dispatch, ThreadEnds, Deliver, Reads, Disconnect, vars
  <2> QED BY <2>2, <2>3
<1> QED BY <1>1, <1>2

LEMMA InitCallsInv == Init => CallsInv
BY RelayAssumption DEF Init, CallsInv, OneThread, RememberedIsAnswered, RunsAreAnswered,
                       NotBeforeItIsMade, InterruptsAhead

LEMMA NextCallsInv == TypeOK /\ TypeOK' /\ CallsInv /\ [Next]_vars => CallsInv'
<1> SUFFICES ASSUME TypeOK, TypeOK', CallsInv, [Next]_vars PROVE CallsInv'
  OBVIOUS
<1>1. OneThread'
  BY NextThreads, NextLinked DEF CallsInv, OneThread
<1>2. RememberedIsAnswered' /\ RunsAreAnswered'
  BY NextThreads DEF CallsInv
<1>3. NotBeforeItIsMade' /\ InterruptsAhead'
  BY NextQueue DEF CallsInv
<1> QED BY <1>1, <1>2, <1>3 DEF CallsInv

(* The loop awaits exactly the command that runs for its connection, what  *)
(* is remembered was answered, and no run but the awaited one is without   *)
(* its answer while the connection stands.                                 *)
THEOREM CallsInvariance == Spec => []CallsInv
BY InitCallsInv, NextCallsInv, RelayTypeCorrect, PTL DEF Spec

(* A call whose frame the loop has before it stays there until it is       *)
(* answered, known to be answered, or awaited; an awaited call stays so    *)
(* until it is answered; only the end of the connection ends it otherwise: *)
(* EveryCallAnswered without its fairness.                                 *)
NoCallIsLost ==
  [][\A c \in Calls :
       /\ HeadIsCall(c) => HeadIsCall(c)' \/ answers'[c] > 0 \/ awaiting' = c \/ ~linked'
       /\ awaiting = c => awaiting' = c \/ answers'[c] > 0 \/ ~linked']_vars

LEMMA StepLosesNoCall ==
  ASSUME TypeOK, CallsInv, [Next]_vars, NEW c \in Calls
  PROVE  /\ HeadIsCall(c) => HeadIsCall(c)' \/ answers'[c] > 0 \/ awaiting' = c \/ ~linked'
         /\ awaiting = c => awaiting' = c \/ answers'[c] > 0 \/ ~linked'
<1> DEFINE Goal == /\ HeadIsCall(c) => HeadIsCall(c)' \/ answers'[c] > 0 \/ awaiting' = c \/ ~linked'
                   /\ awaiting = c => awaiting' = c \/ answers'[c] > 0 \/ ~linked'
<1>0. HeadIsCall(c) => inbox # <<>> /\ Head(inbox) \in FramesOf(c)
  BY DEF HeadIsCall, FramesOf
<1>1. c # None /\ inbox \in Seq(Frames)
  BY GoodIsNoCall, CallTypes
<1>2. ASSUME inbox' = inbox, awaiting' = awaiting PROVE Goal
  BY <1>2 DEF HeadIsCall
<1>3. ASSUME Disconnect PROVE Goal
  BY <1>3 DEF Disconnect
<1>4. ASSUME NEW frame, Deliver(frame), awaiting' = awaiting PROVE Goal
  <2>1. HeadIsCall(c) => HeadIsCall(c)'
    <3> SUFFICES ASSUME inbox # <<>> PROVE inbox' # <<>> /\ Head(inbox') = Head(inbox)
      BY DEF HeadIsCall
    <3>1. inbox' = Append(inbox, frame)
      BY <1>4 DEF Deliver
    <3> QED BY <1>1, <3>1
  <2> QED BY <1>4, <2>1
<1>5. ASSUME NEW d \in Calls, ThreadEnds(d) PROVE Goal
  <2>1. inbox' = inbox /\ d \in threads
    BY <1>5 DEF ThreadEnds
  <2>2. HeadIsCall(c) => HeadIsCall(c)'
    BY <2>1 DEF HeadIsCall
  <2>3. CASE linked
    <3>1. Answer(d)
      BY <1>5, <2>3 DEF ThreadEnds
    <3>2. awaiting = c => d = c
      BY <2>1, <2>3 DEF CallsInv, OneThread
    <3>3. answers'[d] > 0
      BY <3>1, AnswersGrow
    <3> QED BY <2>2, <3>2, <3>3
  <2>4. CASE ~linked
    BY <2>2, <2>4, <1>1 DEF CallsInv, OneThread
  <2> QED BY <2>3, <2>4
<1>6. ASSUME NEW d \in Calls, NEW f \in Forms,
             Reads([type |-> "tool_call", call |-> d, form |-> f]),
             answers'[d] > 0 \/ awaiting' = d
      PROVE  Goal
  <2> DEFINE frame == [type |-> "tool_call", call |-> d, form |-> f]
  <2>1. frame \in FramesOf(d) /\ awaiting = None /\ frame = Head(inbox)
    BY <1>6, FramesApart DEF Reads
  <2> HIDE DEF frame
  <2>2. HeadIsCall(c) => d = c
    BY <1>0, <2>1, FramesApart
  <2> QED BY <1>1, <1>6, <2>1, <2>2
<1>7. "good" \in Forms
  BY DEF Forms
<1>8. ASSUME NEW d \in Calls, HandleMalformed(d) PROVE Goal
  <2>1. PICK f \in Forms : Reads([type |-> "tool_call", call |-> d, form |-> f])
    BY <1>8 DEF HandleMalformed
  <2>2. answers'[d] > 0
    BY <1>8, AnswersGrow DEF HandleMalformed
  <2> QED BY <1>6, <2>1, <2>2
<1>9. ASSUME NEW d \in Calls, HandleDuplicate(d) \/ HandleUnprepared(d) \/ Dispatch(d)
      PROVE  Goal
  <2>1. Reads([type |-> "tool_call", call |-> d, form |-> "good"])
    BY <1>9 DEF HandleDuplicate, HandleUnprepared, Dispatch
  <2>2. answers'[d] > 0 \/ awaiting' = d
    <3>1. CASE HandleDuplicate(d)
      BY <3>1 DEF HandleDuplicate, IsDuplicate, CallsInv, RememberedIsAnswered
    <3>2. CASE HandleUnprepared(d)
      BY <3>2, AnswersGrow DEF HandleUnprepared
    <3>3. CASE Dispatch(d)
      BY <3>3 DEF Dispatch
    <3> QED BY <1>9, <3>1, <3>2, <3>3
  <2> QED BY <1>6, <1>7, <2>1, <2>2
<1>10. ASSUME ReadAudio \/ ReadInterrupt PROVE Goal
  <2>1. awaiting = None /\ Head(inbox) \in AudioFrames \cup {Interrupt}
    BY <1>10 DEF ReadAudio, ReadInterrupt, Reads
  <2>2. ~HeadIsCall(c)
    BY <1>0, <2>1, FramesApart
  <2> QED BY <1>1, <2>1, <2>2
<1>11. ServerCloses \/ Play \/ UNCHANGED vars => inbox' = inbox /\ awaiting' = awaiting
  BY DEF ServerCloses, Play, vars
<1>12. ServerSpeaks \/ ServerInterrupts \/ (\E d \in Calls : ServerCalls(d) \/ Redeliver(d))
       => \E frame : Deliver(frame) /\ awaiting' = awaiting
  BY DEF ServerSpeaks, ServerInterrupts, ServerCalls, Redeliver, Deliver
<1> HIDE DEF Goal
<1>13. ASSUME \/ ServerCloses \/ Play \/ UNCHANGED vars \/ ServerSpeaks \/ ServerInterrupts
              \/ \E d \in Calls : ServerCalls(d) \/ Redeliver(d)
       PROVE  Goal
  BY <1>2, <1>4, <1>11, <1>12, <1>13
<1>14. Goal
  BY <1>3, <1>5, <1>8, <1>9, <1>10, <1>13 DEF Next, LoopStep
<1> QED BY <1>14 DEF Goal

(* NoCallIsLost: a tool call that the loop has read is answered, unless    *)
(* the connection ends first.                                              *)
THEOREM EveryCallIsFollowed == Spec => NoCallIsLost
<1>1. ASSUME TypeOK, CallsInv, [Next]_vars
      PROVE  [\A c \in Calls :
                /\ HeadIsCall(c) => HeadIsCall(c)' \/ answers'[c] > 0 \/ awaiting' = c \/ ~linked'
                /\ awaiting = c => awaiting' = c \/ answers'[c] > 0 \/ ~linked']_vars
  BY <1>1, StepLosesNoCall
<1> QED BY <1>1, RelayTypeCorrect, CallsInvariance, PTL DEF Spec, NoCallIsLost

(* What BargeInIsImmediate is violated by, and by nothing else: an         *)
(* interrupt waits behind a tool only when the server has given that call  *)
(* up (or was answered, and the frame came again).                         *)
OnlyBehindAbandonedCalls ==
  Interrupt \in Range(inbox) /\ awaiting # None => awaiting # open

(* OnlyBehindAbandonedCalls: no interrupt waits behind a tool call that    *)
(* the server still wants answered.                                        *)
THEOREM BargeInWaitsForAbandonedCalls == Spec => []OnlyBehindAbandonedCalls
<1>1. TypeOK /\ CallsInv => OnlyBehindAbandonedCalls
  <2> SUFFICES ASSUME TypeOK, CallsInv, Interrupt \in Range(inbox), awaiting # None,
                      awaiting = open
               PROVE  FALSE
    BY DEF OnlyBehindAbandonedCalls
  <2>1. PICK j \in 1 .. Len(inbox) : Interrupt = inbox[j]
    BY CallTypes, InRange
  <2> QED BY <2>1 DEF CallsInv, InterruptsAhead
<1> QED BY <1>1, RelayTypeCorrect, CallsInvariance, PTL
=============================================================================
