---------------------------- MODULE TimelineProofs ----------------------------
(***************************************************************************)
(* What holds of the timeline for every emulator, every set of ROMs, every *)
(* movie and every frame number: its types, the faithfulness of the cache, *)
(* the frames it shows, and that it implements TasPlayer.                  *)
(***************************************************************************)
EXTENDS Timeline, WellFoundedInduction, SequenceTheorems, TLAPS

-----------------------------------------------------------------------------
(* Playing inputs on the emulator.  The definition of Played is recursive:   *)
(* that it describes a function at all, and that no other sequence of states *)
(* follows the same inputs, are proved by induction on the number of inputs. *)

\* A set of naturals that is not empty has a least element.
LEMMA LeastElement ==
  ASSUME NEW T, T \subseteq Nat, T # {}
  PROVE  \E x \in T : \A y \in T : x <= y
<1> DEFINE Less == {ss \in Nat \X Nat : ss[1] < ss[2]}
<1>1. IsWellFoundedOn(Less, Nat)
  BY NatLessThanWellFounded DEF OpToRel
<1>2. PICK x \in T : \A y \in T : <<y, x>> \notin Less
  <2> HIDE DEF Less
  <2> QED BY <1>1, WFMin
<1>3. \A y \in T : ~ (y < x)
  BY <1>2
<1> QED BY <1>2, <1>3

\* Induction, stated for a set and derived from the least element of what is
\* left out of it.
LEMMA SetInduction ==
  ASSUME NEW T, 0 \in T, \A n \in Nat : n \in T => n + 1 \in T
  PROVE  Nat \subseteq T
<1> DEFINE Rest == Nat \ T
<1> SUFFICES ASSUME Rest # {} PROVE FALSE
  OBVIOUS
<1>1. PICK x \in Rest : \A y \in Rest : x <= y
  <2>1. Rest \subseteq Nat
    OBVIOUS
  <2> HIDE DEF Rest
  <2> QED BY <2>1, LeastElement
<1>2. x - 1 \in Nat /\ (x - 1) + 1 = x /\ ~ (x <= x - 1)
  BY <1>1
<1>3. x - 1 \in T
  BY <1>1, <1>2
<1> QED BY <1>1, <1>2, <1>3

\* One step of the machine is a state.
LEMMA AdvanceType ==
  ASSUME NEW r \in Roms, NEW s \in States, NEW i \in Inputs
  PROVE  Advance(r, s, i) \in States
BY EmulatorAssumption DEF Advance

\* Each of the first n entries of after is one step, under w, from the last.
StepsAlong(r, after, w, n) ==
  \A k \in 1..n : after[k] = Advance(r, after[k - 1], w[k])

\* after holds the states met when the first n inputs of w are played from s.
IsRun(r, after, s, w, n) ==
  /\ after \in [0..n -> States]
  /\ after[0] = s
  /\ StepsAlong(r, after, w, n)

\* Every sequence of inputs can be played.
LEMMA RunExists ==
  ASSUME NEW r \in Roms, NEW s \in States, NEW w \in Seq(Inputs)
  PROVE  \E after : IsRun(r, after, s, w, Len(w))
<1> DEFINE T == {n \in Nat : n <= Len(w) => \E after : IsRun(r, after, s, w, n)}
<1>1. 0 \in T
  <2> DEFINE h == [k \in 0..0 |-> s]
  <2>1. IsRun(r, h, s, w, 0)
    BY DEF IsRun, StepsAlong
  <2> QED BY <2>1
<1>2. ASSUME NEW n \in Nat, n \in T PROVE n + 1 \in T
  <2> SUFFICES ASSUME n + 1 <= Len(w)
               PROVE  \E after : IsRun(r, after, s, w, n + 1)
    BY <1>2
  <2>1. PICK h : IsRun(r, h, s, w, n)
    BY <1>2
  <2> DEFINE g == [k \in 0..(n + 1) |->
                     IF k <= n THEN h[k] ELSE Advance(r, h[n], w[n + 1])]
  <2>2. h[n] \in States /\ w[n + 1] \in Inputs
    BY <2>1 DEF IsRun, StepsAlong
  <2>3. Advance(r, h[n], w[n + 1]) \in States
    BY <2>2, AdvanceType
  <2>4. g \in [0..(n + 1) -> States]
    BY <2>1, <2>3 DEF IsRun, StepsAlong
  <2>5. g[0] = s
    BY <2>1 DEF IsRun, StepsAlong
  <2>6. ASSUME NEW k \in 1..(n + 1) PROVE g[k] = Advance(r, g[k - 1], w[k])
    <3>1. CASE k <= n
      BY <3>1, <2>1 DEF IsRun, StepsAlong
    <3>2. CASE k = n + 1
      BY <3>2
    <3> QED BY <3>1, <3>2
  <2> QED BY <2>4, <2>5, <2>6 DEF IsRun, StepsAlong
<1>3. Nat \subseteq T
  <2> HIDE DEF T
  <2> QED BY <1>1, <1>2, SetInduction
<1> QED BY <1>3, LenProperties

\* Two functions that start in one state and step with the same inputs agree.
LEMMA RunUnique ==
  ASSUME NEW r, NEW g, NEW h, NEW w, NEW n \in Nat, g[0] = h[0],
         StepsAlong(r, g, w, n), StepsAlong(r, h, w, n)
  PROVE  \A k \in 0..n : g[k] = h[k]
<1> DEFINE T == {k \in Nat : k <= n => g[k] = h[k]}
<1>1. 0 \in T
  OBVIOUS
<1>2. ASSUME NEW k \in Nat, k \in T PROVE k + 1 \in T
  <2> SUFFICES ASSUME k + 1 <= n PROVE g[k + 1] = h[k + 1]
    OBVIOUS
  <2>1. g[k] = h[k]
    BY <1>2
  <2>2. k + 1 \in 1..n /\ (k + 1) - 1 = k
    OBVIOUS
  <2>3. g[k + 1] = Advance(r, g[k], w[k + 1]) /\ h[k + 1] = Advance(r, h[k], w[k + 1])
    BY <2>2 DEF StepsAlong
  <2> QED BY <2>1, <2>3
<1>3. Nat \subseteq T
  <2> HIDE DEF T
  <2> QED BY <1>1, <1>2, SetInduction
<1> QED BY <1>3

\* Played(r, s, w) is the run of w from s.
LEMMA PlayedIsRun ==
  ASSUME NEW r \in Roms, NEW s \in States, NEW w \in Seq(Inputs)
  PROVE  IsRun(r, Played(r, s, w), s, w, Len(w))
<1> DEFINE Body(f) == [k \in 0..Len(w) |->
                         IF k = 0 THEN s ELSE Advance(r, f[k - 1], w[k])]
<1> SUFFICES ASSUME NEW p, p = Played(r, s, w)
             PROVE  IsRun(r, p, s, w, Len(w))
  OBVIOUS
<1>0. Len(w) \in Nat
  BY LenProperties
<1>1. PICK h : IsRun(r, h, s, w, Len(w))
  BY RunExists
<1>2. h = Body(h)
  BY <1>0, <1>1 DEF IsRun, StepsAlong
<1>3. p = CHOOSE f : f = Body(f)
  BY DEF Played
<1>4. p = Body(p)
  <2> HIDE DEF Body
  <2> QED BY <1>2, <1>3
<1>5. p[0] = s /\ StepsAlong(r, p, w, Len(w))
  BY <1>0, <1>4 DEF StepsAlong
<1>6. \A k \in 0..Len(w) : p[k] = h[k]
  <2>1. p[0] = h[0] /\ StepsAlong(r, h, w, Len(w))
    BY <1>1, <1>5 DEF IsRun
  <2> HIDE DEF Body
  <2> QED BY <1>0, <1>5, <2>1, RunUnique
<1>7. p \in [0..Len(w) -> States]
  <2>1. p = [k \in 0..Len(w) |-> p[k]]
    BY <1>4
  <2>2. \A k \in 0..Len(w) : p[k] \in States
    BY <1>1, <1>6 DEF IsRun
  <2> QED BY <2>1, <2>2
<1> QED BY <1>5, <1>7 DEF IsRun

\* A sequence of states that starts in s and steps along w is what playing w
\* from s gives.
LEMMA PlayedUnique ==
  ASSUME NEW r \in Roms, NEW s \in States, NEW w \in Seq(Inputs), NEW g, g[0] = s,
         StepsAlong(r, g, w, Len(w))
  PROVE  \A k \in 0..Len(w) : g[k] = Played(r, s, w)[k]
<1> SUFFICES ASSUME NEW p, p = Played(r, s, w)
             PROVE  \A k \in 0..Len(w) : g[k] = p[k]
  OBVIOUS
<1>1. p[0] = g[0] /\ StepsAlong(r, p, w, Len(w)) /\ Len(w) \in Nat
  BY PlayedIsRun, LenProperties DEF IsRun
<1> QED BY <1>1, RunUnique

-----------------------------------------------------------------------------
(* The invariant. *)

\* The cache is inductive together with the types: a step of the emulator is
\* only known to be a state when the states it starts from are.
Inv == TypeOK /\ RecordedPrefixFaithful /\ CachedByPlay

-----------------------------------------------------------------------------
(* The helpers of the handlers. *)

LEMMA InputAtType ==
  ASSUME inputs \in Seq(Inputs), NEW f \in Nat
  PROVE  InputAt(f) \in Inputs
BY EmulatorAssumption DEF InputAt

LEMMA StateBeforeType ==
  ASSUME timeline \in Seq(States), initialState \in States,
         NEW f \in 0..Len(timeline)
  PROVE  StateBefore(f) \in States
BY DEF StateBefore

\* The inputs still to be played are a sequence of inputs, one for each frame
\* the cache lacks.
LEMMA MissingType ==
  ASSUME inputs \in Seq(Inputs), timeline \in Seq(States),
         NEW frame \in Nat, frame > Len(timeline)
  PROVE  /\ Missing(frame) \in Seq(Inputs)
         /\ Len(Missing(frame)) = frame - Len(timeline)
         /\ \A k \in 1..(frame - Len(timeline)) :
              Missing(frame)[k] = InputAt(Len(timeline) + k - 1)
<1> DEFINE n == frame - Len(timeline)
<1>1. n \in Nat /\ Len(timeline) \in Nat
  BY LenProperties
<1>2. \A k \in 1..n : InputAt(Len(timeline) + k - 1) \in Inputs
  BY <1>1, InputAtType
<1>3. Missing(frame) = [k \in 1..n |-> InputAt(Len(timeline) + k - 1)]
  BY DEF Missing
<1>4. Missing(frame) \in [1..n -> Inputs]
  BY <1>2, <1>3
<1>5. Missing(frame) \in Seq(Inputs)
  BY <1>1, <1>4
<1>6. Len(Missing(frame)) = n
  BY <1>1, <1>4, <1>5
<1> QED BY <1>3, <1>5, <1>6

\* emulateToFrame keeps what is cached and adds, for each frame up to the one
\* asked for, one step under the input getInputStateForFrame gives.
LEMMA FilledToProperties ==
  ASSUME timeline \in Seq(States), inputs \in Seq(Inputs),
         rom \in Roms, initialState \in States, NEW frame \in Nat
  PROVE  /\ FilledTo(frame) \in Seq(States)
         /\ Len(FilledTo(frame)) =
              IF frame <= Len(timeline) THEN Len(timeline) ELSE frame
         /\ \A i \in 1..Len(timeline) : FilledTo(frame)[i] = timeline[i]
         /\ \A i \in (Len(timeline) + 1)..frame :
              FilledTo(frame)[i] =
                Advance(rom, IF i = 1 THEN initialState ELSE FilledTo(frame)[i - 1],
                        InputAt(i - 1))
<1> DEFINE L == Len(timeline)
           s == StateBefore(L)
           w == Missing(frame)
<1>1. L \in Nat
  BY LenProperties
<1>2. CASE frame <= L
  BY <1>1, <1>2 DEF FilledTo
<1>3. CASE frame > L
  <2>1. s \in States
    BY <1>1, StateBeforeType
  <2>2. w \in Seq(Inputs) /\ Len(w) = frame - L
    BY <1>3, MissingType
  <2>3. PICK after : after = Played(rom, s, w)
    OBVIOUS
  <2>4. IsRun(rom, after, s, w, frame - L)
    BY <2>1, <2>2, <2>3, PlayedIsRun
  <2> DEFINE new == [k \in 1..(frame - L) |-> after[k]]
             full == timeline \o new
  <2>5. new \in Seq(States) /\ Len(new) = frame - L
    <3>1. new \in [1..(frame - L) -> States]
      BY <1>1, <1>3, <2>4 DEF IsRun
    <3>2. frame - L \in Nat
      BY <1>1, <1>3
    <3> QED BY <3>1, <3>2
  <2>6. FilledTo(frame) = full
    BY <1>1, <1>3, <2>2, <2>3 DEF FilledTo
  <2>7. full \in Seq(States) /\ Len(full) = frame
    BY <1>1, <1>3, <2>5
  <2>8. \A i \in 1..L : full[i] = timeline[i]
    BY <1>1, <2>5, ConcatProperties
  <2>9. \A i \in (L + 1)..frame : full[i] = after[i - L]
    BY <1>1, <1>3, <2>5, ConcatProperties
  <2>10. ASSUME NEW i \in (L + 1)..frame
         PROVE  full[i] = Advance(rom, IF i = 1 THEN initialState ELSE full[i - 1],
                                  InputAt(i - 1))
    <3>1. i - L \in 1..(frame - L) /\ i \in Nat
      BY <1>1
    <3>2. after[i - L] = Advance(rom, after[(i - L) - 1], w[i - L])
      BY <2>4, <3>1 DEF IsRun, StepsAlong
    <3>3. w[i - L] = InputAt(i - 1)
      <4>1. w[i - L] = InputAt(L + (i - L) - 1)
        BY <1>3, <3>1, MissingType
      <4>2. L + (i - L) - 1 = i - 1
        BY <1>1, <3>1
      <4> QED BY <4>1, <4>2
    <3>4. after[(i - L) - 1] = IF i = 1 THEN initialState ELSE full[i - 1]
      <4>1. CASE i = L + 1
        <5>1. after[(i - L) - 1] = s
          BY <1>1, <2>4, <4>1 DEF IsRun
        <5>2. i # 1 => full[i - 1] = timeline[L]
          BY <1>1, <2>8, <4>1
        <5> QED BY <1>1, <4>1, <5>1, <5>2 DEF StateBefore
      <4>2. CASE i # L + 1
        <5>1. i - 1 \in (L + 1)..frame /\ (i - 1) - L = (i - L) - 1 /\ i # 1
          BY <1>1, <3>1, <4>2
        <5> QED BY <2>9, <5>1
      <4> QED BY <4>1, <4>2
    <3> QED BY <2>9, <3>2, <3>3, <3>4
  <2> HIDE DEF full
  <2> QED BY <1>1, <1>3, <2>6, <2>7, <2>8, <2>10
<1> QED BY <1>1, <1>2, <1>3

\* The frame stepped into is one step from the state in front of it.
LEMMA SteppedIntoProperties ==
  ASSUME timeline \in Seq(States), inputs \in Seq(Inputs),
         rom \in Roms, initialState \in States, NEW frame \in Nat
  PROVE  /\ SteppedInto(frame) \in States
         /\ SteppedInto(frame) =
              Advance(rom, IF frame = 0 THEN initialState ELSE FilledTo(frame)[frame],
                      InputAt(frame))
<1> DEFINE pre == IF frame = 0 THEN initialState ELSE FilledTo(frame)[frame]
<1>1. SteppedInto(frame) = Advance(rom, pre, InputAt(frame))
  BY DEF SteppedInto
<1>2. pre \in States
  <2>1. FilledTo(frame) \in Seq(States) /\ frame <= Len(FilledTo(frame))
    BY FilledToProperties, LenProperties
  <2> QED BY <2>1
<1>3. InputAt(frame) \in Inputs
  BY InputAtType
<1> QED BY <1>1, <1>2, <1>3, AdvanceType

-----------------------------------------------------------------------------
(* The invariants, over each handler. *)

LEMMA InitInv == Init => Inv
BY EmulatorAssumption
   DEF Init, Inv, TypeOK, RecordedPrefixFaithful, CachedByPlay, NoFrame

\* Filling the cache preserves what is known of it; cmd_getFrame and
\* cmd_initAStar both do it.
LEMMA FillPreserves ==
  ASSUME Inv, initialState # NoState, NEW frame \in Frames,
         timeline' = FilledTo(frame), UNCHANGED <<rom, initialState, inputs>>
  PROVE  /\ timeline' \in Seq(States)
         /\ RecordedPrefixFaithful'
         /\ CachedByPlay'
<1> DEFINE L == Len(timeline)
           fill == FilledTo(frame)
<1>0. frame \in Nat /\ rom \in Roms /\ initialState \in States
      /\ timeline \in Seq(States) /\ inputs \in Seq(Inputs) /\ L \in Nat
  BY TimelineAssumption, LenProperties DEF Inv, TypeOK
<1>1. /\ fill \in Seq(States)
      /\ Len(fill) = IF frame <= L THEN L ELSE frame
      /\ \A i \in 1..L : fill[i] = timeline[i]
      /\ \A i \in (L + 1)..frame :
           fill[i] = Advance(rom, IF i = 1 THEN initialState ELSE fill[i - 1],
                             InputAt(i - 1))
  BY <1>0, FilledToProperties
<1> HIDE DEF fill
<1>2. \A i \in 0..L : StateBefore(i)' = StateBefore(i)
  BY <1>0, <1>1 DEF StateBefore, fill
<1>3. ASSUME NEW i \in 1..Len(timeline)', i > L
      PROVE  timeline'[i] = Advance(rom, StateBefore(i - 1)', InputAt(i - 1))
  <2>1. i \in (L + 1)..frame
    BY <1>0, <1>1, <1>3 DEF fill
  <2>2. StateBefore(i - 1)' = IF i = 1 THEN initialState ELSE fill[i - 1]
    BY <1>0, <2>1 DEF StateBefore, fill
  <2> QED BY <1>1, <2>1, <2>2 DEF fill
<1>4. ASSUME NEW i \in 1..Len(timeline)', i <= L
      PROVE  timeline'[i] = timeline[i] /\ StateBefore(i - 1)' = StateBefore(i - 1)
  <2>1. i \in 1..L /\ i - 1 \in 0..L
    BY <1>0, <1>4
  <2> QED BY <1>1, <1>2, <2>1 DEF fill
<1>5. Len(timeline)' \in Nat
  BY <1>1, LenProperties DEF fill
<1>6. RecordedPrefixFaithful'
  <2> SUFFICES ASSUME NEW i \in 1..Len(timeline)', i <= Len(inputs)'
               PROVE  timeline'[i] = Advance(rom, StateBefore(i - 1)', inputs'[i])
    BY DEF RecordedPrefixFaithful
  <2>1. CASE i <= L
    BY <1>0, <1>4, <2>1 DEF Inv, RecordedPrefixFaithful
  <2>2. CASE i > L
    <3>1. InputAt(i - 1) = inputs[i]
      BY <1>0 DEF InputAt
    <3> QED BY <1>3, <2>2, <3>1
  <2> QED BY <1>0, <1>5, <2>1, <2>2
<1>7. CachedByPlay'
  <2> SUFFICES ASSUME NEW i \in 1..Len(timeline)'
               PROVE  \E x \in Inputs :
                        timeline'[i] = Advance(rom, StateBefore(i - 1)', x)
    BY DEF CachedByPlay
  <2>1. CASE i <= L
    BY <1>0, <1>4, <2>1 DEF Inv, CachedByPlay
  <2>2. CASE i > L
    <3>1. i - 1 \in Nat
      BY <1>5
    <3>2. InputAt(i - 1) \in Inputs
      BY <1>0, <3>1, InputAtType
    <3> QED BY <1>3, <2>2, <3>2
  <2> QED BY <1>0, <1>5, <2>1, <2>2
<1> QED BY <1>1, <1>6, <1>7 DEF fill

\* A cut of the cache to its first k states, with the movie replaced by one
\* that agrees on the inputs of these states.
LEMMA CutPreserves ==
  ASSUME Inv, NEW m \in Movies, SetFrameInputs(m)
  PROVE  /\ timeline' \in Seq(States)
         /\ timeline' # <<>> => timeline # <<>>
         /\ RecordedPrefixFaithful'
         /\ CachedByPlay'
<1>0. timeline \in Seq(States) /\ inputs \in Seq(Inputs) /\ m \in Seq(Inputs)
  BY TimelineAssumption DEF Inv, TypeOK
<1>1. PICK k \in 0..Len(timeline) :
        InvalidatesFrom(m, k) /\ timeline' = SubSeq(timeline, 1, k)
  BY DEF SetFrameInputs
<1>2. inputs' = m /\ initialState' = initialState /\ rom' = rom
  BY DEF SetFrameInputs
<1>3. /\ timeline' \in Seq(States)
      /\ Len(timeline') = k
      /\ \A i \in 1..k : timeline'[i] = timeline[i]
  BY <1>0, <1>1, LenProperties
<1>4. \A i \in 1..k : StateBefore(i - 1)' = StateBefore(i - 1)
  BY <1>1, <1>2, <1>3 DEF StateBefore
<1>5. \A i \in 1..k : i \in 1..Len(timeline)
  BY <1>0, <1>1
<1>6. RecordedPrefixFaithful'
  <2> SUFFICES ASSUME NEW i \in 1..k, i <= Len(m)
               PROVE  timeline'[i] = Advance(rom, StateBefore(i - 1)', m[i])
    BY <1>2, <1>3 DEF RecordedPrefixFaithful
  <2>1. i <= Len(inputs) /\ inputs[i] = m[i]
    BY <1>0, <1>1, LenProperties DEF InvalidatesFrom, Unchanged
  <2> QED BY <1>3, <1>4, <1>5, <2>1 DEF Inv, RecordedPrefixFaithful
<1>7. CachedByPlay'
  <2> SUFFICES ASSUME NEW i \in 1..k
               PROVE  \E x \in Inputs :
                        timeline'[i] = Advance(rom, StateBefore(i - 1)', x)
    BY <1>2, <1>3 DEF CachedByPlay
  <2> QED BY <1>3, <1>4, <1>5 DEF Inv, CachedByPlay
<1>8. timeline' # <<>> => timeline # <<>>
  BY <1>0, <1>1, <1>3
<1> QED BY <1>3, <1>6, <1>7, <1>8

\* The invariants survive every command, an abort and a restart.
LEMMA NextInv == Inv /\ [Next]_vars => Inv'
<1> SUFFICES ASSUME Inv, [Next]_vars PROVE Inv'
  OBVIOUS
<1> USE EmulatorAssumption, TimelineAssumption
<1>1. ASSUME NEW r \in Roms, OpenRom(r) PROVE Inv'
  BY <1>1 DEF Inv, TypeOK, RecordedPrefixFaithful, CachedByPlay, OpenRom
<1>2. ASSUME NEW m \in Movies, SetFrameInputs(m) PROVE Inv'
  <2>1. TypeOK'
    BY <1>2, CutPreserves DEF Inv, TypeOK, SetFrameInputs
  <2> QED BY <1>2, <2>1, CutPreserves DEF Inv
<1>3. CASE SetRamBlackoutBytes
  BY <1>3 DEF Inv, TypeOK, RecordedPrefixFaithful, CachedByPlay,
              SetRamBlackoutBytes
<1>4. ASSUME NEW f \in Frames, GetFrame(f) PROVE Inv'
  <2>1. SteppedInto(f) \in States
    BY <1>4, SteppedIntoProperties DEF Inv, TypeOK, GetFrame
  <2>2. Advance(rom, SteppedInto(f), LastInput) \in States
    BY <1>4, <2>1, AdvanceType DEF Inv, TypeOK, GetFrame
  <2>3. TypeOK'
    BY <1>4, <2>1, <2>2, FillPreserves DEF Inv, TypeOK, GetFrame
  <2> QED BY <1>4, <2>3, FillPreserves DEF Inv, GetFrame
<1>5. ASSUME NEW f \in Frames, InitAStar(f) PROVE Inv'
  <2>1. SteppedInto(f) \in States
    BY <1>5, SteppedIntoProperties DEF Inv, TypeOK, InitAStar
  <2>2. TypeOK'
    BY <1>5, <2>1, FillPreserves DEF Inv, TypeOK, InitAStar
  <2> QED BY <1>5, <2>2, FillPreserves DEF Inv, InitAStar
<1>6. CASE InitAStarWithoutRom
  BY <1>6 DEF Inv, TypeOK, RecordedPrefixFaithful, CachedByPlay, StateBefore,
              InitAStarWithoutRom
<1>7. CASE Restart
  BY <1>7 DEF Inv, TypeOK, RecordedPrefixFaithful, CachedByPlay, Restart, NoFrame
<1>8. CASE UNCHANGED vars
  BY <1>8 DEF Inv, TypeOK, RecordedPrefixFaithful, CachedByPlay, StateBefore, vars
<1> QED BY <1>1, <1>2, <1>3, <1>4, <1>5, <1>6, <1>7, <1>8 DEF Next

\* Every variable keeps its type, for any emulator and any sequence of
\* commands.
THEOREM TypeCorrect == Spec => []TypeOK
<1>1. Inv => TypeOK
  BY DEF Inv
<1> QED BY <1>1, InitInv, NextInv, PTL DEF Spec

\* The cache is always what playing the movie gives, as far as the movie
\* goes: what cmd_setFrameInputs drops is enough.
THEOREM CacheFaithful == Spec => []RecordedPrefixFaithful
<1>1. Inv => RecordedPrefixFaithful
  BY DEF Inv
<1> QED BY <1>1, InitInv, NextInv, PTL DEF Spec

\* Every cached state is reached from the loaded ROM by some inputs.
THEOREM CacheReachable == Spec => []CachedByPlay
<1>1. Inv => CachedByPlay
  BY DEF Inv
<1> QED BY <1>1, InitInv, NextInv, PTL DEF Spec

-----------------------------------------------------------------------------
(* What is shown. *)

\* When the cached states in front of frame f were stepped with w, and w ends
\* in the input of frame f, the frame shown is w played from the loaded ROM.
LEMMA ShownIsPlayed ==
  ASSUME Inv, NEW f \in Frames, GetFrame(f),
         NEW w \in Seq(Inputs), Len(w) = f + 1, w[f + 1] = InputAt(f),
         \A i \in 1..f : timeline'[i] = Advance(rom, StateBefore(i - 1)', w[i])
  PROVE  shown' = [frame |-> f, state |-> Played(rom, initialState, w)[f + 1]]
<1>0. f \in Nat /\ rom \in Roms /\ initialState \in States
      /\ timeline \in Seq(States) /\ inputs \in Seq(Inputs)
  BY TimelineAssumption DEF Inv, TypeOK, GetFrame
<1>1. timeline' = FilledTo(f) /\ initialState' = initialState /\ rom' = rom
      /\ shown' = [frame |-> f, state |-> SteppedInto(f)]
  BY DEF GetFrame
<1> DEFINE g == [i \in 0..(f + 1) |->
                   IF i = 0 THEN initialState
                   ELSE IF i <= f THEN timeline'[i] ELSE SteppedInto(f)]
<1>2. g[0] = initialState
  BY <1>0
<1>3. StepsAlong(rom, g, w, Len(w))
  <2> SUFFICES ASSUME NEW i \in 1..(f + 1)
               PROVE  g[i] = Advance(rom, g[i - 1], w[i])
    BY DEF StepsAlong
  <2>1. CASE i <= f
    <3>1. g[i] = timeline'[i] /\ g[i - 1] = StateBefore(i - 1)'
      BY <1>0, <1>1, <2>1 DEF StateBefore
    <3> QED BY <1>0, <2>1, <3>1
  <2>2. CASE i = f + 1
    <3>1. g[i] = SteppedInto(f)
      BY <1>0, <2>2
    <3>2. g[i - 1] = IF f = 0 THEN initialState ELSE FilledTo(f)[f]
      BY <1>0, <1>1, <2>2
    <3> QED BY <1>0, <2>2, <3>1, <3>2, SteppedIntoProperties
  <2> QED BY <1>0, <2>1, <2>2
<1>4. g[f + 1] = SteppedInto(f)
  BY <1>0
<1>5. f + 1 \in 0..Len(w)
  BY <1>0
<1> HIDE DEF g
<1>6. g[f + 1] = Played(rom, initialState, w)[f + 1]
  BY <1>0, <1>2, <1>3, <1>5, PlayedUnique
<1> QED BY <1>1, <1>4, <1>6

\* The cache reaches far enough, and is right, for every frame shown.
LEMMA ShownFrom ==
  ASSUME Inv, NEW f \in Frames, GetFrame(f)
  PROVE  /\ f \in Nat /\ inputs \in Seq(Inputs) /\ inputs' = inputs /\ rom' = rom
         /\ f <= Len(timeline')
         /\ Len(timeline') \in Nat
         /\ RecordedPrefixFaithful'
         /\ CachedByPlay'
<1>1. f \in Nat /\ rom \in Roms /\ initialState \in States
      /\ timeline \in Seq(States) /\ inputs \in Seq(Inputs)
  BY TimelineAssumption DEF Inv, TypeOK, GetFrame
<1>2. timeline' = FilledTo(f) /\ inputs' = inputs /\ rom' = rom
  BY DEF GetFrame
<1>3. f <= Len(timeline') /\ Len(timeline') \in Nat
  BY <1>1, <1>2, FilledToProperties, LenProperties
<1>4. RecordedPrefixFaithful' /\ CachedByPlay'
  BY FillPreserves DEF GetFrame
<1> QED BY <1>1, <1>2, <1>3, <1>4

\* A frame within the movie is shown as playing the movie gives it, whatever
\* was cached.
THEOREM MovieShown == Spec => ShowsTheMovie
<1> DEFINE Exact ==
      \A f \in Frames :
        GetFrame(f) /\ f <= Len(inputs) =>
          shown'.state = Played(rom, initialState,
                                [k \in 1..(f + 1) |-> InputAt(k - 1)])[f + 1]
<1>1. ASSUME Inv PROVE Exact
  <2> SUFFICES ASSUME NEW f \in Frames, GetFrame(f), f <= Len(inputs)
               PROVE  shown'.state =
                        Played(rom, initialState,
                               [k \in 1..(f + 1) |-> InputAt(k - 1)])[f + 1]
    OBVIOUS
  <2> DEFINE w == [k \in 1..(f + 1) |-> InputAt(k - 1)]
  <2>1. /\ f \in Nat /\ inputs \in Seq(Inputs) /\ inputs' = inputs /\ rom' = rom
        /\ f <= Len(timeline') /\ Len(timeline') \in Nat
        /\ RecordedPrefixFaithful'
    BY <1>1, ShownFrom
  <2>2. \A k \in 1..(f + 1) : InputAt(k - 1) \in Inputs
    BY <2>1, InputAtType
  <2>3. w \in Seq(Inputs) /\ Len(w) = f + 1 /\ w[f + 1] = InputAt(f)
    BY <2>1, <2>2
  <2>4. \A i \in 1..f : timeline'[i] = Advance(rom, StateBefore(i - 1)', w[i])
    <3> SUFFICES ASSUME NEW i \in 1..f
                 PROVE  timeline'[i] = Advance(rom, StateBefore(i - 1)', w[i])
      OBVIOUS
    <3>1. i \in 1..Len(timeline') /\ i <= Len(inputs')
      BY <2>1, LenProperties
    <3>2. w[i] = inputs'[i]
      BY <2>1, <3>1 DEF InputAt
    <3> QED BY <2>1, <3>1, <3>2 DEF RecordedPrefixFaithful
  <2> HIDE DEF w
  <2>5. shown' = [frame |-> f, state |-> Played(rom, initialState, w)[f + 1]]
    BY <1>1, <2>3, <2>4, ShownIsPlayed
  <2> QED BY <2>5 DEF w
<1>2. Inv /\ [Next]_vars => [Exact]_vars
  BY <1>1
<1>3. Spec => [][Exact]_vars
  BY <1>2, InitInv, NextInv, PTL DEF Spec
<1> QED BY <1>3 DEF ShowsTheMovie

-----------------------------------------------------------------------------
(* The timeline implements the player. *)

LEMMA PlayerPlayed == \A r, s, w : Player!Played(r, s, w) = Played(r, s, w)
BY DEF Player!Played, Player!Advance, Played, Advance

LEMMA PlayerInitial == Init => Player!PlayerInit
BY DEF Init, Player!PlayerInit, NoFrame, Player!Blank

\* The player shows a frame the server shows: the inputs it plays are those
\* that filled the cache, which within the movie are the movie's.
LEMMA PlayerShows ==
  ASSUME Inv, NEW f \in Frames, GetFrame(f)
  PROVE  Player!Show(f)
<1>1. /\ f \in Nat /\ inputs \in Seq(Inputs) /\ inputs' = inputs /\ rom' = rom
      /\ f <= Len(timeline') /\ Len(timeline') \in Nat
      /\ RecordedPrefixFaithful' /\ CachedByPlay'
  BY ShownFrom
<1> DEFINE Input(i) ==
      CHOOSE x \in Inputs : timeline'[i] = Advance(rom, StateBefore(i - 1)', x)
           w == [i \in 1..(f + 1) |->
                   IF i = f + 1 THEN InputAt(f)
                   ELSE IF i <= Len(inputs) THEN inputs[i] ELSE Input(i)]
<1>2. \A i \in 1..f : Input(i) \in Inputs
                    /\ timeline'[i] = Advance(rom, StateBefore(i - 1)', Input(i))
  BY <1>1, LenProperties DEF CachedByPlay
<1>3. \A i \in 1..f : w[i] \in Inputs
                    /\ timeline'[i] = Advance(rom, StateBefore(i - 1)', w[i])
  <2> SUFFICES ASSUME NEW i \in 1..f
               PROVE  /\ w[i] \in Inputs
                      /\ timeline'[i] = Advance(rom, StateBefore(i - 1)', w[i])
    OBVIOUS
  <2>1. CASE i <= Len(inputs)
    <3>1. w[i] = inputs[i] /\ i \in 1..Len(inputs) /\ i \in 1..Len(timeline')
      BY <1>1, <2>1, LenProperties
    <3> QED BY <1>1, <3>1 DEF RecordedPrefixFaithful
  <2>2. CASE ~ (i <= Len(inputs))
    <3>1. w[i] = Input(i)
      BY <1>1, <2>2
    <3> QED BY <1>2, <3>1
  <2> QED BY <2>1, <2>2
<1>4. w[f + 1] = InputAt(f) /\ w[f + 1] \in Inputs
  BY <1>1, InputAtType
<1>5. w \in [1..(f + 1) -> Inputs]
  <2>1. ASSUME NEW i \in 1..(f + 1) PROVE w[i] \in Inputs
    <3> HIDE DEF w
    <3>1. i \in 1..f \/ i = f + 1
      BY <1>1
    <3> QED BY <1>3, <1>4, <3>1
  <2> QED BY <2>1
<1>6. \A i \in 1..(f + 1) : i <= Len(inputs) => w[i] = inputs[i]
  BY <1>1, LenProperties DEF InputAt
<1>7. w \in Seq(Inputs) /\ Len(w) = f + 1
  BY <1>1, <1>5
<1> HIDE DEF w
<1>8. shown' = [frame |-> f, state |-> Played(rom, initialState, w)[f + 1]]
  BY <1>3, <1>4, <1>7, ShownIsPlayed
<1>9. Player!Follows(w)
  BY <1>5, <1>6 DEF Player!Follows
<1>10. initialState # NoState /\ UNCHANGED <<rom, initialState, inputs>>
  BY DEF GetFrame
<1> QED BY <1>5, <1>8, <1>9, <1>10, PlayerPlayed DEF Player!Show

\* Every step of the server is a step of the player or changes nothing the
\* player knows of.
LEMMA PlayerSteps == Inv /\ [Next]_vars => [Player!PlayerNext]_(Player!playerVars)
<1> SUFFICES ASSUME Inv, [Next]_vars
             PROVE  [Player!PlayerNext]_(Player!playerVars)
  OBVIOUS
<1> USE DEF Player!PlayerNext, Player!playerVars
<1>1. ASSUME NEW r \in Roms, OpenRom(r) PROVE Player!Load(r)
  BY <1>1 DEF OpenRom, Player!Load
<1>2. ASSUME NEW m \in Movies, SetFrameInputs(m) PROVE Player!Edit(m)
  BY <1>2 DEF SetFrameInputs, Player!Edit
<1>3. ASSUME NEW f \in Frames, GetFrame(f) PROVE Player!Show(f)
  BY <1>3, PlayerShows
<1>4. ASSUME NEW f \in Frames, InitAStar(f) PROVE UNCHANGED Player!playerVars
  BY <1>4 DEF InitAStar
<1>5. CASE SetRamBlackoutBytes
  BY <1>5 DEF SetRamBlackoutBytes
<1>6. CASE InitAStarWithoutRom
  BY <1>6 DEF InitAStarWithoutRom
<1>7. CASE Restart
  BY <1>7 DEF Restart, NoFrame, Player!Forget, Player!Blank
<1>8. CASE UNCHANGED vars
  BY <1>8 DEF vars
<1> QED BY <1>1, <1>2, <1>3, <1>4, <1>5, <1>6, <1>7, <1>8 DEF Next

\* The server with its cache implements the player without one.
THEOREM TimelineImplementsPlayer == Spec => ImplementsPlayer
BY InitInv, NextInv, PlayerInitial, PlayerSteps, PTL
   DEF Spec, ImplementsPlayer, Player!PlayerSpec

=============================================================================
