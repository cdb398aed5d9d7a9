----------------------------- MODULE AStarProofs -----------------------------
(***************************************************************************)
(* What holds of the A* search for every emulator, every hash of the RAM,  *)
(* every heuristic and every number of rounds: the bookkeeping of open and *)
(* closed nodes, that the search never runs dry, that the parents lead to  *)
(* the start, and that the path it reports leads to its best node.  Then   *)
(* of the page that asks for it: the path it writes into the movie         *)
(* continues the movie that the search began with.                         *)
(***************************************************************************)
EXTENDS AStar, SearchPage, FiniteSetTheorems, WellFoundedInduction, SequenceTheorems, TLAPS

-----------------------------------------------------------------------------
(* Playing inputs on the emulator. *)

\* A set of naturals that is not empty has a least element.
LEMMA LeastElement ==
  ASSUME NEW T, T \subseteq Nat, T # {}
  PROVE  \E x \in T : \A y \in T : x <= y
<1> DEFINE Less == {ss \in Nat \X Nat : ss[1] < ss[2]}
<1>1. IsWellFoundedOn(Less, Nat)
  BY NatLessThanWellFounded DEF OpToRel
<1>2. PICK x \in T : \A y \in T : <<y, x>> \notin Less
  <2> HIDE DEF Less
  <2> QED BY <1>1, WFMin
<1>3. \A y \in T : ~ (y < x)
  BY <1>2
<1> QED BY <1>2, <1>3

\* Induction, stated for a set and derived from the least element of what is
\* left out of it.
LEMMA SetInduction ==
  ASSUME NEW T, 0 \in T, \A n \in Nat : n \in T => n + 1 \in T
  PROVE  Nat \subseteq T
<1> DEFINE Rest == Nat \ T
<1> SUFFICES ASSUME Rest # {} PROVE FALSE
  OBVIOUS
<1>1. PICK x \in Rest : \A y \in Rest : x <= y
  <2>1. Rest \subseteq Nat
    OBVIOUS
  <2> HIDE DEF Rest
  <2> QED BY <2>1, LeastElement
<1>2. x - 1 \in Nat /\ (x - 1) + 1 = x /\ ~ (x <= x - 1)
  BY <1>1
<1>3. x - 1 \in T
  BY <1>1, <1>2
<1> QED BY <1>1, <1>2, <1>3

\* One step of the machine is a state.
LEMMA AdvanceType ==
  ASSUME NEW r \in Roms, NEW s \in States, NEW i \in Inputs
  PROVE  Advance(r, s, i) \in States
BY EmulatorAssumption DEF Advance

\* Each of the first n entries of after is one step, under w, from the last.
StepsAlong(r, after, w, n) ==
  \A k \in 1..n : after[k] = Advance(r, after[k - 1], w[k])

\* Two functions that start in one state and step with the same inputs agree.
LEMMA RunUnique ==
  ASSUME NEW r, NEW g, NEW h, NEW w, NEW n \in Nat, g[0] = h[0],
         StepsAlong(r, g, w, n), StepsAlong(r, h, w, n)
  PROVE  \A k \in 0..n : g[k] = h[k]
<1> DEFINE T == {k \in Nat : k <= n => g[k] = h[k]}
<1>1. 0 \in T
  OBVIOUS
<1>2. ASSUME NEW k \in Nat, k \in T PROVE k + 1 \in T
  <2> SUFFICES ASSUME k + 1 <= n PROVE g[k + 1] = h[k + 1]
    OBVIOUS
  <2>1. g[k] = h[k]
    BY <1>2
  <2>2. k + 1 \in 1..n /\ (k + 1) - 1 = k
    OBVIOUS
  <2>3. g[k + 1] = Advance(r, g[k], w[k + 1]) /\ h[k + 1] = Advance(r, h[k], w[k + 1])
    BY <2>2 DEF StepsAlong
  <2> QED BY <2>1, <2>3
<1>3. Nat \subseteq T
  <2> HIDE DEF T
  <2> QED BY <1>1, <1>2, SetInduction
<1> QED BY <1>3

\* A sequence of states that starts in s and steps along w is what playing w
\* from s gives.
LEMMA PlayedUnique ==
  ASSUME NEW r \in Roms, NEW s \in States, NEW w \in Seq(Inputs), NEW g, g[0] = s,
         StepsAlong(r, g, w, Len(w))
  PROVE  \A k \in 0..Len(w) : g[k] = Played(r, s, w)[k]
<1> DEFINE Body(f) == [k \in 0..Len(w) |->
                         IF k = 0 THEN s ELSE Advance(r, f[k - 1], w[k])]
           h == [k \in 0..Len(w) |-> g[k]]
<1> SUFFICES ASSUME NEW p, p = Played(r, s, w)
             PROVE  \A k \in 0..Len(w) : g[k] = p[k]
  OBVIOUS
<1>0. Len(w) \in Nat
  BY LenProperties
<1>1. h = Body(h)
  BY <1>0 DEF StepsAlong
<1>2. p = CHOOSE f : f = Body(f)
  BY DEF Played
<1>3. p = Body(p)
  <2> HIDE DEF Body, h
  <2> QED BY <1>1, <1>2
<1>4. p[0] = g[0] /\ StepsAlong(r, p, w, Len(w))
  BY <1>0, <1>3 DEF StepsAlong
<1> HIDE DEF Body
<1> QED BY <1>0, <1>4, RunUnique

-----------------------------------------------------------------------------
(* Functions defined by recursion along 0..n.                              *)

\* f starts with a, and f[k] is what F[k] makes of f[k - 1].
IsIteration(f, F, a, n) ==
  /\ f[0] = a
  /\ \A k \in 1..n : f[k] = F[k][f[k - 1]]

LEMMA IterationExists ==
  ASSUME NEW N \in Nat, NEW T, NEW a \in T, NEW F \in [1..N -> [T -> T]]
  PROVE  \E f \in [0..N -> T] : IsIteration(f, F, a, N)
<1> DEFINE P == {n \in Nat : n <= N => \E f \in [0..n -> T] : IsIteration(f, F, a, n)}
<1>1. 0 \in P
  <2>1. [k \in 0..0 |-> a] \in [0..0 -> T] /\ IsIteration([k \in 0..0 |-> a], F, a, 0)
    BY DEF IsIteration
  <2> QED BY <2>1
<1>2. ASSUME NEW n \in Nat, n \in P PROVE n + 1 \in P
  <2> SUFFICES ASSUME n + 1 <= N
               PROVE  \E f \in [0..(n + 1) -> T] : IsIteration(f, F, a, n + 1)
    OBVIOUS
  <2>1. PICK h \in [0..n -> T] : IsIteration(h, F, a, n)
    BY <1>2
  <2> DEFINE g == [k \in 0..(n + 1) |-> IF k <= n THEN h[k] ELSE F[n + 1][h[n]]]
  <2>2. F[n + 1] \in [T -> T] /\ h[n] \in T
    BY <2>1
  <2>3. g \in [0..(n + 1) -> T]
    BY <2>1, <2>2
  <2>4. g[0] = a
    BY <2>1 DEF IsIteration
  <2>5. ASSUME NEW k \in 1..(n + 1) PROVE g[k] = F[k][g[k - 1]]
    <3>1. CASE k <= n
      BY <3>1, <2>1 DEF IsIteration
    <3>2. CASE k = n + 1
      BY <3>2
    <3> QED BY <3>1, <3>2
  <2>6. IsIteration(g, F, a, n + 1)
    BY <2>4, <2>5 DEF IsIteration
  <2> HIDE DEF g
  <2> QED BY <2>3, <2>6
<1>3. Nat \subseteq P
  <2> HIDE DEF P
  <2> QED BY <1>1, <1>2, SetInduction
<1> QED BY <1>3

\* Such a function stays in T.
LEMMA IterationType ==
  ASSUME NEW N \in Nat, NEW T, NEW a \in T, NEW F \in [1..N -> [T -> T]],
         NEW p, IsIteration(p, F, a, N)
  PROVE  \A k \in 0..N : p[k] \in T
<1> DEFINE Q == {n \in Nat : n <= N => p[n] \in T}
<1>1. 0 \in Q
  BY DEF IsIteration
<1>2. ASSUME NEW n \in Nat, n \in Q PROVE n + 1 \in Q
  <2> SUFFICES ASSUME n + 1 <= N PROVE p[n + 1] \in T
    OBVIOUS
  <2>1. p[n] \in T /\ n + 1 \in 1..N /\ (n + 1) - 1 = n
    BY <1>2
  <2>2. p[n + 1] = F[n + 1][p[n]] /\ F[n + 1] \in [T -> T]
    BY <2>1 DEF IsIteration
  <2> QED BY <2>1, <2>2
<1>3. Nat \subseteq Q
  <2> HIDE DEF Q
  <2> QED BY <1>1, <1>2, SetInduction
<1> QED BY <1>3

-----------------------------------------------------------------------------
(* The helpers of work1 and getInputStatePath.                             *)

\* A set of inputs that is not empty has a first one.
LEMMA LeastType ==
  ASSUME NEW T, T \subseteq Inputs, T # {}
  PROVE  Least(T) \in T
<1>1. T \subseteq Nat
  BY AStarAssumption
<1>2. \E i \in T : \A j \in T : i <= j
  BY <1>1, LeastElement
<1> QED BY <1>2, Zenon DEF Least

LEMMA HashType ==
  ASSUME NEW s \in States, blackout \in Blackouts
  PROVE  Hash(s) \in Hashes
BY AStarAssumption DEF Hash

\* The first input that leads from s to hash h does lead there.
LEMMA LeastLeading ==
  ASSUME NEW s \in States, NEW h, rom \in Roms, Leading(s, h) # {}
  PROVE  /\ Least(Leading(s, h)) \in Inputs
         /\ Advance(rom, s, Least(Leading(s, h))) \in States
         /\ Hash(Advance(rom, s, Least(Leading(s, h)))) = h
<1>1. Least(Leading(s, h)) \in Leading(s, h)
  <2>1. Leading(s, h) \subseteq Inputs
    BY DEF Leading
  <2> QED BY <2>1, LeastType
<1> QED BY <1>1, AdvanceType DEF Leading, HashAfter

\* What one round of work1 finds.
LEMMA FoundProperties ==
  ASSUME TypeOK, OpenOrClosed, hasSearch, NEW h \in queue, Stopping(h) = {}
  PROVE  /\ h \in Known
         /\ Found(h) \subseteq Hashes
         /\ Found(h) \cap Known = {}
         /\ StillOpen(h) = {} => Found(h) # {}
         /\ \A n \in Found(h) : /\ Leading(nodesByHash[h].emuState, n) # {}
                               /\ StateFound(h, n) \in States
                               /\ Hash(StateFound(h, n)) = n
<1> DEFINE s == nodesByHash[h].emuState
<1>1. h \in Known /\ s \in States /\ rom \in Roms /\ blackout \in Blackouts
  BY DEF TypeOK, OpenOrClosed, Node
<1>2. \A i \in Inputs : HashAfter(s, i) \in Hashes
  BY <1>1, AdvanceType, HashType DEF HashAfter
<1>3. Found(h) \subseteq Hashes
  BY <1>2 DEF Found
<1>4. ASSUME NEW i \in Inputs, HashAfter(s, i) \notin StillOpen(h)
      PROVE  HashAfter(s, i) \notin Known
  <2>1. HashAfter(s, i) \notin NowClosed(h)
    BY <1>4 DEF Stopping
  <2> QED BY <1>4, <2>1 DEF StillOpen, NowClosed, OpenOrClosed
<1>5. Found(h) \cap Known = {}
  BY <1>4 DEF Found
<1>6. StillOpen(h) = {} => Found(h) # {}
  BY EmulatorAssumption DEF Found
<1>7. ASSUME NEW n \in Found(h)
      PROVE  /\ Leading(s, n) # {}
             /\ StateFound(h, n) \in States
             /\ Hash(StateFound(h, n)) = n
  <2>1. Leading(s, n) # {}
    BY <1>7 DEF Found, Leading
  <2>2. StateFound(h, n) = Advance(rom, s, Least(Leading(s, n)))
    BY DEF StateFound
  <2> QED BY <1>1, <2>1, <2>2, LeastLeading
<1> QED BY <1>1, <1>3, <1>5, <1>6, <1>7

\* The states met on the way down.
LEMMA ReplayProperties ==
  ASSUME rom \in Roms, startEmuState \in States, NEW path, Len(path) \in Nat
  PROVE  /\ Replay(path)[0] = startEmuState
         /\ \A k \in 1..Len(path) :
              Replay(path)[k] = StepTo(path[k])[Replay(path)[k - 1]]
         /\ \A k \in 0..Len(path) : Replay(path)[k] \in States \cup {NoState}
<1> DEFINE N == Len(path)
           T == States \cup {NoState}
           F == [k \in 1..N |-> StepTo(path[k])]
           Body(f) == [k \in 0..N |->
                         IF k = 0 THEN startEmuState ELSE StepTo(path[k])[f[k - 1]]]
<1> SUFFICES ASSUME NEW p, p = Replay(path)
             PROVE  /\ p[0] = startEmuState
                    /\ \A k \in 1..N : p[k] = StepTo(path[k])[p[k - 1]]
                    /\ \A k \in 0..N : p[k] \in T
  OBVIOUS
<1>1. \A h : StepTo(h) \in [T -> T]
  BY LeastLeading DEF StepTo
<1>2. F \in [1..N -> [T -> T]]
  BY <1>1
<1>3. PICK h \in [0..N -> T] : IsIteration(h, F, startEmuState, N)
  <2> HIDE DEF F
  <2> QED BY <1>2, IterationExists
<1>4. h = Body(h)
  BY <1>3 DEF IsIteration
<1>5. p = CHOOSE f : f = Body(f)
  BY DEF Replay
<1>6. p = Body(p)
  <2> HIDE DEF Body
  <2> QED BY <1>4, <1>5
<1>7. \A k \in 0..N : p[k] = IF k = 0 THEN startEmuState
                                ELSE StepTo(path[k])[p[k - 1]]
  BY <1>6, Zenon
<1>8. p[0] = startEmuState /\ \A k \in 1..N : p[k] = StepTo(path[k])[p[k - 1]]
  BY <1>7
<1>9. IsIteration(p, F, startEmuState, N)
  BY <1>8 DEF IsIteration
<1>10. \A k \in 0..N : p[k] \in T
  <2> HIDE DEF F
  <2> QED BY <1>2, <1>9, IterationType
<1> QED BY <1>8, <1>10

\* When a state was met at the end, every state on the way down was met by
\* the first input that leads to its hash.
LEMMA ReplayReached ==
  ASSUME rom \in Roms, startEmuState \in States, NEW path, Len(path) \in Nat,
         Replay(path)[Len(path)] # NoState
  PROVE  /\ \A k \in 0..Len(path) : Replay(path)[k] \in States
         /\ \A k \in 1..Len(path) :
              LET s == Replay(path)[k - 1]
              IN  /\ Leading(s, path[k]) # {}
                  /\ Replay(path)[k] = Advance(rom, s, Least(Leading(s, path[k])))
<1> DEFINE N == Len(path)
<1> SUFFICES ASSUME NEW p, p = Replay(path)
             PROVE  /\ \A k \in 0..N : p[k] \in States
                    /\ \A k \in 1..N :
                         /\ Leading(p[k - 1], path[k]) # {}
                         /\ p[k] = Advance(rom, p[k - 1], Least(Leading(p[k - 1], path[k])))
  OBVIOUS
<1>1. /\ \A k \in 1..N : p[k] = StepTo(path[k])[p[k - 1]]
      /\ \A k \in 0..N : p[k] \in States \cup {NoState}
  BY ReplayProperties
<1>2. ASSUME NEW k \in 1..N, p[k] # NoState
      PROVE  /\ p[k - 1] # NoState
             /\ Leading(p[k - 1], path[k]) # {}
             /\ p[k] = Advance(rom, p[k - 1], Least(Leading(p[k - 1], path[k])))
  <2>1. PICK x \in States \cup {NoState} : x = p[k - 1]
    BY <1>1
  <2>2. StepTo(path[k])[x] = IF x = NoState \/ Leading(x, path[k]) = {} THEN NoState
                             ELSE Advance(rom, x, Least(Leading(x, path[k])))
    BY DEF StepTo
  <2>3. p[k] = StepTo(path[k])[x]
    BY <1>1, <2>1
  <2>4. x # NoState /\ Leading(x, path[k]) # {}
    BY <1>2, <2>2, <2>3, Zenon
  <2> QED BY <2>1, <2>2, <2>3, <2>4, Zenon
<1> DEFINE Q == {n \in Nat : n <= N => p[N - n] # NoState}
<1>3. 0 \in Q
  OBVIOUS
<1>4. ASSUME NEW n \in Nat, n \in Q PROVE n + 1 \in Q
  <2> SUFFICES ASSUME n + 1 <= N PROVE p[N - (n + 1)] # NoState
    OBVIOUS
  <2>1. N - n \in 1..N /\ p[N - n] # NoState /\ (N - n) - 1 = N - (n + 1)
    BY <1>4
  <2> QED BY <1>2, <2>1
<1>5. Nat \subseteq Q
  <2> HIDE DEF Q
  <2> QED BY <1>3, <1>4, SetInduction
<1>6. ASSUME NEW k \in 0..N PROVE p[k] # NoState
  <2>1. N - k \in Q /\ N - k <= N /\ N - (N - k) = k
    BY <1>5
  <2> QED BY <2>1
<1> QED BY <1>1, <1>2, <1>6

\* The inputs pushed on the way down are inputs.
LEMMA InputsAlongType ==
  ASSUME rom \in Roms, startEmuState \in States, NEW path, Len(path) \in Nat,
         Replay(path)[Len(path)] # NoState
  PROVE  InputsAlong(path) \in Seq(Inputs) /\ Len(InputsAlong(path)) = Len(path)
<1> DEFINE N == Len(path)
           I(k) == Least(Leading(Replay(path)[k - 1], path[k]))
<1>1. \A k \in 1..N : I(k) \in Inputs
  BY ReplayReached, LeastLeading
<1>2. InputsAlong(path) = [k \in 1..N |-> I(k)]
  BY DEF InputsAlong
<1> HIDE DEF I
<1> QED BY <1>1, <1>2

-----------------------------------------------------------------------------
(* The invariant.                                                          *)

\* The invariants support each other: the types need the queue to tell that
\* a search is under way, the parents need the open and closed sets to tell
\* that what is found is new.
Inv ==
  /\ TypeOK
  /\ NeverRunsDry
  /\ OpenOrClosed
  /\ ParentsLeadToStart
  /\ NodesAreSteps
  /\ IsFiniteSet(Known)

LEMMA EmptyFunction ==
  DOMAIN Empty = {} /\ \A T : Empty \in [{} -> T]
BY DEF Empty

LEMMA InitInv == Init => Inv
<1> SUFFICES ASSUME Init PROVE Inv
  OBVIOUS
<1>1. Known = {} /\ IsFiniteSet({})
  BY FS_EmptySet, EmptyFunction DEF Init, Known
<1>2. <<>> \in Seq(Inputs) /\ 0 \in 0..Rounds
  BY AStarAssumption
<1>3. TypeOK
  BY <1>1, <1>2, AStarAssumption, EmptyFunction, Zenon DEF Init, TypeOK
<1> QED BY <1>1, <1>3 DEF Init, Inv, NeverRunsDry, OpenOrClosed, ParentsLeadToStart,
                          NodesAreSteps, Known, Empty

LEMMA RestartInv == Restart => Inv'
<1> SUFFICES ASSUME Restart PROVE Inv'
  OBVIOUS
<1>1. Known' = {} /\ IsFiniteSet({})
  BY FS_EmptySet, EmptyFunction DEF Restart, Known
<1>2. <<>> \in Seq(Inputs) /\ 0 \in 0..Rounds
  BY AStarAssumption
<1>3. TypeOK'
  BY <1>1, <1>2, AStarAssumption, EmptyFunction, Zenon DEF Restart, TypeOK
<1> QED BY <1>1, <1>3 DEF Restart, Inv, NeverRunsDry, OpenOrClosed, ParentsLeadToStart,
                          NodesAreSteps, Known, Empty

\* A step that leaves the search, the ROM and the blackout bytes alone.
LEMMA SameSearchInv ==
  ASSUME Inv, TypeOK', UNCHANGED <<rom, blackout, searchVars, mixed>>
  PROVE  Inv'
<1>1. Known' = Known
  BY DEF searchVars, Known
<1>2. NeverRunsDry' /\ OpenOrClosed' /\ IsFiniteSet(Known)'
  BY <1>1 DEF Inv, NeverRunsDry, OpenOrClosed, searchVars
<1>3. ParentsLeadToStart'
  BY <1>1 DEF Inv, ParentsLeadToStart, searchVars
<1>4. NodesAreSteps'
  BY <1>1 DEF Inv, NodesAreSteps, IsStep, searchVars, Hash, Leading, HashAfter
<1> QED BY <1>2, <1>3, <1>4 DEF Inv

\* Opening a ROM and changing the blackout bytes change what a hash means
\* and where a step leads, but not the nodes there are.
LEMMA EnvironmentInv ==
  ASSUME Inv, TypeOK', UNCHANGED searchVars,
         (rom' = rom /\ blackout' = blackout /\ mixed' = mixed) \/ mixed' \/ ~hasSearch
  PROVE  Inv'
<1>1. Known' = Known
  BY DEF searchVars, Known
<1>2. NeverRunsDry' /\ OpenOrClosed' /\ IsFiniteSet(Known)'
  BY <1>1 DEF Inv, NeverRunsDry, OpenOrClosed, searchVars
<1>3. ParentsLeadToStart'
  BY <1>1 DEF Inv, ParentsLeadToStart, searchVars
<1>4. NodesAreSteps'
  <2>1. CASE rom' = rom /\ blackout' = blackout /\ mixed' = mixed
    BY <1>1, <2>1 DEF Inv, NodesAreSteps, IsStep, searchVars, Hash, Leading, HashAfter
  <2>2. CASE mixed'
    BY <2>2 DEF NodesAreSteps
  <2>3. CASE ~hasSearch
    BY <1>1, <2>3 DEF Inv, TypeOK, NodesAreSteps
  <2> QED BY <2>1, <2>2, <2>3
<1> QED BY <1>2, <1>3, <1>4 DEF Inv

LEMMA InitAStarInv == Inv /\ InitAStar => Inv'
<1> SUFFICES ASSUME Inv, Idle, rom # NoRom, NEW s \in StartStates[rom],
                    startEmuState' = s,
                    nodesByHash' = [h \in {Hash(s)} |-> NewNode(s, 0)],
                    queue' = {Hash(s)}, openHashes' = {Hash(s)},
                    hasSearch' = TRUE, closedHashes' = {}, hashParents' = Empty,
                    mixed' = FALSE, UNCHANGED <<failed, envVars, workVars>>
             PROVE  Inv'
  BY DEF InitAStar
<1>1. rom \in Roms /\ s \in States /\ Hash(s) \in Hashes /\ blackout \in Blackouts
      /\ lua \in LuaSources
  BY AStarAssumption, HashType DEF Inv, TypeOK
<1>2. NewNode(s, 0) \in Node /\ NewNode(s, 0).g = 0 /\ NewNode(s, 0).emuState = s
  BY <1>1, AStarAssumption DEF NewNode, Node
<1>3. Known' = {Hash(s)} /\ nodesByHash'[Hash(s)] = NewNode(s, 0)
  BY DEF Known
<1>4. DOMAIN hashParents' = {}
  BY DEF Empty
<1>5. TypeOK'
  BY <1>1, <1>2, <1>3, <1>4 DEF Inv, TypeOK, Idle, envVars, workVars, Empty
<1>6. IsFiniteSet(Known)'
  BY <1>3, FS_Singleton
<1>7. ParentsLeadToStart'
  BY <1>2, <1>3, <1>4 DEF ParentsLeadToStart
<1>8. NodesAreSteps'
  BY <1>2, <1>3, <1>4 DEF NodesAreSteps, IsStep, Hash, envVars
<1> QED BY <1>3, <1>5, <1>6, <1>7, <1>8 DEF Inv, NeverRunsDry, OpenOrClosed

\* work1: what it finds is new, so the node it closes becomes the parent of
\* nodes that had none, and no node changes.
LEMMA Work1Inv == Inv /\ Work1 => Inv'
<1> SUFFICES
      ASSUME Inv, busy, rounds > 0,
             NEW h \in queue, Stopping(h) = {}, NEW new, new = Found(h),
             queue' = (queue \ {h}) \cup new,
             openHashes' = StillOpen(h) \cup new,
             nodesByHash' = [n \in Known \cup new |->
                               IF n \in Known THEN nodesByHash[n]
                               ELSE NewNode(StateFound(h, n), nodesByHash[h].g + 1)],
             hashParents' = [n \in DOMAIN hashParents \cup new |->
                               IF n \in new THEN h ELSE hashParents[n]],
             closedHashes' = NowClosed(h),
             rounds' = rounds - 1,
             UNCHANGED <<failed, envVars, hasSearch, startEmuState, busy, bestPath, mixed>>
      PROVE  Inv'
  BY DEF Work1
<1>1. TypeOK /\ OpenOrClosed /\ ParentsLeadToStart /\ NodesAreSteps /\ hasSearch
  BY DEF Inv, NeverRunsDry
<1>2. /\ h \in Known
      /\ new \subseteq Hashes
      /\ new \cap Known = {}
      /\ StillOpen(h) = {} => new # {}
      /\ \A n \in new : /\ Leading(nodesByHash[h].emuState, n) # {}
                       /\ StateFound(h, n) \in States
                       /\ Hash(StateFound(h, n)) = n
  BY <1>1, FoundProperties
<1>3. nodesByHash[h] \in Node /\ nodesByHash[h].g \in Nat
  BY <1>1, <1>2 DEF TypeOK, Node
<1>4. \A n \in new :
        LET new1 == NewNode(StateFound(h, n), nodesByHash[h].g + 1)
        IN  /\ new1 \in Node
            /\ new1.g = nodesByHash[h].g + 1
            /\ new1.emuState = StateFound(h, n)
  <2>1. lua \in LuaSources /\ nodesByHash[h].g + 1 \in Nat
    BY <1>1, <1>3 DEF TypeOK
  <2>2. \A n \in new : Heuristic[<<lua, StateFound(h, n)>>] \in Int
    BY <1>2, <2>1, AStarAssumption
  <2> QED BY <1>2, <2>1, <2>2 DEF NewNode, Node
<1>5. Known' = Known \cup new
  BY DEF Known
<1>6. /\ \A n \in Known : nodesByHash'[n] = nodesByHash[n]
      /\ \A n \in new : nodesByHash'[n] = NewNode(StateFound(h, n), nodesByHash[h].g + 1)
  BY <1>2
<1>7. /\ DOMAIN hashParents' = DOMAIN hashParents \cup new
      /\ \A n \in new : hashParents'[n] = h
      /\ \A n \in DOMAIN hashParents : n \in Known /\ hashParents'[n] = hashParents[n]
  BY <1>1, <1>2 DEF TypeOK
<1>8. TypeOK'
  <2>1. Known' \subseteq Hashes
    BY <1>1, <1>2, <1>5 DEF TypeOK
  <2>2. nodesByHash' \in [Known' -> Node]
    <3>1. \A n \in Known \cup new : nodesByHash'[n] \in Node
      BY <1>1, <1>4, <1>6 DEF TypeOK
    <3>2. nodesByHash' = [n \in Known \cup new |-> nodesByHash'[n]]
      OBVIOUS
    <3> QED BY <1>5, <3>1, <3>2
  <2>3. DOMAIN hashParents' \subseteq Known' /\ hashParents' \in [DOMAIN hashParents' -> Known']
    <3>1. \A n \in DOMAIN hashParents \cup new : hashParents'[n] \in Known'
      BY <1>1, <1>2, <1>5, <1>7 DEF TypeOK
    <3>2. hashParents' = [n \in DOMAIN hashParents \cup new |-> hashParents'[n]]
      OBVIOUS
    <3> QED BY <1>1, <1>5, <1>7, <3>1, <3>2 DEF TypeOK
  <2>4. rounds' \in 0..Rounds
    BY <1>1, AStarAssumption DEF TypeOK
  <2>5. /\ failed' = failed /\ rom' = rom /\ blackout' = blackout /\ lua' = lua
        /\ hasSearch' = hasSearch /\ startEmuState' = startEmuState /\ busy' = busy
        /\ bestPath' = bestPath /\ mixed' = mixed
    BY DEF envVars
  <2> QED BY <1>1, <2>1, <2>2, <2>3, <2>4, <2>5 DEF TypeOK
<1>9. NeverRunsDry'
  BY <1>1, <1>2 DEF NeverRunsDry, OpenOrClosed, StillOpen
<1>10. OpenOrClosed'
  BY <1>1, <1>2, <1>5 DEF OpenOrClosed, StillOpen, NowClosed
<1>11. ParentsLeadToStart'
  <2>1. DOMAIN hashParents' = {n \in Known' : nodesByHash'[n].g > 0}
    BY <1>1, <1>3, <1>4, <1>5, <1>6, <1>7 DEF ParentsLeadToStart
  <2>2. ASSUME NEW n \in DOMAIN hashParents'
        PROVE  /\ hashParents'[n] \in closedHashes'
               /\ nodesByHash'[n].g = nodesByHash'[hashParents'[n]].g + 1
    <3>1. CASE n \in new
      BY <3>1, <1>2, <1>4, <1>6, <1>7 DEF NowClosed
    <3>2. CASE n \in DOMAIN hashParents
      <4>1. hashParents[n] \in closedHashes /\ hashParents[n] \in Known /\ n \in Known
        BY <3>2, <1>1 DEF ParentsLeadToStart, TypeOK
      <4> QED BY <4>1, <3>2, <1>1, <1>6, <1>7 DEF ParentsLeadToStart, NowClosed
    <3> QED BY <2>2, <3>1, <3>2, <1>7
  <2>3. \A n \in Known' : nodesByHash'[n].g = 0 => n \in Known /\ nodesByHash[n].g = 0
    BY <1>3, <1>4, <1>5, <1>6
  <2>4. /\ \A n, o \in Known' : nodesByHash'[n].g = 0 /\ nodesByHash'[o].g = 0 => n = o
        /\ \A n \in Known' : nodesByHash'[n].g = 0 => nodesByHash'[n].emuState = startEmuState'
    BY <2>3, <1>1, <1>6 DEF ParentsLeadToStart
  <2> QED BY <2>1, <2>2, <2>4 DEF ParentsLeadToStart
<1>12. NodesAreSteps'
  <2>1. rom' = rom /\ blackout' = blackout /\ mixed' = mixed
    BY DEF envVars
  <2> SUFFICES ASSUME ~mixed, NEW n \in Known' PROVE IsStep(n)'
    BY <2>1 DEF NodesAreSteps
  <2>2. CASE n \in new
    BY <2>1, <2>2, <1>2, <1>4, <1>6, <1>7
       DEF StateFound, IsStep, Hash, Leading, HashAfter
  <2>3. CASE n \in Known
    <3>1. n \notin new
      BY <2>3, <1>2
    <3>2. n \in DOMAIN hashParents => hashParents[n] \in Known
      BY <1>1 DEF TypeOK
    <3>3. IsStep(n)
      BY <2>3, <1>1 DEF NodesAreSteps
    <3> QED BY <2>1, <2>3, <3>1, <3>2, <3>3, <1>6, <1>7
            DEF IsStep, Hash, Leading, HashAfter
  <2> QED BY <2>2, <2>3, <1>5
<1>13. IsFiniteSet(Known)'
  <2>1. IsFiniteSet(new)
    <3>1. IsFiniteSet({HashAfter(nodesByHash[h].emuState, i) : i \in Inputs})
      <4> DEFINE f == [i \in Inputs |-> HashAfter(nodesByHash[h].emuState, i)]
                 T == {HashAfter(nodesByHash[h].emuState, i) : i \in Inputs}
      <4>1. f \in Surjection(Inputs, T)
        BY DEF Surjection
      <4> QED BY <4>1, AStarAssumption, FS_Surjection
    <3> QED BY <3>1, FS_Subset DEF Found
  <2> QED BY <2>1, <1>5, FS_Union DEF Inv
<1> QED BY <1>8, <1>9, <1>10, <1>11, <1>12, <1>13 DEF Inv

-----------------------------------------------------------------------------
(* The path of getInputStatePath.                                          *)

\* The walk up from a node of cost g is at a node of cost g - k after k
\* steps, and there are enough nodes for it to arrive at cost 0.
LEMMA AncestorsProperties ==
  ASSUME Inv, NEW h \in Known
  PROVE  /\ DOMAIN Ancestors(h) = 0..Cardinality(Known)
         /\ Ancestors(h)[0] = h
         /\ nodesByHash[h].g \in 0..Cardinality(Known)
         /\ \A k \in 0..nodesByHash[h].g :
              /\ Ancestors(h)[k] \in Known
              /\ nodesByHash[Ancestors(h)[k]].g = nodesByHash[h].g - k
         /\ \A k \in 1..nodesByHash[h].g :
              /\ Ancestors(h)[k - 1] \in DOMAIN hashParents
              /\ Ancestors(h)[k] = hashParents[Ancestors(h)[k - 1]]
<1> DEFINE C == Cardinality(Known)
           g == nodesByHash[h].g
           T == Hashes \cup {NoHash}
           F == [k \in 1..C |-> Parent]
           Body(f) == [k \in 0..C |-> IF k = 0 THEN h ELSE Parent[f[k - 1]]]
<1> SUFFICES ASSUME NEW up, up = Ancestors(h)
             PROVE  /\ DOMAIN up = 0..C
                    /\ up[0] = h
                    /\ g \in 0..C
                    /\ \A k \in 0..g : up[k] \in Known /\ nodesByHash[up[k]].g = g - k
                    /\ \A k \in 1..g : /\ up[k - 1] \in DOMAIN hashParents
                                     /\ up[k] = hashParents[up[k - 1]]
  OBVIOUS
<1>1. TypeOK /\ ParentsLeadToStart /\ IsFiniteSet(Known)
  BY DEF Inv
<1>2. C \in Nat /\ g \in Nat /\ h \in T
  BY <1>1, FS_CardinalityType DEF TypeOK, Node
<1>3. Parent \in [T -> T]
  BY <1>1 DEF TypeOK, Parent
<1>4. F \in [1..C -> [T -> T]]
  BY <1>3
<1>5. PICK f \in [0..C -> T] : IsIteration(f, F, h, C)
  <2> HIDE DEF F
  <2> QED BY <1>2, <1>4, IterationExists
<1>6. f = Body(f)
  BY <1>2, <1>5 DEF IsIteration
<1>7. up = CHOOSE x : x = Body(x)
  BY DEF Ancestors
<1>8. up = Body(up)
  <2> HIDE DEF Body
  <2> QED BY <1>6, <1>7
<1>9. DOMAIN up = 0..C /\ \A k \in 0..C : up[k] = IF k = 0 THEN h ELSE Parent[up[k - 1]]
  BY <1>8, Zenon
<1>10. ASSUME NEW n \in Known, nodesByHash[n].g > 0
       PROVE  /\ n \in DOMAIN hashParents
              /\ Parent[n] = hashParents[n]
              /\ Parent[n] \in Known
              /\ nodesByHash[Parent[n]].g = nodesByHash[n].g - 1
  <2>1. n \in DOMAIN hashParents /\ n \in T
    BY <1>1, <1>10 DEF ParentsLeadToStart, TypeOK
  <2>2. Parent[n] = hashParents[n]
    BY <2>1 DEF Parent
  <2>3. hashParents[n] \in Known
    BY <1>1, <2>1 DEF TypeOK
  <2>4. nodesByHash[n].g = nodesByHash[hashParents[n]].g + 1
    BY <1>1, <2>1 DEF ParentsLeadToStart
  <2>5. nodesByHash[hashParents[n]].g \in Nat
    BY <1>1, <2>3 DEF TypeOK, Node
  <2> QED BY <2>1, <2>2, <2>3, <2>4, <2>5
<1> DEFINE Q == {k \in Nat : k <= g /\ k <= C =>
                              up[k] \in Known /\ nodesByHash[up[k]].g = g - k}
<1>11. 0 \in Q
  BY <1>2, <1>9
<1>12. ASSUME NEW k \in Nat, k \in Q PROVE k + 1 \in Q
  <2> SUFFICES ASSUME k + 1 <= g, k + 1 <= C
               PROVE  up[k + 1] \in Known /\ nodesByHash[up[k + 1]].g = g - (k + 1)
    OBVIOUS
  <2>1. up[k] \in Known /\ nodesByHash[up[k]].g = g - k /\ g - k > 0
    BY <1>2, <1>12
  <2>2. up[k + 1] = Parent[up[k]]
    BY <1>2, <1>9
  <2> QED BY <1>2, <1>10, <2>1, <2>2
<1>13. Nat \subseteq Q
  <2> HIDE DEF Q
  <2> QED BY <1>11, <1>12, SetInduction
<1>14. g <= C
  <2> SUFFICES ASSUME C < g PROVE FALSE
    BY <1>2
  <2> DEFINE u == [k \in 0..C |-> up[k]]
  <2>1. \A k \in 0..C : up[k] \in Known /\ nodesByHash[up[k]].g = g - k
    BY <1>2, <1>13
  <2>2. \A j, k \in 0..C : up[j] = up[k] => j = k
    BY <1>2, <2>1
  <2>3. u \in Injection(0..C, Known)
    BY <2>1, <2>2 DEF Injection, IsInjective
  <2>4. Cardinality(0..C) <= C
    BY <1>1, <2>3, FS_Injection
  <2>5. Cardinality(0..C) = C + 1
    <3> HIDE DEF C
    <3>1. 0 \in Int /\ C \in Int /\ ~ (0 > C) /\ C - 0 + 1 = C + 1
      BY <1>2
    <3>2. Cardinality(0..C) = IF 0 > C THEN 0 ELSE C - 0 + 1
      BY <3>1, FS_Interval, Zenon
    <3> QED BY <3>1, <3>2
  <2> QED BY <1>2, <2>4, <2>5
<1>15. \A k \in 0..g : up[k] \in Known /\ nodesByHash[up[k]].g = g - k
  BY <1>2, <1>13, <1>14
<1>16. ASSUME NEW k \in 1..g
       PROVE  up[k - 1] \in DOMAIN hashParents /\ up[k] = hashParents[up[k - 1]]
  <2>1. up[k - 1] \in Known /\ nodesByHash[up[k - 1]].g > 0
    BY <1>2, <1>15
  <2>2. up[k] = Parent[up[k - 1]]
    BY <1>2, <1>9, <1>14
  <2> QED BY <1>10, <2>1, <2>2
<1>17. up[0] = h
  BY <1>2, <1>9, SMTT(30)
<1>18. g \in 0..C
  BY <1>2, <1>14
<1> HIDE DEF C, g
<1> QED BY <1>9, <1>15, <1>16, <1>17, <1>18, Zenon

\* As long as ROM and blackout bytes are those of the start, there is one way
\* up from a node, it is as long as the node's cost, and walking it down again
\* passes the very states kept for the nodes on it.
LEMMA PathProperties ==
  ASSUME Inv, ~mixed, NEW h \in Known
  PROVE  \E path : /\ HashPaths(h) = {path}
                   /\ Len(path) = nodesByHash[h].g
                   /\ Replay(path)[Len(path)] = nodesByHash[h].emuState
<1> DEFINE g == nodesByHash[h].g
<1> PICK up : up = Ancestors(h)
  OBVIOUS
<1>1. TypeOK /\ ParentsLeadToStart /\ (\A n \in Known : IsStep(n))
  BY DEF Inv, NodesAreSteps
<1>2. hasSearch /\ rom \in Roms /\ startEmuState \in States /\ g \in Nat
  BY <1>1 DEF TypeOK, Node
<1>3. /\ g \in DOMAIN up
      /\ DOMAIN up \subseteq Nat
      /\ up[0] = h
      /\ \A k \in 0..g : up[k] \in Known /\ nodesByHash[up[k]].g = g - k
      /\ \A k \in 1..g : up[k - 1] \in DOMAIN hashParents /\ up[k] = hashParents[up[k - 1]]
  <2>1. 0..Cardinality(Known) \subseteq Nat
    BY FS_CardinalityType DEF Inv
  <2> QED BY <2>1, AncestorsProperties, Zenon
<1>4. up[g] \in Known /\ nodesByHash[up[g]].g = 0
  BY <1>2, <1>3
<1>5. nodesByHash[up[g]].emuState = startEmuState
  BY <1>1, <1>4 DEF ParentsLeadToStart
<1>6. Hash(startEmuState) = up[g]
  BY <1>1, <1>4, <1>5 DEF IsStep
<1>7. \A j \in 0..g : up[j] = up[g] => j = g
  BY <1>2, <1>3, <1>4
<1>8. Distances(h) = {g}
  <2>1. Distances(h) = {k \in DOMAIN up : /\ up[k] = up[g]
                                          /\ \A j \in 0..(k - 1) : up[j] # up[g]}
    BY <1>6 DEF Distances
  <2>2. \A j \in 0..(g - 1) : up[j] # up[g]
    BY <1>2, <1>7
  <2>3. ASSUME NEW k \in DOMAIN up, up[k] = up[g], \A j \in 0..(k - 1) : up[j] # up[g]
        PROVE  k = g
    BY <1>2, <1>3, <1>7, <2>3
  <2> QED BY <1>3, <2>1, <2>2, <2>3
<1> DEFINE path == [k \in 1..g |-> up[g - k]]
<1>9. HashPaths(h) = {path}
  BY <1>8 DEF HashPaths
<1>10. Len(path) = g
  BY <1>2
<1> PICK p : p = path
  OBVIOUS
<1> PICK at : at = Replay(p)
  OBVIOUS
<1>11. /\ at[0] = startEmuState
       /\ \A k \in 1..g : at[k] = StepTo(up[g - k])[at[k - 1]]
  BY <1>2, <1>10, ReplayProperties
<1> DEFINE Q == {k \in Nat : k <= g => at[k] = nodesByHash[up[g - k]].emuState}
<1>12. 0 \in Q
  BY <1>2, <1>5, <1>11
<1>13. ASSUME NEW k \in Nat, k \in Q PROVE k + 1 \in Q
  <2> SUFFICES ASSUME k + 1 <= g
               PROVE  at[k + 1] = nodesByHash[up[g - (k + 1)]].emuState
    OBVIOUS
  <2> PICK n : n = up[g - (k + 1)]
    OBVIOUS
  <2> PICK s : s = at[k]
    OBVIOUS
  <2>1. n \in Known /\ n \in DOMAIN hashParents /\ up[g - k] = hashParents[n]
    <3>1. g - k \in 1..g /\ (g - k) - 1 = g - (k + 1) /\ g - (k + 1) \in 0..g
      BY <1>2
    <3> QED BY <1>3, <3>1
  <2>2. s = nodesByHash[hashParents[n]].emuState
    BY <1>2, <1>13, <2>1
  <2>3. s \in States
    BY <1>1, <2>1, <2>2 DEF TypeOK, Node
  <2>4. s # NoState
    BY <2>3, EmulatorAssumption
  <2>5. /\ Leading(s, n) # {}
        /\ nodesByHash[n].emuState = Advance(rom, s, Least(Leading(s, n)))
    BY <1>1, <2>1, <2>2, Zenon DEF IsStep
  <2>6. at[k + 1] = StepTo(n)[s]
    BY <1>2, <1>11
  <2>7. StepTo(n)[s] = Advance(rom, s, Least(Leading(s, n)))
    BY <2>3, <2>4, <2>5 DEF StepTo
  <2> QED BY <2>5, <2>6, <2>7
<1>14. Nat \subseteq Q
  <2> HIDE DEF Q
  <2> QED BY <1>12, <1>13, SetInduction
<1>15. at[g] = nodesByHash[h].emuState
  <2>1. g \in Q
    <3> HIDE DEF Q, g
    <3> QED BY <1>2, <1>14
  <2>2. g <= g /\ g - g = 0
    BY <1>2
  <2>3. at[g] = nodesByHash[up[g - g]].emuState
    BY <2>1, <2>2, Zenon
  <2> QED BY <1>3, <2>2, <2>3, Zenon
<1>16. HashPaths(h) = {p} /\ Len(p) = g /\ Replay(p)[Len(p)] = nodesByHash[h].emuState
  BY <1>9, <1>10, <1>15
<1> QED BY <1>16, Zenon

\* A path of getInputStatePath has a length.
LEMMA HashPathLength ==
  ASSUME Inv, NEW h \in Known, NEW path \in HashPaths(h)
  PROVE  Len(path) \in Nat
<1> PICK d \in Distances(h) : path = [k \in 1..d |-> Ancestors(h)[d - k]]
  BY DEF HashPaths
<1>1. d \in Nat
  <2>1. Cardinality(Known) \in Nat
    BY FS_CardinalityType DEF Inv
  <2> QED BY <2>1, AncestorsProperties DEF Distances
<1> QED BY <1>1

-----------------------------------------------------------------------------
(* Every step keeps the invariant.                                         *)

LEMMA ReportInv == Inv /\ Report => Inv'
<1> SUFFICES ASSUME Inv, Report PROVE Inv'
  OBVIOUS
<1>1. TypeOK /\ OpenOrClosed /\ hasSearch
  BY DEF Inv, NeverRunsDry, Report
<1>2. PICK h \in queue : \E path \in HashPaths(h) :
                            /\ Replay(path)[Len(path)] # NoState
                            /\ bestPath' = InputsAlong(path)
  BY DEF Report
<1>3. PICK path \in HashPaths(h) : /\ Replay(path)[Len(path)] # NoState
                                  /\ bestPath' = InputsAlong(path)
  BY <1>2
<1>4. Len(path) \in Nat /\ rom \in Roms /\ startEmuState \in States
  BY <1>1, HashPathLength DEF TypeOK, OpenOrClosed
<1>5. bestPath' \in Seq(Inputs)
  BY <1>3, <1>4, InputsAlongType
<1>6. UNCHANGED <<failed, rom, blackout, lua, searchVars, rounds, mixed>> /\ busy' = FALSE
  BY DEF Report, envVars
<1>7. TypeOK'
  BY <1>1, <1>5, <1>6 DEF TypeOK, searchVars, Known
<1> QED BY <1>6, <1>7, SameSearchInv

LEMMA NextInv == Inv /\ [Next]_vars => Inv'
<1> SUFFICES ASSUME Inv, [Next]_vars PROVE Inv'
  OBVIOUS
<1>0. TypeOK
  BY DEF Inv
<1>1. ASSUME NEW r \in Roms, OpenRom(r) PROVE Inv'
  <2>1. TypeOK'
    BY <1>0, <1>1 DEF OpenRom, TypeOK, Known, searchVars, workVars
  <2>2. (rom' = rom /\ blackout' = blackout /\ mixed' = mixed) \/ mixed' \/ ~hasSearch
    BY <1>0, <1>1 DEF OpenRom, TypeOK
  <2> QED BY <1>1, <2>1, <2>2, EnvironmentInv DEF OpenRom
<1>2. ASSUME NEW b \in Blackouts, SetRamBlackoutBytes(b) PROVE Inv'
  <2>1. TypeOK'
    BY <1>0, <1>2 DEF SetRamBlackoutBytes, TypeOK, Known, searchVars, workVars
  <2>2. (rom' = rom /\ blackout' = blackout /\ mixed' = mixed) \/ mixed' \/ ~hasSearch
    BY <1>0, <1>2 DEF SetRamBlackoutBytes, TypeOK
  <2> QED BY <1>2, <2>1, <2>2, EnvironmentInv DEF SetRamBlackoutBytes
<1>3. ASSUME NEW l \in LuaSources, SetLuaSource(l) PROVE Inv'
  <2>1. TypeOK'
    BY <1>0, <1>3 DEF SetLuaSource, TypeOK, Known, searchVars, workVars
  <2> QED BY <1>3, <2>1, SameSearchInv DEF SetLuaSource
<1>4. CASE InitAStar
  BY <1>4, InitAStarInv
<1>5. CASE BeginWork
  <2>1. rounds' \in 0..Rounds
    BY <1>5, AStarAssumption DEF BeginWork
  <2>2. TypeOK'
    BY <1>0, <1>5, <2>1 DEF BeginWork, TypeOK, Known, envVars, searchVars
  <2> QED BY <1>5, <2>2, SameSearchInv DEF BeginWork, envVars
<1>6. CASE Work1
  BY <1>6, Work1Inv
<1>7. CASE Report
  BY <1>7, ReportInv
<1>8. CASE InitAStarAtGoal \/ BeginWorkWithoutSearch \/ Work1Checks \/ ReportChecks
  <2>1. /\ UNCHANGED <<envVars, searchVars, workVars, mixed>>
        /\ failed' \in {GoalReached, NoSearch, Refound, ParentNotFound, InputNotFound}
    BY <1>8 DEF InitAStarAtGoal, BeginWorkWithoutSearch, Work1Checks, ReportChecks,
                ReportChecksParent, ReportChecksInput
  <2>2. TypeOK'
    BY <1>0, <2>1 DEF TypeOK, Known, envVars, searchVars, workVars
  <2> QED BY <2>1, <2>2, SameSearchInv DEF envVars
<1>9. CASE Restart
  BY <1>9, RestartInv
<1>10. CASE UNCHANGED vars
  <2>1. TypeOK'
    BY <1>0, <1>10 DEF vars, TypeOK, Known, envVars, searchVars, workVars
  <2> QED BY <1>10, <2>1, SameSearchInv DEF vars, envVars
<1> QED BY <1>1, <1>2, <1>3, <1>4, <1>5, <1>6, <1>7, <1>8, <1>9, <1>10 DEF Next, Work

LEMMA SpecInv == Spec => []Inv
BY InitInv, NextInv, PTL DEF Spec

\* The types of the search, for every emulator and every hash of the RAM.
THEOREM SearchTypeCorrect == Spec => []TypeOK
<1>1. Inv => TypeOK
  BY DEF Inv
<1> QED BY <1>1, SpecInv, PTL

\* top() is never taken of an empty queue (work1 and getStatus).
THEOREM QueueNeverEmpty == Spec => []NeverRunsDry
<1>1. Inv => NeverRunsDry
  BY DEF Inv
<1> QED BY <1>1, SpecInv, PTL

\* A node is open or closed and never both (openHashes, closedHashes).
THEOREM NodesOpenOrClosed == Spec => []OpenOrClosed
<1>1. Inv => OpenOrClosed
  BY DEF Inv
<1> QED BY <1>1, SpecInv, PTL

\* hashParents leads from every node to the start, whatever was changed while
\* the search was under way.
THEOREM WalkUpEnds == Spec => []ParentsLeadToStart
<1>1. Inv => ParentsLeadToStart
  BY DEF Inv
<1> QED BY <1>1, SpecInv, PTL

\* A node is what its parent's state steps to, unless ROM or blackout bytes
\* were changed.
THEOREM NodesStep == Spec => []NodesAreSteps
<1>1. Inv => NodesAreSteps
  BY DEF Inv
<1> QED BY <1>1, SpecInv, PTL

LEMMA PathChecksStep == Inv /\ PathChecksHold /\ [Next]_vars => PathChecksHold'
<1> SUFFICES ASSUME Inv, PathChecksHold, [Next]_vars PROVE PathChecksHold'
  OBVIOUS
<1> USE DEF Fine, GoalReached, Refound, ParentNotFound, InputNotFound, NoSearch
<1>1. CASE UNCHANGED <<failed, mixed>>
  BY <1>1 DEF PathChecksHold
<1>2. CASE failed' = Fine \/ failed' = GoalReached \/ failed' = NoSearch \/ failed' = Refound
  BY <1>2 DEF PathChecksHold
<1>3. CASE ReportChecks
  <2> SUFFICES ASSUME ~mixed PROVE FALSE
    BY <1>3 DEF PathChecksHold, ReportChecks, ReportChecksParent, ReportChecksInput
  <2>1. queue \subseteq Known
    BY DEF Inv, OpenOrClosed
  <2>2. PICK h \in queue : \/ HashPaths(h) = {}
                          \/ \E path \in HashPaths(h) : Replay(path)[Len(path)] = NoState
    BY <1>3 DEF ReportChecks, ReportChecksParent, ReportChecksInput
  <2>3. PICK path : /\ HashPaths(h) = {path}
                    /\ Replay(path)[Len(path)] = nodesByHash[h].emuState
    BY <2>1, PathProperties
  <2>4. nodesByHash[h].emuState \in States
    BY <2>1 DEF Inv, TypeOK, Node
  <2> QED BY <2>2, <2>3, <2>4, EmulatorAssumption
<1>4. CASE UNCHANGED vars
  BY <1>1, <1>4 DEF vars
<1>5. CASE Next
  <2>1. ASSUME NEW r \in Roms, OpenRom(r) PROVE PathChecksHold'
    BY <1>2, <2>1 DEF OpenRom, Idle
  <2>2. ASSUME NEW b \in Blackouts, SetRamBlackoutBytes(b) PROVE PathChecksHold'
    BY <1>2, <2>2 DEF SetRamBlackoutBytes, Idle
  <2>3. ASSUME NEW l \in LuaSources, SetLuaSource(l) PROVE PathChecksHold'
    BY <1>2, <2>3 DEF SetLuaSource, Idle
  <2>4. CASE InitAStar \/ InitAStarAtGoal \/ BeginWork \/ BeginWorkWithoutSearch
    BY <1>2, <2>4 DEF InitAStar, InitAStarAtGoal, BeginWork, BeginWorkWithoutSearch, Idle
  <2>5. CASE Work1 \/ Report
    BY <1>2, <2>5 DEF Work1, Report
  <2>6. CASE Work1Checks
    BY <1>2, <2>6 DEF Work1Checks
  <2>7. CASE Restart
    BY <1>2, <2>7 DEF Restart
  <2> QED BY <1>5, <1>3, <2>1, <2>2, <2>3, <2>4, <2>5, <2>6, <2>7 DEF Next, Work
<1> QED BY <1>4, <1>5

\* The CHECKs of getInputStatePath hold unless ROM or blackout bytes were
\* changed during the search.
THEOREM PathChecks == Spec => []PathChecksHold
<1>1. Init => PathChecksHold
  BY DEF Init, PathChecksHold, Fine, ParentNotFound, InputNotFound
<1> QED BY <1>1, SpecInv, PathChecksStep, PTL DEF Spec

\* The path in a status plays from the start to a best open node: to its very
\* state (getInputStatePath).
THEOREM BestPathReached == Spec => PathReachesBest
<1> DEFINE Reaches ==
      \E h \in queue :
         /\ Best(h)
         /\ Len(bestPath') = nodesByHash[h].g
         /\ Played(rom, startEmuState, bestPath')[Len(bestPath')]
              = nodesByHash[h].emuState
<1>1. Inv /\ Report /\ ~mixed => Reaches
  <2> SUFFICES ASSUME Inv, Report, ~mixed PROVE Reaches
    OBVIOUS
  <2>1. PICK h \in queue : /\ Best(h)
                          /\ \E path \in HashPaths(h) :
                               /\ Replay(path)[Len(path)] # NoState
                               /\ bestPath' = InputsAlong(path)
    BY DEF Report
  <2>2. PICK path \in HashPaths(h) : /\ Replay(path)[Len(path)] # NoState
                                    /\ bestPath' = InputsAlong(path)
    BY <2>1
  <2>3. h \in Known /\ hasSearch
    BY DEF Inv, OpenOrClosed, NeverRunsDry
  <2>4. rom \in Roms /\ startEmuState \in States
    BY <2>3 DEF Inv, TypeOK
  <2>5. /\ Len(path) = nodesByHash[h].g
        /\ Replay(path)[Len(path)] = nodesByHash[h].emuState
    BY <2>2, <2>3, PathProperties
  <2>6. Len(path) \in Nat
    BY <2>3, HashPathLength
  <2> PICK w, at : w = InputsAlong(path) /\ at = Replay(path)
    OBVIOUS
  <2>7. w \in Seq(Inputs) /\ Len(w) = Len(path)
    BY <2>2, <2>4, <2>6, InputsAlongType
  <2>8. at[0] = startEmuState
    BY <2>4, <2>6, ReplayProperties
  <2>9. StepsAlong(rom, at, w, Len(w))
    <3> SUFFICES ASSUME NEW k \in 1..Len(path) PROVE at[k] = Advance(rom, at[k - 1], w[k])
      BY <2>7 DEF StepsAlong
    <3>1. at[k] = Advance(rom, at[k - 1], Least(Leading(at[k - 1], path[k])))
      BY <2>2, <2>4, <2>6, ReplayReached
    <3>2. w[k] = Least(Leading(at[k - 1], path[k]))
      BY DEF InputsAlong
    <3> QED BY <3>1, <3>2
  <2>10. at[Len(w)] = Played(rom, startEmuState, w)[Len(w)]
    <3>1. Len(w) \in 0..Len(w)
      BY <2>6, <2>7
    <3> QED BY <2>4, <2>7, <2>8, <2>9, <3>1, PlayedUnique
  <2>11. Len(w) = nodesByHash[h].g /\ Played(rom, startEmuState, w)[Len(w)] = nodesByHash[h].emuState
    BY <2>5, <2>7, <2>10
  <2> QED BY <2>1, <2>2, <2>11
<1>2. Inv /\ [Next]_vars => [Report /\ ~mixed => Reaches]_vars
  BY <1>1
<1> QED BY <1>2, SpecInv, PTL DEF Spec, PathReachesBest

-----------------------------------------------------------------------------
(* The page that asks for the search (SearchPage). *)

Movies == [Frames -> Inputs]
Commands ==
  [cmd : {"setFrameInputs"}, movie : Movies]
    \cup [cmd : {"initAStar"}, frame : 0..MaxFrame, search : Nat]
    \cup [cmd : {"workAStar"}]
Statuses == [search : Nat, played : Seq(Inputs), path : Paths]

PageTypes ==
  /\ FrameInputBytes \in Movies /\ FrameInputBytesChanged \in BOOLEAN
  /\ CurFrame \in 0..MaxFrame /\ AStarInitialized \in 0..MaxFrame \cup {Null}
  /\ toServer \in Seq(Commands) /\ toPage \in Seq(Statuses)
  /\ gInputTimeline \in Movies /\ gAStar \in [search : Nat, played : Seq(Inputs)]
  /\ search \in Nat /\ strayed \in BOOLEAN

\* Two movies are the same up to frame n.
Agree(a, b, n) == \A f \in 0..n : a[f] = b[f]

\* What the server has once it has handled the first n of the commands under way
\* is the page's movie, up to a frame.
Gets(cmds, timeline, movie, n, frame) ==
  /\ \A j \in 1..n : cmds[j].cmd = "setFrameInputs"
                  /\ (\A l \in (j + 1)..n : cmds[l].cmd # "setFrameInputs")
       => Agree(cmds[j].movie, movie, frame)
  /\ (\A j \in 1..n : cmds[j].cmd # "setFrameInputs") => Agree(timeline, movie, frame)

\* The inputs of a machine that has played the movie up to a frame, that one
\* included.
IsStart(played, movie, frame) ==
  /\ Len(played) = frame + 1
  /\ \A k \in 1..(frame + 1) : played[k] = movie[k - 1]

\* Searches are numbered as they are begun; before the first the server has
\* nothing to say of one.
Numbered ==
  /\ gAStar.search <= search
  /\ \A i \in 1..Len(toServer) : toServer[i].cmd = "initAStar" => toServer[i].search <= search
  /\ \A i \in 1..Len(toPage) : toPage[i].search <= search
  /\ search = 0 => /\ AStarInitialized = Null /\ toPage = <<>>
                   /\ \A i \in 1..Len(toServer) : toServer[i].cmd # "workAStar"

\* A page without edits has sent its movie.
Sent ==
  ~ FrameInputBytesChanged =>
    Gets(toServer, gInputTimeline, FrameInputBytes, Len(toServer), LastFrame)

\* Until it strays the search of the page, asked for, begun or answered, is of
\* the movie that the page has.
OfThisMovie ==
  ~ strayed /\ search > 0 =>
    /\ AStarInitialized \in 0..MaxFrame
    /\ \A i \in 1..Len(toServer) :
         toServer[i].cmd = "initAStar" /\ toServer[i].search = search =>
           /\ toServer[i].frame = AStarInitialized
           /\ Gets(toServer, gInputTimeline, FrameInputBytes, i - 1, AStarInitialized)
    /\ gAStar.search = search => IsStart(gAStar.played, FrameInputBytes, AStarInitialized)
    /\ \A i \in 1..Len(toPage) : toPage[i].search = search =>
           IsStart(toPage[i].played, FrameInputBytes, AStarInitialized)

PageInv == PageTypes /\ Numbered /\ Sent /\ OfThisMovie

\* What is taken from a queue, and what is added to it.
LEMMA Taken ==
  ASSUME NEW S, NEW q \in Seq(S), q # <<>>
  PROVE  /\ Len(q) \in Nat /\ Len(q) >= 1 /\ Head(q) = q[1] /\ Head(q) \in S
         /\ Tail(q) \in Seq(S) /\ Len(Tail(q)) = Len(q) - 1
         /\ \A i \in 1..(Len(q) - 1) : Tail(q)[i] = q[i + 1]
BY HeadTailProperties, EmptySeq, LenProperties

LEMMA Added ==
  ASSUME NEW S, NEW q \in Seq(S), NEW m \in S
  PROVE  /\ Len(q) \in Nat /\ Append(q, m) \in Seq(S) /\ Len(Append(q, m)) = Len(q) + 1
         /\ \A i \in 1..Len(q) : Append(q, m)[i] = q[i]
         /\ Append(q, m)[Len(q) + 1] = m
BY AppendProperties, LenProperties

\* Taking the first command, and the movie in it if it has one, changes
\* nothing about what the server gets.
LEMMA GetsTaken ==
  ASSUME NEW q \in Seq(Commands), q # <<>>, NEW old, NEW new, NEW movie, NEW n \in 1..Len(q), NEW frame,
         q[1].cmd = "setFrameInputs" => new = q[1].movie,
         q[1].cmd # "setFrameInputs" => new = old,
         Gets(q, old, movie, n, frame)
  PROVE  Gets(Tail(q), new, movie, n - 1, frame)
<1> DEFINE t == Tail(q)
           IsSet(c) == c.cmd = "setFrameInputs"
<1>1. /\ Len(q) \in Nat /\ n \in Nat
      /\ \A i \in 1..(Len(q) - 1) : t[i] = q[i + 1]
  BY Taken
<1>2. \A i \in 1..(n - 1) : t[i] = q[i + 1] /\ i + 1 \in 1..n
  BY <1>1
<1> HIDE DEF t
<1>3. /\ \A j \in 1..n : IsSet(q[j]) /\ (\A l \in (j + 1)..n : ~ IsSet(q[l]))
           => Agree(q[j].movie, movie, frame)
      /\ (\A j \in 1..n : ~ IsSet(q[j])) => Agree(old, movie, frame)
  BY DEF Gets
<1> HIDE DEF IsSet
<1>4. ASSUME NEW j \in 1..(n - 1), IsSet(t[j]), \A l \in (j + 1)..(n - 1) : ~ IsSet(t[l])
      PROVE  Agree(t[j].movie, movie, frame)
  <2>1. j + 1 \in 1..n /\ t[j] = q[j + 1]
    BY <1>2
  <2>2. ASSUME NEW l \in (j + 1 + 1)..n PROVE ~ IsSet(q[l])
    <3>1. l - 1 \in (j + 1)..(n - 1) /\ l - 1 \in 1..(n - 1) /\ (l - 1) + 1 = l
      BY <1>1
    <3> QED BY <1>2, <1>4, <3>1
  <2> QED BY <1>3, <1>4, <2>1, <2>2
<1>5. ASSUME \A j \in 1..(n - 1) : ~ IsSet(t[j]) PROVE Agree(new, movie, frame)
  <2>1. ASSUME NEW l \in (1 + 1)..n PROVE ~ IsSet(q[l])
    <3>1. l - 1 \in 1..(n - 1) /\ (l - 1) + 1 = l
      BY <1>1
    <3> QED BY <1>2, <1>5, <3>1
  <2>2. CASE IsSet(q[1])
    <3>1. new = q[1].movie /\ 1 \in 1..n
      BY <1>1, <2>2 DEF IsSet
    <3> QED BY <1>3, <2>1, <2>2, <3>1
  <2>3. CASE ~ IsSet(q[1])
    <3>1. new = old
      BY <2>3 DEF IsSet
    <3>2. \A l \in 1..n : l = 1 \/ l \in (1 + 1)..n
      BY <1>1
    <3>3. \A l \in 1..n : ~ IsSet(q[l])
      BY <2>1, <2>3, <3>2
    <3> QED BY <1>3, <3>1, <3>3
  <2> QED BY <2>2, <2>3
<1> QED BY <1>4, <1>5 DEF Gets, IsSet, t

\* A command at the end changes nothing about those before it.
LEMMA GetsAdded ==
  ASSUME NEW q \in Seq(Commands), NEW m \in Commands, NEW timeline, NEW movie,
         NEW n \in 0..Len(q), NEW frame, Gets(q, timeline, movie, n, frame)
  PROVE  Gets(Append(q, m), timeline, movie, n, frame)
<1> DEFINE t == Append(q, m)
<1>1. Len(q) \in Nat /\ n \in Nat /\ \A i \in 1..Len(q) : t[i] = q[i]
  BY Added
<1> HIDE DEF t
<1>2. \A i \in 1..n : t[i] = q[i]
  BY <1>1
<1>3. \A j \in 1..n : \A l \in (j + 1)..n : l \in 1..n
  BY <1>1
<1>4. Gets(t, timeline, movie, n, frame)
  BY <1>2, <1>3 DEF Gets
<1> QED BY <1>4 DEF t

\* With a command that is no movie at the end, the server gets what it got.
LEMMA GetsAddedOther ==
  ASSUME NEW q \in Seq(Commands), NEW m \in Commands, m.cmd # "setFrameInputs",
         NEW timeline, NEW movie, NEW frame, Gets(q, timeline, movie, Len(q), frame)
  PROVE  Gets(Append(q, m), timeline, movie, Len(q) + 1, frame)
<1> DEFINE t == Append(q, m)
           n == Len(q)
<1>1. n \in Nat /\ (\A i \in 1..n : t[i] = q[i]) /\ t[n + 1] = m
  BY Added
<1>2. Gets(t, timeline, movie, n, frame)
  BY <1>1, GetsAdded
<1> HIDE DEF t, n
<1>3. \A j \in 1..(n + 1) : t[j].cmd = "setFrameInputs" => j \in 1..n
  BY <1>1
<1>4. \A j \in 1..n : j \in 1..(n + 1) /\ \A l \in (j + 1)..n : l \in (j + 1)..(n + 1)
  BY <1>1
<1>5. Gets(t, timeline, movie, n + 1, frame)
  BY <1>2, <1>3, <1>4 DEF Gets
<1> QED BY <1>5 DEF t, n

\* With the page's movie at the end, the server gets the page's movie.
LEMMA GetsAddedMovie ==
  ASSUME NEW q \in Seq(Commands), NEW m \in Commands, m.cmd = "setFrameInputs",
         NEW timeline, NEW frame
  PROVE  Gets(Append(q, m), timeline, m.movie, Len(q) + 1, frame)
<1> DEFINE t == Append(q, m)
           n == Len(q)
<1>1. n \in Nat /\ t[n + 1] = m
  BY Added
<1> HIDE DEF t, n
<1>2. n + 1 \in 1..(n + 1)
  BY <1>1
<1>3. \A j \in 1..(n + 1) : j = n + 1 \/ n + 1 \in (j + 1)..(n + 1)
  BY <1>1
<1>4. Gets(t, timeline, m.movie, n + 1, frame)
  BY <1>1, <1>2, <1>3 DEF Gets, Agree
<1> QED BY <1>4 DEF t, n

\* Less is asked for, or of a movie that is the same so far.
LEMMA GetsLess ==
  ASSUME NEW q, NEW timeline, NEW old, NEW new, NEW n, NEW more \in Nat, NEW frame \in Nat,
         frame <= more, Gets(q, timeline, old, n, more), Agree(old, new, frame)
  PROVE  Gets(q, timeline, new, n, frame)
<1>1. \A a : Agree(a, old, more) => Agree(a, new, frame)
  <2>1. \A f \in 0..frame : f \in 0..more
    OBVIOUS
  <2> QED BY <2>1 DEF Agree
<1> QED BY <1>1 DEF Gets

LEMMA PageInitial == PageInit => PageInv
<1> SUFFICES ASSUME PageInit PROVE PageInv
  OBVIOUS
<1> USE SearchPageAssumption, EmulatorAssumption
<1>1. /\ FrameInputBytes \in Movies /\ gInputTimeline = FrameInputBytes
      /\ FrameInputBytesChanged = FALSE /\ CurFrame = 0 /\ AStarInitialized = Null
      /\ toServer = <<>> /\ toPage = <<>> /\ gAStar = [search |-> 0, played |-> <<>>]
      /\ search = 0 /\ strayed = FALSE
  BY DEF PageInit, Movies
<1>2. PageTypes
  <2>1. toServer \in Seq(Commands) /\ toPage \in Seq(Statuses)
    BY <1>1
  <2>2. gAStar \in [search : Nat, played : Seq(Inputs)]
    BY <1>1
  <2>3. FrameInputBytesChanged \in BOOLEAN /\ strayed \in BOOLEAN
    BY <1>1
  <2> QED BY <1>1, <2>1, <2>2, <2>3 DEF PageTypes
<1>3. Numbered
  BY <1>1 DEF Numbered
<1>4. Sent
  BY <1>1 DEF Sent, Gets, Agree
<1>5. OfThisMovie
  BY <1>1 DEF OfThisMovie
<1> QED BY <1>2, <1>3, <1>4, <1>5 DEF PageInv

\* While the search has not strayed, it has a frame.
LEMMA Begun ==
  ASSUME PageInv, ~ strayed, search > 0
  PROVE  /\ AStarInitialized \in 0..MaxFrame /\ AStarInitialized \in 0..LastFrame
         /\ AStarInitialized \in Nat /\ PathBase = AStarInitialized
<1>1. AStarInitialized \in 0..MaxFrame
  BY DEF PageInv, OfThisMovie
<1>2. AStarInitialized \in Nat /\ AStarInitialized \in 0..LastFrame
  BY <1>1, SearchPageAssumption
<1> QED BY <1>1, <1>2, SearchPageAssumption DEF PathBase

\* Writing into the page's movie, behind the frame of the search unless it
\* strays, and taking statuses.
LEMMA Written ==
  ASSUME PageInv, NEW movie \in Movies, Write(movie),
         toPage' \in Seq(Statuses),
         \A i \in 1..Len(toPage') : \E j \in 1..Len(toPage) : toPage'[i] = toPage[j],
         toPage = <<>> => toPage' = <<>>,
         UNCHANGED <<CurFrame, AStarInitialized, toServer, serverVars, search>>
  PROVE  PageInv'
<1>1. /\ FrameInputBytes' = movie
      /\ ~ FrameInputBytesChanged' => ~ FrameInputBytesChanged /\ movie = FrameInputBytes
      /\ ~ strayed' => ~ strayed /\ \A f \in 0..PathBase : movie[f] = FrameInputBytes[f]
      /\ FrameInputBytesChanged' \in BOOLEAN /\ strayed' \in BOOLEAN
  BY DEF Write
<1>2. /\ UNCHANGED <<CurFrame, AStarInitialized, toServer, gInputTimeline, gAStar, search>>
  BY DEF serverVars
<1>3. PageTypes'
  BY <1>1, <1>2 DEF PageInv, PageTypes
<1>4. Numbered'
  <2>1. \A i \in 1..Len(toPage') : toPage'[i].search <= search
    BY DEF PageInv, Numbered
  <2> QED BY <1>2, <2>1 DEF PageInv, Numbered
<1>5. Sent'
  BY <1>1, <1>2 DEF PageInv, Sent
<1>6. OfThisMovie'
  <2> SUFFICES ASSUME ~ strayed', search > 0
               PROVE  /\ AStarInitialized \in 0..MaxFrame
                      /\ \A i \in 1..Len(toServer) :
                           toServer[i].cmd = "initAStar" /\ toServer[i].search = search =>
                             /\ toServer[i].frame = AStarInitialized
                             /\ Gets(toServer, gInputTimeline, movie, i - 1, AStarInitialized)
                      /\ gAStar.search = search => IsStart(gAStar.played, movie, AStarInitialized)
                      /\ \A i \in 1..Len(toPage') : toPage'[i].search = search =>
                           IsStart(toPage'[i].played, movie, AStarInitialized)
    BY <1>1, <1>2 DEF OfThisMovie
  <2>1. ~ strayed /\ Agree(FrameInputBytes, movie, AStarInitialized)
    BY <1>1, Begun DEF Agree
  <2>2. AStarInitialized \in 0..MaxFrame /\ AStarInitialized \in Nat
    BY <2>1, Begun
  <2>3. ASSUME NEW i \in 1..Len(toServer), toServer[i].cmd = "initAStar", toServer[i].search = search
        PROVE  /\ toServer[i].frame = AStarInitialized
               /\ Gets(toServer, gInputTimeline, movie, i - 1, AStarInitialized)
    <3>1. /\ toServer[i].frame = AStarInitialized
          /\ Gets(toServer, gInputTimeline, FrameInputBytes, i - 1, AStarInitialized)
      BY <2>1, <2>3 DEF PageInv, OfThisMovie
    <3>2. Gets(toServer, gInputTimeline, movie, i - 1, AStarInitialized)
      BY <2>1, <2>2, <3>1, GetsLess
    <3> QED BY <3>1, <3>2
  <2>4. ASSUME NEW played, IsStart(played, FrameInputBytes, AStarInitialized)
        PROVE  IsStart(played, movie, AStarInitialized)
    <3>1. \A k \in 1..(AStarInitialized + 1) : k - 1 \in 0..AStarInitialized
      BY <2>2
    <3> QED BY <2>1, <2>4, <3>1 DEF IsStart, Agree
  <2>5. /\ gAStar.search = search => IsStart(gAStar.played, FrameInputBytes, AStarInitialized)
        /\ \A i \in 1..Len(toPage) : toPage[i].search = search =>
             IsStart(toPage[i].played, FrameInputBytes, AStarInitialized)
    BY <2>1 DEF PageInv, OfThisMovie
  <2>6. \A i \in 1..Len(toPage') : toPage'[i].search = search =>
          IsStart(toPage'[i].played, movie, AStarInitialized)
    BY <2>4, <2>5
  <2> QED BY <2>2, <2>3, <2>4, <2>5, <2>6
<1> QED BY <1>3, <1>4, <1>5, <1>6 DEF PageInv

LEMMA SetFrameInputInv ==
  ASSUME PageInv, NEW frame \in 0..MaxFrame, NEW input \in Inputs, SetFrameInput(frame, input)
  PROVE  PageInv'
<1> DEFINE movie == [FrameInputBytes EXCEPT ![frame] = input]
<1>1. movie \in Movies
  BY DEF PageInv, PageTypes, Movies
<1>2. Write(movie) /\ UNCHANGED <<CurFrame, AStarInitialized, connVars, serverVars, search>>
  BY DEF SetFrameInput
<1> HIDE DEF movie
<1>3. toPage' = toPage /\ toPage' \in Seq(Statuses)
      /\ UNCHANGED <<CurFrame, AStarInitialized, toServer, serverVars, search>>
  BY <1>2 DEF connVars, PageInv, PageTypes
<1> QED BY <1>1, <1>2, <1>3, Written

LEMMA FrameChangedInv ==
  ASSUME PageInv, NEW frame \in 0..MaxFrame, FrameChanged(frame)
  PROVE  PageInv'
<1>1. /\ CurFrame' = frame
      /\ UNCHANGED <<FrameInputBytes, FrameInputBytesChanged, AStarInitialized, toServer, toPage,
                    gInputTimeline, gAStar, search, strayed>>
  BY DEF FrameChanged, connVars, serverVars, historyVars
<1>2. PageTypes'
  BY <1>1 DEF PageInv, PageTypes
<1>3. Numbered' /\ Sent' /\ OfThisMovie'
  BY <1>1 DEF PageInv, Numbered, Sent, OfThisMovie
<1> QED BY <1>2, <1>3 DEF PageInv

\* What a new command at the end of the queue does to the invariant.
LEMMA NumberedAdded ==
  ASSUME PageInv, NEW m \in Commands, toServer' = Append(toServer, m),
         search' \in Nat, search <= search',
         m.cmd = "initAStar" => m.search <= search',
         search' = 0 => AStarInitialized' = Null /\ m.cmd # "workAStar",
         UNCHANGED <<toPage, gAStar>>
  PROVE  Numbered'
<1>1. /\ Len(toServer) \in Nat /\ Len(toServer') = Len(toServer) + 1
      /\ \A i \in 1..Len(toServer) : toServer'[i] = toServer[i]
      /\ toServer'[Len(toServer) + 1] = m
  BY Added DEF PageInv, PageTypes
<1>2. \A i \in 1..Len(toServer') : i \in 1..Len(toServer) \/ i = Len(toServer) + 1
  BY <1>1
<1>3. search \in Nat /\ gAStar.search \in Nat /\ gAStar.search <= search
      /\ \A i \in 1..Len(toPage) : toPage[i].search \in Nat /\ toPage[i].search <= search
  <2>1. \A i \in 1..Len(toPage) : toPage[i] \in Statuses
    BY ElementOfSeq DEF PageInv, PageTypes
  <2> QED BY <2>1 DEF PageInv, PageTypes, Numbered, Statuses
<1>4. ASSUME NEW i \in 1..Len(toServer), toServer[i].cmd = "initAStar"
      PROVE  toServer[i].search <= search'
  <2>1. toServer[i] \in Commands
    BY ElementOfSeq DEF PageInv, PageTypes
  <2>2. toServer[i].search \in Nat /\ toServer[i].search <= search
    BY <1>4, <2>1 DEF PageInv, Numbered, Commands
  <2> QED BY <1>3, <2>2
<1>5. ASSUME NEW i \in 1..Len(toServer'), toServer'[i].cmd = "initAStar"
      PROVE  toServer'[i].search <= search'
  BY <1>1, <1>2, <1>4, <1>5
<1>6. ASSUME search' = 0
      PROVE  /\ AStarInitialized' = Null /\ toPage' = <<>>
             /\ \A i \in 1..Len(toServer') : toServer'[i].cmd # "workAStar"
  <2>1. search = 0
    BY <1>3, <1>6
  <2> QED BY <1>1, <1>2, <1>6, <2>1 DEF PageInv, Numbered
<1>7. gAStar'.search <= search' /\ \A i \in 1..Len(toPage') : toPage'[i].search <= search'
  BY <1>3
<1> QED BY <1>5, <1>6, <1>7 DEF Numbered

LEMMA OfThisMovieAdded ==
  ASSUME PageInv, NEW m \in Commands, toServer' = Append(toServer, m), m.cmd # "initAStar",
         UNCHANGED <<FrameInputBytes, AStarInitialized, toPage, gInputTimeline, gAStar,
                     search, strayed>>
  PROVE  OfThisMovie'
<1>1. /\ toServer \in Seq(Commands) /\ Len(toServer) \in Nat
      /\ Len(toServer') = Len(toServer) + 1
      /\ \A i \in 1..Len(toServer) : toServer'[i] = toServer[i]
      /\ toServer'[Len(toServer) + 1] = m
  BY Added DEF PageInv, PageTypes
<1>2. SUFFICES ASSUME ~ strayed, search > 0, NEW i \in 1..Len(toServer'),
                      toServer'[i].cmd = "initAStar", toServer'[i].search = search
               PROVE  /\ toServer'[i].frame = AStarInitialized
                      /\ Gets(toServer', gInputTimeline, FrameInputBytes, i - 1, AStarInitialized)
  BY DEF PageInv, OfThisMovie
<1>3. i \in 1..Len(toServer) /\ toServer'[i] = toServer[i] /\ i - 1 \in 0..Len(toServer)
  BY <1>1, <1>2
<1>4. /\ toServer[i].frame = AStarInitialized
      /\ Gets(toServer, gInputTimeline, FrameInputBytes, i - 1, AStarInitialized)
  BY <1>2, <1>3 DEF PageInv, OfThisMovie
<1> QED BY <1>1, <1>3, <1>4, GetsAdded

LEMMA SendFrameCommandsInv ==
  ASSUME PageInv, SendFrameCommands
  PROVE  PageInv'
<1>1. /\ FrameInputBytesChanged' = FALSE
      /\ UNCHANGED <<FrameInputBytes, CurFrame, AStarInitialized, toPage, gInputTimeline, gAStar,
                    search, strayed>>
  BY DEF SendFrameCommands, serverVars, historyVars
<1>2. CASE FrameInputBytesChanged
  <2> DEFINE m == [cmd |-> "setFrameInputs", movie |-> FrameInputBytes]
  <2>1. toServer' = Append(toServer, m)
    BY <1>2 DEF SendFrameCommands, Send
  <2>2. m \in Commands /\ m.cmd = "setFrameInputs" /\ m.movie = FrameInputBytes
    BY DEF PageInv, PageTypes, Commands
  <2> HIDE DEF m
  <2>3. toServer \in Seq(Commands) /\ toServer' \in Seq(Commands)
        /\ Len(toServer') = Len(toServer) + 1
    BY <2>1, <2>2, Added DEF PageInv, PageTypes
  <2>4. PageTypes'
    BY <1>1, <2>3 DEF PageInv, PageTypes
  <2>5. Numbered'
    <3>1. search \in Nat /\ (search = 0 => AStarInitialized = Null)
      BY DEF PageInv, PageTypes, Numbered
    <3> QED BY <1>1, <2>1, <2>2, <3>1, NumberedAdded
  <2>6. Sent'
    BY <1>1, <2>1, <2>2, <2>3, GetsAddedMovie DEF Sent
  <2>7. OfThisMovie'
    BY <1>1, <2>1, <2>2, OfThisMovieAdded
  <2> QED BY <2>4, <2>5, <2>6, <2>7 DEF PageInv
<1>3. CASE ~ FrameInputBytesChanged
  <2>1. toServer' = toServer
    BY <1>3 DEF SendFrameCommands
  <2>2. PageTypes'
    BY <1>1, <2>1 DEF PageInv, PageTypes
  <2>3. Numbered' /\ OfThisMovie'
    BY <1>1, <2>1 DEF PageInv, Numbered, OfThisMovie
  <2>4. Sent'
    BY <1>1, <1>3, <2>1 DEF PageInv, Sent
  <2> QED BY <2>2, <2>3, <2>4 DEF PageInv
<1> QED BY <1>2, <1>3

\* A search is begun with what the server gets, or worked on.
LEMMA StartAStarInv ==
  ASSUME PageInv, StartAStar
  PROVE  PageInv'
<1>1. UNCHANGED <<FrameInputBytes, FrameInputBytesChanged, CurFrame, toPage, gInputTimeline, gAStar>>
  BY DEF StartAStar, serverVars
<1>2. /\ toServer \in Seq(Commands) /\ Len(toServer) \in Nat /\ search \in Nat
      /\ CurFrame \in 0..MaxFrame /\ FrameInputBytesChanged \in BOOLEAN
  BY LenProperties DEF PageInv, PageTypes
<1>3. ASSUME NotInitialized,
             AStarInitialized' = CurFrame, search' = search + 1, strayed' = FrameInputBytesChanged,
             Send([cmd |-> "initAStar", frame |-> CurFrame, search |-> search + 1])
      PROVE  PageInv'
  <2> DEFINE m == [cmd |-> "initAStar", frame |-> CurFrame, search |-> search + 1]
  <2>1. toServer' = Append(toServer, m)
    BY <1>3 DEF Send
  <2>2. /\ m \in Commands /\ m.cmd = "initAStar" /\ m.frame = CurFrame /\ m.search = search + 1
    BY <1>2 DEF Commands
  <2> HIDE DEF m
  <2>3. /\ toServer' \in Seq(Commands) /\ Len(toServer') = Len(toServer) + 1
        /\ \A i \in 1..Len(toServer) : toServer'[i] = toServer[i]
        /\ toServer'[Len(toServer) + 1] = m
    BY <1>2, <2>1, <2>2, Added
  <2>4. PageTypes'
    BY <1>1, <1>2, <1>3, <2>3 DEF PageInv, PageTypes
  <2>5. Numbered'
    <3>1. search' \in Nat /\ search <= search' /\ search' # 0 /\ m.search <= search'
      BY <1>2, <1>3, <2>2
    <3> QED BY <1>1, <2>1, <2>2, <3>1, NumberedAdded
  <2>6. Sent'
    <3>1. m.cmd # "setFrameInputs"
      BY <2>2
    <3> QED BY <1>1, <1>2, <2>1, <2>2, <2>3, <3>1, GetsAddedOther DEF PageInv, Sent
  <2>7. OfThisMovie'
    <3>1. \A i \in 1..Len(toServer) : toServer[i].cmd = "initAStar" => toServer[i].search # search + 1
      <4>1. \A i \in 1..Len(toServer) : toServer[i] \in Commands
        BY <1>2, ElementOfSeq
      <4> QED BY <1>2, <4>1 DEF PageInv, Numbered, Commands
    <3>2. /\ gAStar.search # search + 1
          /\ \A i \in 1..Len(toPage) : toPage[i].search # search + 1
      <4>1. \A i \in 1..Len(toPage) : toPage[i] \in Statuses
        BY ElementOfSeq DEF PageInv, PageTypes
      <4>2. \A i \in 1..Len(toPage) : toPage[i].search \in Nat /\ toPage[i].search <= search
        BY <4>1 DEF PageInv, Numbered, Statuses
      <4>3. gAStar.search \in Nat /\ gAStar.search <= search /\ search \in Nat
        BY DEF PageInv, PageTypes, Numbered
      <4> QED BY <4>2, <4>3
    <3>3. ASSUME ~ FrameInputBytesChanged, NEW i \in 1..Len(toServer'),
                 toServer'[i].cmd = "initAStar", toServer'[i].search = search + 1
          PROVE  /\ toServer'[i].frame = CurFrame
                 /\ Gets(toServer', gInputTimeline, FrameInputBytes, i - 1, CurFrame)
      <4>1. i = Len(toServer) + 1
        <5>1. i \in 1..Len(toServer) \/ i = Len(toServer) + 1
          BY <1>2, <2>3
        <5> QED BY <2>3, <3>1, <3>3, <5>1
      <4>2. Gets(toServer, gInputTimeline, FrameInputBytes, Len(toServer), LastFrame)
        BY <3>3 DEF PageInv, Sent
      <4>3. CurFrame \in Nat /\ LastFrame \in Nat /\ CurFrame <= LastFrame
        BY <1>2, SearchPageAssumption
      <4>4. Gets(toServer, gInputTimeline, FrameInputBytes, Len(toServer), CurFrame)
        <5>1. Agree(FrameInputBytes, FrameInputBytes, CurFrame)
          BY DEF Agree
        <5> QED BY <4>2, <4>3, <5>1, GetsLess
      <4>5. Gets(toServer', gInputTimeline, FrameInputBytes, Len(toServer), CurFrame)
        <5>1. Len(toServer) \in 0..Len(toServer)
          BY <1>2
        <5> QED BY <1>2, <2>1, <2>2, <4>4, <5>1, GetsAdded
      <4>6. i - 1 = Len(toServer)
        BY <1>2, <4>1
      <4> QED BY <2>2, <2>3, <4>1, <4>5, <4>6
    <3> QED BY <1>1, <1>2, <1>3, <3>2, <3>3 DEF OfThisMovie
  <2> QED BY <2>4, <2>5, <2>6, <2>7 DEF PageInv
<1>4. ASSUME ~ NotInitialized, Send([cmd |-> "workAStar"]),
             UNCHANGED <<AStarInitialized, historyVars>>
      PROVE  PageInv'
  <2> DEFINE m == [cmd |-> "workAStar"]
  <2>1. /\ toServer' = Append(toServer, m) /\ UNCHANGED <<AStarInitialized, search, strayed>>
    BY <1>4 DEF Send, historyVars
  <2>2. m \in Commands /\ m.cmd = "workAStar"
    BY DEF Commands
  <2> HIDE DEF m
  <2>3. m.cmd # "initAStar" /\ m.cmd # "setFrameInputs"
    BY <2>2
  <2>4. toServer' \in Seq(Commands) /\ Len(toServer') = Len(toServer) + 1
    BY <1>2, <2>1, <2>2, Added
  <2>5. PageTypes'
    BY <1>1, <2>1, <2>4 DEF PageInv, PageTypes
  <2>6. Numbered'
    <3>1. search # 0
      BY <1>4 DEF NotInitialized, PageInv, Numbered
    <3> QED BY <1>1, <1>2, <2>1, <2>2, <2>3, <3>1, NumberedAdded
  <2>7. Sent'
    BY <1>1, <1>2, <2>1, <2>2, <2>3, <2>4, GetsAddedOther DEF PageInv, Sent
  <2>8. OfThisMovie'
    BY <1>1, <2>1, <2>2, <2>3, OfThisMovieAdded
  <2> QED BY <2>5, <2>6, <2>7, <2>8 DEF PageInv
<1> QED BY <1>3, <1>4 DEF StartAStar

LEMMA CancelAStarInv ==
  ASSUME PageInv, CancelAStar
  PROVE  PageInv'
<1>1. /\ AStarInitialized' = Null /\ strayed' = TRUE
      /\ UNCHANGED <<FrameInputBytes, FrameInputBytesChanged, CurFrame, toServer, toPage,
                     gInputTimeline, gAStar, search>>
  BY DEF CancelAStar, connVars, serverVars
<1>2. PageTypes'
  BY <1>1 DEF PageInv, PageTypes
<1>3. Numbered' /\ Sent'
  BY <1>1 DEF PageInv, Numbered, Sent
<1>4. OfThisMovie'
  BY <1>1 DEF OfThisMovie
<1> QED BY <1>2, <1>3, <1>4 DEF PageInv

LEMMA TakeStatusInv ==
  ASSUME PageInv, TakeStatus
  PROVE  PageInv'
<1>1. /\ toPage \in Seq(Statuses) /\ toPage # <<>> /\ toPage' = Tail(toPage)
      /\ UNCHANGED <<CurFrame, AStarInitialized, toServer, serverVars, search>>
  BY DEF TakeStatus, PageInv, PageTypes
<1>2. /\ toPage' \in Seq(Statuses) /\ Len(toPage) \in Nat /\ Len(toPage') = Len(toPage) - 1
      /\ Head(toPage) \in Statuses
      /\ \A i \in 1..(Len(toPage) - 1) : toPage'[i] = toPage[i + 1]
  BY <1>1, Taken
<1>3. \A i \in 1..Len(toPage') : \E j \in 1..Len(toPage) : toPage'[i] = toPage[j]
  <2>1. \A i \in 1..Len(toPage') : i + 1 \in 1..Len(toPage) /\ toPage'[i] = toPage[i + 1]
    BY <1>2
  <2> QED BY <2>1
<1>4. CASE Head(toPage).path # <<>>
  <2> DEFINE path == Head(toPage).path
             movie == WithPath(path)
  <2>1. path \in Seq(Inputs) /\ Len(path) \in Nat
    BY <1>2, SearchPageAssumption, LenProperties DEF Statuses
  <2>2. PathBase \in Nat
    BY SearchPageAssumption DEF PathBase, PageInv, PageTypes
  <2> HIDE DEF path
  <2>3. movie \in Movies
    <3>1. ASSUME NEW f \in Frames, f > PathBase, f <= PathBase + Len(path)
          PROVE  path[f - PathBase] \in Inputs
      <4>1. f - PathBase \in 1..Len(path)
        BY <2>1, <2>2, <3>1, SearchPageAssumption DEF Frames
      <4> QED BY <2>1, <4>1, ElementOfSeq
    <3>2. \A f \in Frames : FrameInputBytes[f] \in Inputs
      BY DEF PageInv, PageTypes, Movies
    <3> QED BY <3>1, <3>2 DEF WithPath, Movies
  <2>4. Write(movie)
    BY <1>4 DEF TakeStatus, path
  <2> HIDE DEF movie
  <2> QED BY <1>1, <1>2, <1>3, <2>3, <2>4, Written
<1>5. CASE Head(toPage).path = <<>>
  <2>1. UNCHANGED <<FrameInputBytes, FrameInputBytesChanged, strayed, CurFrame, AStarInitialized,
                    toServer, gInputTimeline, gAStar, search>>
    BY <1>1, <1>5 DEF TakeStatus, serverVars
  <2>2. PageTypes'
    BY <1>2, <2>1 DEF PageInv, PageTypes
  <2>3. Numbered'
    BY <1>1, <1>3, <2>1 DEF PageInv, Numbered
  <2>4. Sent'
    BY <2>1 DEF PageInv, Sent
  <2>5. OfThisMovie'
    BY <1>3, <2>1 DEF PageInv, OfThisMovie
  <2> QED BY <2>2, <2>3, <2>4, <2>5 DEF PageInv
<1> QED BY <1>4, <1>5

\* What taking a command from the queue does, whatever the handler does next.
LEMMA CommandTaken ==
  ASSUME PageInv, toServer # <<>>, toServer' = Tail(toServer),
         toServer[1].cmd = "setFrameInputs" => gInputTimeline' = toServer[1].movie,
         toServer[1].cmd # "setFrameInputs" => gInputTimeline' = gInputTimeline,
         UNCHANGED <<FrameInputBytes, FrameInputBytesChanged, AStarInitialized, search, strayed>>
  PROVE  /\ toServer[1] \in Commands /\ Head(toServer) = toServer[1] /\ 1 \in 1..Len(toServer)
         /\ toServer' \in Seq(Commands) /\ Sent'
         /\ \A i \in 1..Len(toServer') : i + 1 \in 1..Len(toServer) /\ toServer'[i] = toServer[i + 1]
         /\ ~ strayed /\ search > 0 => \A i \in 1..Len(toServer') :
              toServer'[i].cmd = "initAStar" /\ toServer'[i].search = search =>
                /\ toServer'[i].frame = AStarInitialized
                /\ Gets(toServer', gInputTimeline', FrameInputBytes, i - 1, AStarInitialized)
<1>1. toServer \in Seq(Commands)
  BY DEF PageInv, PageTypes
<1>2. /\ Len(toServer) \in Nat /\ 1 \in 1..Len(toServer) /\ toServer[1] \in Commands
      /\ Head(toServer) = toServer[1]
      /\ toServer' \in Seq(Commands) /\ Len(toServer') = Len(toServer) - 1
      /\ \A i \in 1..(Len(toServer) - 1) : toServer'[i] = toServer[i + 1]
  BY <1>1, Taken
<1>3. \A i \in 1..Len(toServer') : i + 1 \in 1..Len(toServer) /\ toServer'[i] = toServer[i + 1]
                                /\ (i + 1) - 1 = i /\ i \in 1..Len(toServer)
  BY <1>2
<1>4. ASSUME NEW n \in 1..Len(toServer), NEW frame,
             Gets(toServer, gInputTimeline, FrameInputBytes, n, frame)
      PROVE  Gets(toServer', gInputTimeline', FrameInputBytes, n - 1, frame)
  BY <1>1, <1>4, GetsTaken
<1>5. Sent'
  <2>1. Len(toServer) \in 1..Len(toServer)
    BY <1>2
  <2>2. ~ FrameInputBytesChanged =>
          Gets(toServer', gInputTimeline', FrameInputBytes, Len(toServer'), LastFrame)
    BY <1>2, <1>4, <2>1 DEF PageInv, Sent
  <2> QED BY <2>2 DEF Sent
<1>6. ASSUME ~ strayed, search > 0, NEW i \in 1..Len(toServer'),
             toServer'[i].cmd = "initAStar", toServer'[i].search = search
      PROVE  /\ toServer'[i].frame = AStarInitialized
             /\ Gets(toServer', gInputTimeline', FrameInputBytes, i - 1, AStarInitialized)
  <2>1. /\ toServer[i + 1].frame = AStarInitialized
        /\ Gets(toServer, gInputTimeline, FrameInputBytes, (i + 1) - 1, AStarInitialized)
    BY <1>3, <1>6 DEF PageInv, OfThisMovie
  <2>2. Gets(toServer, gInputTimeline, FrameInputBytes, i, AStarInitialized)
    BY <1>3, <2>1
  <2> QED BY <1>3, <1>4, <2>1, <2>2
<1> QED BY <1>2, <1>3, <1>5, <1>6

LEMMA HandleInv ==
  ASSUME PageInv, Handle
  PROVE  PageInv'
<1> DEFINE m == toServer[1]
<1>1. /\ toServer \in Seq(Commands) /\ toServer # <<>> /\ toServer' = Tail(toServer)
      /\ UNCHANGED <<FrameInputBytes, FrameInputBytesChanged, CurFrame, AStarInitialized,
                     search, strayed>>
  BY DEF Handle, pageVars, historyVars, PageInv, PageTypes
<1>2. m \in Commands /\ Head(toServer) = m
  BY <1>1, Taken
<1> DEFINE Left ==
      /\ toServer[1] \in Commands /\ 1 \in 1..Len(toServer)
      /\ toServer' \in Seq(Commands) /\ Sent'
      /\ \A i \in 1..Len(toServer') : i + 1 \in 1..Len(toServer) /\ toServer'[i] = toServer[i + 1]
      /\ ~ strayed /\ search > 0 => \A i \in 1..Len(toServer') :
           toServer'[i].cmd = "initAStar" /\ toServer'[i].search = search =>
             /\ toServer'[i].frame = AStarInitialized
             /\ Gets(toServer', gInputTimeline', FrameInputBytes, i - 1, AStarInitialized)
<1>3. ASSUME m.cmd = "setFrameInputs", gInputTimeline' = m.movie, UNCHANGED <<toPage, gAStar>>
      PROVE  PageInv'
  <2>1. Left
    BY <1>1, <1>3, CommandTaken
  <2>2. PageTypes'
    <3>1. m.movie \in Movies
      BY <1>2, <1>3 DEF Commands
    <3> QED BY <1>1, <1>3, <2>1, <3>1 DEF PageInv, PageTypes
  <2>3. Numbered'
    BY <1>1, <1>3, <2>1 DEF PageInv, Numbered
  <2>4. OfThisMovie'
    BY <1>1, <1>3, <2>1 DEF PageInv, OfThisMovie
  <2> QED BY <2>1, <2>2, <2>3, <2>4 DEF PageInv
<1>4. ASSUME m.cmd = "initAStar",
             gAStar' = [search |-> m.search,
                        played |-> [k \in 1..(m.frame + 1) |-> gInputTimeline[k - 1]]],
             UNCHANGED <<toPage, gInputTimeline>>
      PROVE  PageInv'
  <2> DEFINE played == [k \in 1..(m.frame + 1) |-> gInputTimeline[k - 1]]
  <2>1. Left
    BY <1>1, <1>4, CommandTaken
  <2>2. m.search \in Nat /\ m.frame \in 0..MaxFrame /\ m.frame \in Nat /\ m.frame <= LastFrame
    BY <1>2, <1>4, SearchPageAssumption DEF Commands
  <2>3. played \in Seq(Inputs) /\ Len(played) = m.frame + 1
        /\ \A k \in 1..(m.frame + 1) : played[k] = gInputTimeline[k - 1]
    <3>1. \A k \in 1..(m.frame + 1) : gInputTimeline[k - 1] \in Inputs
      <4>1. \A k \in 1..(m.frame + 1) : k - 1 \in Frames
        BY <2>2, SearchPageAssumption DEF Frames
      <4> QED BY <4>1 DEF PageInv, PageTypes, Movies
    <3>2. played \in [1..(m.frame + 1) -> Inputs]
      BY <3>1
    <3>3. \A k \in 1..(m.frame + 1) : played[k] = gInputTimeline[k - 1]
      OBVIOUS
    <3>4. m.frame + 1 \in Nat
      BY <2>2
    <3> HIDE DEF m, played
    <3>5. played \in Seq(Inputs) /\ Len(played) = m.frame + 1
      BY <3>2, <3>4
    <3> QED BY <3>3, <3>5
  <2>4. gAStar'.search = m.search /\ gAStar'.played = played
    BY <1>4
  <2>5. PageTypes'
    <3>1. gAStar' \in [search : Nat, played : Seq(Inputs)]
      BY <1>4, <2>2, <2>3
    <3> HIDE DEF played
    <3> QED BY <1>1, <1>4, <2>1, <3>1 DEF PageInv, PageTypes
  <2> HIDE DEF played
  <2>6. Numbered'
    <3>1. m.search <= search
      BY <1>4, <2>1 DEF PageInv, Numbered
    <3> QED BY <1>1, <1>4, <2>1, <2>4, <3>1 DEF PageInv, Numbered
  <2>7. ASSUME ~ strayed, search > 0, m.search = search
        PROVE  IsStart(played, FrameInputBytes, AStarInitialized)
    <3>1. /\ m.frame = AStarInitialized
          /\ Gets(toServer, gInputTimeline, FrameInputBytes, 1 - 1, AStarInitialized)
      BY <1>4, <2>1, <2>7 DEF PageInv, OfThisMovie
    <3>2. Agree(gInputTimeline, FrameInputBytes, AStarInitialized)
      <4>1. \A j \in 1..(1 - 1) : FALSE
        OBVIOUS
      <4> QED BY <3>1, <4>1 DEF Gets
    <3>3. \A k \in 1..(m.frame + 1) : k - 1 \in 0..m.frame
      BY <2>2
    <3> HIDE DEF m
    <3> QED BY <2>3, <3>1, <3>2, <3>3 DEF IsStart, Agree
  <2>8. OfThisMovie'
    BY <1>1, <1>4, <2>1, <2>4, <2>7 DEF PageInv, OfThisMovie
  <2> QED BY <2>1, <2>5, <2>6, <2>8 DEF PageInv
<1>5. ASSUME m.cmd = "workAStar", NEW path \in Paths,
             toPage' = Append(toPage, [search |-> gAStar.search, played |-> gAStar.played,
                                       path |-> path]),
             UNCHANGED <<gInputTimeline, gAStar>>
      PROVE  PageInv'
  <2> DEFINE status == [search |-> gAStar.search, played |-> gAStar.played, path |-> path]
  <2>1. Left
    BY <1>1, <1>5, CommandTaken
  <2>2. status \in Statuses
    BY DEF PageInv, PageTypes, Statuses
  <2>3. status.search = gAStar.search /\ status.played = gAStar.played /\ toPage' = Append(toPage, status)
    BY <1>5
  <2> HIDE DEF status, m
  <2>4. /\ toPage \in Seq(Statuses) /\ Len(toPage) \in Nat
        /\ toPage' \in Seq(Statuses) /\ Len(toPage') = Len(toPage) + 1
        /\ \A i \in 1..Len(toPage) : toPage'[i] = toPage[i]
        /\ toPage'[Len(toPage) + 1] = status
    BY <2>2, <2>3, Added DEF PageInv, PageTypes
  <2>5. \A i \in 1..Len(toPage') : i \in 1..Len(toPage) \/ i = Len(toPage) + 1
    BY <2>4
  <2>6. PageTypes'
    BY <1>1, <1>5, <2>1, <2>4 DEF PageInv, PageTypes
  <2>7. Numbered'
    <3>1. search # 0
      BY <1>5, <2>1 DEF PageInv, Numbered, m
    <3>2. \A i \in 1..Len(toPage') : toPage'[i].search <= search
      BY <2>3, <2>4, <2>5 DEF PageInv, Numbered
    <3> QED BY <1>1, <1>5, <2>1, <3>1, <3>2 DEF PageInv, Numbered
  <2>8. OfThisMovie'
    <3>1. ~ strayed /\ search > 0 => \A i \in 1..Len(toPage') : toPage'[i].search = search =>
            IsStart(toPage'[i].played, FrameInputBytes, AStarInitialized)
      BY <2>3, <2>4, <2>5 DEF PageInv, OfThisMovie
    <3> QED BY <1>1, <1>5, <2>1, <3>1 DEF PageInv, OfThisMovie
  <2> QED BY <2>1, <2>6, <2>7, <2>8 DEF PageInv
<1> QED BY <1>2, <1>3, <1>4, <1>5 DEF Handle, serverVars

LEMMA PageSteps == PageInv /\ [PageNext]_systemVars => PageInv'
<1> SUFFICES ASSUME PageInv, [PageNext]_systemVars PROVE PageInv'
  OBVIOUS
<1>1. CASE UNCHANGED systemVars
  BY <1>1 DEF systemVars, pageVars, connVars, serverVars, historyVars, PageInv, PageTypes, Numbered,
              Sent, OfThisMovie
<1> QED BY <1>1, SetFrameInputInv, FrameChangedInv, SendFrameCommandsInv, StartAStarInv,
           CancelAStarInv, TakeStatusInv, HandleInv DEF PageNext

LEMMA PageAlways == PageSpec => []PageInv
BY PageInitial, PageSteps, PTL DEF PageSpec

\* The path of a status of the page's own search continues, in the page, the
\* movie that the search began with (conn.onmessage of an aStarStatus,
\* startAStar, cmd_initAStar), unless the search strayed.
THEOREM PathsContinueTheMovie == PageSpec => PathContinuesMovie
<1> DEFINE Continues ==
      TakeStatus /\ Head(toPage).search = search /\ ~ strayed =>
        LET found == Head(toPage).played \o Head(toPage).path
        IN \A k \in DOMAIN found : FrameInputBytes'[k - 1] = found[k]
<1>1. PageInv => Continues
  <2> SUFFICES ASSUME PageInv, TakeStatus, Head(toPage).search = search, ~ strayed
               PROVE  LET found == Head(toPage).played \o Head(toPage).path
                      IN \A k \in DOMAIN found : FrameInputBytes'[k - 1] = found[k]
    OBVIOUS
  <2> DEFINE status == Head(toPage)
             played == status.played
             path == status.path
             found == played \o path
             frame == AStarInitialized
  <2>1. /\ toPage \in Seq(Statuses) /\ toPage # <<>> /\ search \in Nat
        /\ status \in Statuses /\ status = toPage[1] /\ 1 \in 1..Len(toPage)
    <3>1. toPage \in Seq(Statuses) /\ toPage # <<>> /\ search \in Nat
      BY DEF TakeStatus, PageInv, PageTypes
    <3>2. Len(toPage) \in Nat /\ Len(toPage) >= 1 /\ status = toPage[1] /\ status \in Statuses
      BY <3>1, Taken
    <3> QED BY <3>1, <3>2
  <2>2. search > 0
    BY <2>1 DEF PageInv, Numbered
  <2>3. frame \in 0..MaxFrame /\ frame \in Nat /\ PathBase = frame
    BY <2>2, Begun
  <2>4. IsStart(played, FrameInputBytes, frame)
    BY <2>1, <2>2 DEF PageInv, OfThisMovie
  <2>5. /\ played \in Seq(Inputs) /\ path \in Seq(Inputs) /\ path \in Paths
        /\ Len(path) \in Nat /\ frame + Len(path) <= LastFrame /\ LastFrame \in Nat
    <3>1. played \in Seq(Inputs) /\ path \in Paths
      BY <2>1 DEF Statuses
    <3>2. path \in Seq(Inputs) /\ MaxFrame + Len(path) <= LastFrame
      BY <3>1, SearchPageAssumption
    <3> QED BY <2>3, <3>1, <3>2, LenProperties, SearchPageAssumption
  <2>6. FrameInputBytes' = IF path = <<>> THEN FrameInputBytes ELSE WithPath(path)
    BY DEF TakeStatus, Write
  <2> HIDE DEF played, path, status, frame
  <2>7. /\ Len(played) = frame + 1 /\ DOMAIN found = 1..(frame + 1 + Len(path))
        /\ \A k \in 1..(frame + 1 + Len(path)) :
             found[k] = IF k <= frame + 1 THEN played[k] ELSE path[k - (frame + 1)]
    <3>1. Len(played) = frame + 1
      BY <2>4 DEF IsStart
    <3>2. /\ found \in Seq(Inputs) /\ Len(found) = Len(played) + Len(path)
          /\ \A k \in 1..(Len(played) + Len(path)) :
               found[k] = IF k <= Len(played) THEN played[k] ELSE path[k - Len(played)]
      BY <2>5, ConcatProperties
    <3>3. DOMAIN found = 1..Len(found)
      BY <3>2, LenProperties
    <3> QED BY <3>1, <3>2, <3>3
  <2> HIDE DEF found
  <2>8. ASSUME NEW f \in Frames
        PROVE  FrameInputBytes'[f] = IF f > frame /\ f <= frame + Len(path) THEN path[f - frame]
                                     ELSE FrameInputBytes[f]
    <3>1. CASE path = <<>>
      <4>1. ~ (f > frame /\ f <= frame + Len(path))
        BY <2>3, <3>1, SearchPageAssumption DEF Frames
      <4> QED BY <2>6, <3>1, <4>1
    <3>2. CASE path # <<>>
      BY <2>3, <2>6, <3>2 DEF WithPath
    <3> QED BY <3>1, <3>2
  <2>9. ASSUME NEW k \in 1..(frame + 1 + Len(path)) PROVE FrameInputBytes'[k - 1] = found[k]
    <3>1. k - 1 \in Frames /\ k - 1 - frame = k - (frame + 1)
      BY <2>3, <2>5 DEF Frames
    <3>2. CASE k <= frame + 1
      <4>1. ~ (k - 1 > frame) /\ k \in 1..(frame + 1)
        BY <2>3, <2>5, <3>2
      <4>2. played[k] = FrameInputBytes[k - 1]
        BY <2>4, <4>1 DEF IsStart
      <4> QED BY <2>7, <2>8, <3>1, <3>2, <4>1, <4>2
    <3>3. CASE ~ (k <= frame + 1)
      <4>1. k - 1 > frame /\ k - 1 <= frame + Len(path)
        BY <2>3, <2>5, <3>3
      <4> QED BY <2>7, <2>8, <3>1, <3>3, <4>1
    <3> QED BY <3>2, <3>3
  <2> QED BY <2>7, <2>9 DEF found, played, path, status
<1>2. PageInv /\ [PageNext]_systemVars => [Continues]_systemVars
  BY <1>1
<1> HIDE DEF Continues
<1>3. PageSpec => [][Continues]_systemVars
  BY <1>2, PageAlways, PTL DEF PageSpec
<1> QED BY <1>3 DEF PathContinuesMovie, Continues
==============================================================================
