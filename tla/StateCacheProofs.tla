--------------------------- MODULE StateCacheProofs ---------------------------
(***************************************************************************)
(* The bookkeeping of the step cache, for every bound a caller may set:    *)
(* the hand-kept count is exact, the bound promised by emulator.h holds,   *)
(* and the CHECK of MaybeResize fails only where the limit is 0.  And the  *)
(* cache implements LruCache: evicting by sequence numbers is cutting a    *)
(* list in order of use at its front.                                      *)
(***************************************************************************)
EXTENDS StateCache, FiniteSetTheorems, WellFoundedInduction, SequenceTheorems, TLAPS

\* A set of naturals that is not empty has a least element.
LEMMA LeastElement ==
  ASSUME NEW T, T \subseteq Nat, T # {}
  PROVE  \E x \in T : \A y \in T : x <= y
<1> DEFINE Less == {ss \in Nat \X Nat : ss[1] < ss[2]}
<1>1. IsWellFoundedOn(Less, Nat)
  BY NatLessThanWellFounded DEF OpToRel
<1>2. PICK x \in T : \A y \in T : <<y, x>> \notin Less
  <2> HIDE DEF Less
  <2> QED BY <1>1, WFMin
<1>3. \A y \in T : ~ (y < x)
  BY <1>2
<1> QED BY <1>2, <1>3

\* Induction, stated for a set and derived from the least element of what is
\* left out of it.
LEMMA SetInduction ==
  ASSUME NEW T, 0 \in T, \A n \in Nat : n \in T => n + 1 \in T
  PROVE  Nat \subseteq T
<1> DEFINE Rest == Nat \ T
<1> SUFFICES ASSUME Rest # {} PROVE FALSE
  OBVIOUS
<1>1. PICK x \in Rest : \A y \in Rest : x <= y
  <2>1. Rest \subseteq Nat
    OBVIOUS
  <2> HIDE DEF Rest
  <2> QED BY <2>1, LeastElement
<1>2. x - 1 \in Nat /\ (x - 1) + 1 = x /\ ~ (x <= x - 1)
  BY <1>1
<1>3. x - 1 \in T
  BY <1>1, <1>2
<1> QED BY <1>1, <1>2, <1>3

\* One step of the machine is a state.
LEMMA AdvanceType ==
  ASSUME NEW r \in Roms, NEW s \in States, NEW i \in Inputs
  PROVE  Advance(r, s, i) \in States
BY EmulatorAssumption DEF Advance

\* WithinSlop needs the others: an eviction is started by the count, removes
\* as many entries as the count says, and finds them by sequence numbers that
\* have to be distinct.
CacheInv ==
  /\ TypeOK
  /\ CountExact
  /\ SequencesDistinct
  /\ WithinSlop
  /\ ChecksOnlyUnlimited

-----------------------------------------------------------------------------
(* Eviction. *)

\* The entries of a table have sequence numbers, all different.
Ordered(table) ==
  /\ IsFiniteSet(DOMAIN table)
  /\ \A k \in DOMAIN table : table[k].sequence \in Nat
  /\ \A j, k \in DOMAIN table : table[j].sequence = table[k].sequence => j = k

\* Among more than n entries there is one that exactly n others are older
\* than: the sorted all_sequences has an element at index n and no two of its
\* elements are equal.
LEMMA NthExists ==
  ASSUME NEW table, Ordered(table)
  PROVE  \A n \in Nat : n < Cardinality(DOMAIN table) =>
           \E k \in DOMAIN table :
             Cardinality(OlderThan(table, table[k].sequence)) = n
<1> DEFINE D == DOMAIN table
           T == {n \in Nat : n < Cardinality(D) =>
                   \E k \in D : Cardinality(OlderThan(table, table[k].sequence)) = n}
<1>0. \A q : OlderThan(table, q) \subseteq D
  BY DEF OlderThan
<1>1. \A S : S \subseteq D /\ S # {} =>
        \E k \in S : \A j \in S : table[k].sequence <= table[j].sequence
  <2> SUFFICES ASSUME NEW S, S \subseteq D, S # {}
               PROVE  \E k \in S : \A j \in S : table[k].sequence <= table[j].sequence
    OBVIOUS
  <2> DEFINE Q == {table[k].sequence : k \in S}
  <2>1. Q \subseteq Nat /\ Q # {}
    BY DEF Ordered
  <2>2. PICK q \in Q : \A y \in Q : q <= y
    <3> HIDE DEF Q
    <3> QED BY <2>1, LeastElement
  <2> QED BY <2>2
<1>2. 0 \in T
  <2> SUFFICES ASSUME 0 < Cardinality(D)
               PROVE  \E k \in D : Cardinality(OlderThan(table, table[k].sequence)) = 0
    OBVIOUS
  <2>1. D # {}
    BY FS_EmptySet
  <2>2. PICK k \in D : \A j \in D : table[k].sequence <= table[j].sequence
    BY <1>1, <2>1
  <2>3. OlderThan(table, table[k].sequence) = {}
    BY <2>2 DEF OlderThan, Ordered
  <2> QED BY <2>3, FS_EmptySet
<1>3. ASSUME NEW n \in Nat, n \in T PROVE n + 1 \in T
  <2> SUFFICES ASSUME n + 1 < Cardinality(D)
               PROVE  \E k \in D :
                        Cardinality(OlderThan(table, table[k].sequence)) = n + 1
    BY <1>3
  <2>1. Cardinality(D) \in Nat
    BY FS_CardinalityType DEF Ordered
  <2>2. PICK k \in D : Cardinality(OlderThan(table, table[k].sequence)) = n
    BY <1>3, <2>1
  <2> DEFINE older == OlderThan(table, table[k].sequence)
             next  == older \cup {k}
  <2>3. IsFiniteSet(older) /\ k \notin older
    BY <1>0, FS_Subset DEF OlderThan, Ordered
  <2>4. Cardinality(next) = n + 1
    BY <2>2, <2>3, FS_AddElement
  <2>5. D \ next # {} /\ D \ next \subseteq D
    BY <1>0, <2>1, <2>4
  <2>6. PICK m \in D \ next : \A j \in D \ next : table[m].sequence <= table[j].sequence
    <3> HIDE DEF next
    <3> QED BY <1>1, <2>5
  <2>7. table[k].sequence < table[m].sequence
    BY <2>6 DEF OlderThan, Ordered
  <2>8. OlderThan(table, table[m].sequence) = next
    BY <2>6, <2>7 DEF OlderThan, Ordered
  <2> QED BY <2>4, <2>6, <2>8
<1>4. Nat \subseteq T
  <2> HIDE DEF T
  <2> QED BY <1>2, <1>3, SetInduction
<1> QED BY <1>4

\* MaybeResize removes exactly the n entries it set out to remove.
LEMMA EvictedCount ==
  ASSUME NEW table, Ordered(table), NEW n \in Nat,
         n < Cardinality(DOMAIN table)
  PROVE  /\ Evicted(table, n) \subseteq DOMAIN table
         /\ Cardinality(Evicted(table, n)) = n
<1>1. PICK k \in DOMAIN table :
        Cardinality(OlderThan(table, table[k].sequence)) = n
  BY NthExists
<1>2. Cardinality(OlderThan(table, NthSequence(table, n))) = n
  <2>1. \E q \in {table[j].sequence : j \in DOMAIN table} :
          Cardinality(OlderThan(table, q)) = n
    BY <1>1
  <2> QED BY <2>1 DEF NthSequence
<1> QED BY <1>2 DEF Evicted, OlderThan

-----------------------------------------------------------------------------
(* The invariant, over each call. *)

LEMMA InitCacheInv == Init => CacheInv
<1> SUFFICES ASSUME Init PROVE CacheInv
  OBVIOUS
<1>1. Present = {} /\ hashtable \in [Present -> Entry]
  BY DEF Init, Present, NoEntries
<1>2. IsFiniteSet(Present) /\ Cardinality(Present) = 0
  BY <1>1, FS_EmptySet
<1>3. TypeOK /\ ChecksOnlyUnlimited
  BY <1>1, EmulatorAssumption
     DEF Init, TypeOK, ChecksOnlyUnlimited, Fine, NothingLeft
<1>4. CountExact /\ SequencesDistinct /\ WithinSlop
  BY <1>1, <1>2 DEF Init, CountExact, SequencesDistinct, WithinSlop
<1> QED BY <1>3, <1>4 DEF CacheInv

\* A cache without entries is in order whatever its bounds are.
LEMMA EmptyCache ==
  ASSUME hashtable' = NoEntries, count' = 0, limit' \in Nat, slop' \in Nat,
         nextSequence' = 0, failed' = Fine
  PROVE  /\ Present' \subseteq Keys /\ hashtable' \in [Present' -> Entry]
         /\ CountExact' /\ SequencesDistinct' /\ WithinSlop'
         /\ ChecksOnlyUnlimited'
<1>1. Present' = {} /\ hashtable' \in [Present' -> Entry]
  BY DEF Present, NoEntries
<1>2. IsFiniteSet(Present') /\ Cardinality(Present') = 0
  BY <1>1, FS_EmptySet
<1>3. ChecksOnlyUnlimited'
  BY DEF ChecksOnlyUnlimited, Fine, NothingLeft
<1> QED BY <1>1, <1>2, <1>3 DEF CountExact, SequencesDistinct, WithinSlop

\* Using a known entry renews its sequence number.
LEMMA HitInv ==
  ASSUME CacheInv, NEW i \in Inputs, CachingStepHit(i)
  PROVE  CacheInv'
<1> DEFINE key == <<i, machine>>
<1> USE DEF CachingStepHit
<1>1. /\ key \in Present /\ Present \subseteq Keys
      /\ hashtable \in [Present -> Entry]
      /\ nextSequence \in Nat
  BY DEF CacheInv, TypeOK
<1>2. /\ hashtable' = [hashtable EXCEPT ![key].sequence = nextSequence]
      /\ Present' = Present
      /\ hashtable' \in [Present -> Entry]
  BY <1>1 DEF Touched, Present, Entry
<1>3. machine' \in States
  BY <1>1 DEF Entry
<1>4. TypeOK'
  BY <1>2, <1>3 DEF CacheInv, TypeOK
<1>5. CountExact' /\ WithinSlop' /\ ChecksOnlyUnlimited'
  BY <1>2 DEF CacheInv, CountExact, WithinSlop, ChecksOnlyUnlimited
<1>6. SequencesDistinct'
  <2>1. hashtable'[key].sequence = nextSequence
    BY <1>1, <1>2 DEF Entry
  <2>2. \A k \in Present : k # key => hashtable'[k].sequence = hashtable[k].sequence
    BY <1>1, <1>2
  <2>3. \A k \in Present : hashtable[k].sequence \in Nat
    BY <1>1 DEF Entry
  <2>4. nextSequence' = nextSequence + 1
    OBVIOUS
  <2> HIDE DEF key
  <2> QED BY <1>1, <1>2, <2>1, <2>2, <2>3, <2>4 DEF CacheInv, SequencesDistinct
<1> QED BY <1>4, <1>5, <1>6 DEF CacheInv

\* Remembering a new entry, with the eviction it may start.
LEMMA MissInv ==
  ASSUME CacheInv, NEW i \in Inputs, CachingStepMiss(i)
  PROVE  CacheInv'
<1> DEFINE key    == <<i, machine>>
           table  == With(hashtable, key, nextSequence, machine)
           excess == (count + 1) - limit
           gone   == IF count + 1 > limit + slop THEN Evicted(table, excess) ELSE {}
           rest   == Without(table, gone)
<1>1. /\ failed = Fine /\ machine # NoState /\ key \notin Present
      /\ count + 1 > limit + slop => excess < Cardinality(DOMAIN table)
      /\ hashtable' = Touched(rest, key, nextSequence + 1)
      /\ count' = CountAfter(gone)
      /\ nextSequence' = nextSequence + 2
      /\ UNCHANGED <<failed, initialized, rom, machine, hasCache, limit, slop>>
  BY DEF CachingStepMiss
<1>2. /\ machine \in States /\ key \in Keys /\ Present \subseteq Keys
      /\ hashtable \in [Present -> Entry]
      /\ nextSequence \in Nat /\ count \in Nat /\ limit \in Nat /\ slop \in Nat
  BY <1>1 DEF CacheInv, TypeOK, Keys
<1>3. IsFiniteSet(Present) /\ count = Cardinality(Present)
  BY DEF CacheInv, CountExact
<1>4. DOMAIN table = Present \cup {key}
  BY DEF With, Present
<1>5. table \in [Present \cup {key} -> Entry]
  BY <1>2 DEF With, Present, Entry
<1>6. Cardinality(DOMAIN table) = count + 1 /\ IsFiniteSet(DOMAIN table)
  BY <1>1, <1>3, <1>4, FS_AddElement
<1>7. /\ table[key].sequence = nextSequence
      /\ \A k \in Present : table[k] = hashtable[k]
  BY <1>1 DEF With, Present
<1>8. \A k \in Present : hashtable[k].sequence \in Nat
                       /\ hashtable[k].sequence < nextSequence
  BY <1>2 DEF CacheInv, SequencesDistinct, Entry
<1>9. Ordered(table)
  <2>1. \A k \in DOMAIN table : table[k].sequence \in Nat
    BY <1>2, <1>4, <1>7, <1>8
  <2>2. ASSUME NEW j \in DOMAIN table, NEW k \in DOMAIN table,
               table[j].sequence = table[k].sequence
        PROVE  j = k
    <3>1. CASE j = key /\ k \in Present
      BY <1>2, <1>7, <1>8, <2>2, <3>1
    <3>2. CASE k = key /\ j \in Present
      BY <1>2, <1>7, <1>8, <2>2, <3>2
    <3>3. CASE j \in Present /\ k \in Present
      BY <1>7, <2>2, <3>3 DEF CacheInv, SequencesDistinct
    <3> QED BY <1>4, <3>1, <3>2, <3>3
  <2> QED BY <1>6, <2>1, <2>2 DEF Ordered
<1> HIDE DEF table, key
<1>10. /\ gone \subseteq DOMAIN table /\ IsFiniteSet(gone)
       /\ count + 1 > limit + slop => Cardinality(gone) = excess
       /\ ~ (count + 1 > limit + slop) => Cardinality(gone) = 0
  <2>1. CASE count + 1 > limit + slop
    <3>1. excess \in Nat /\ excess < Cardinality(DOMAIN table)
      BY <1>1, <1>2, <2>1
    <3>2. gone \subseteq DOMAIN table /\ Cardinality(gone) = excess
      BY <1>9, <2>1, <3>1, EvictedCount
    <3> QED BY <1>6, <2>1, <3>2, FS_Subset
  <2>2. CASE ~ (count + 1 > limit + slop)
    BY <2>2, FS_EmptySet
  <2> QED BY <2>1, <2>2
<1> HIDE DEF gone
<1>11. /\ DOMAIN rest = DOMAIN table \ gone
       /\ \A k \in DOMAIN rest : rest[k] = table[k]
       /\ rest \in [DOMAIN table \ gone -> Entry]
  BY <1>4, <1>5 DEF Without
<1> HIDE DEF rest
<1>12. /\ Present' = DOMAIN table \ gone
       /\ hashtable' = [rest EXCEPT ![key].sequence = nextSequence + 1]
       /\ hashtable' \in [Present' -> Entry]
  <2>1. hashtable' = [rest EXCEPT ![key].sequence = nextSequence + 1]
    BY <1>1 DEF Touched
  <2>2. Present' = DOMAIN table \ gone
    BY <1>11, <2>1 DEF Present
  <2>3. \A k \in DOMAIN table \ gone : hashtable'[k] \in Entry
    BY <1>2, <1>11, <2>1 DEF Entry
  <2> QED BY <1>11, <2>1, <2>2, <2>3
<1>13. /\ IsFiniteSet(Present')
       /\ Cardinality(Present') = (count + 1) - Cardinality(gone)
       /\ Cardinality(gone) \in Nat
       /\ Cardinality(Present') \in Nat
  <2>1. IsFiniteSet(Present') /\ Cardinality(gone) \in Nat
        /\ Cardinality(Present') \in Nat
    BY <1>6, <1>10, <1>12, FS_Difference, FS_CardinalityType
  <2>2. DOMAIN table \cap gone = gone
    BY <1>10
  <2>3. Cardinality(DOMAIN table \ gone)
          = Cardinality(DOMAIN table) - Cardinality(DOMAIN table \cap gone)
    BY <1>6, FS_Difference
  <2> QED BY <1>6, <1>12, <2>1, <2>2, <2>3
<1>14. count' = Cardinality(Present')
  <2>1. count' = CountAfter(gone)
    BY <1>1
  <2>2. CountAfter(gone) = (count + 1) - Cardinality(gone)
    BY <1>2, <1>13 DEF CountAfter
  <2> QED BY <1>13, <2>1, <2>2
<1>15. TypeOK'
  <2>1. Present' \subseteq Keys
    BY <1>2, <1>4, <1>12
  <2> QED BY <1>1, <1>2, <1>12, <1>13, <1>14, <2>1 DEF CacheInv, TypeOK
<1>16. WithinSlop'
  <2>1. CASE count + 1 > limit + slop
    BY <1>1, <1>2, <1>10, <1>13, <2>1 DEF WithinSlop
  <2>2. CASE ~ (count + 1 > limit + slop)
    BY <1>1, <1>2, <1>10, <1>13, <2>2 DEF WithinSlop
  <2> QED BY <2>1, <2>2
<1>17. SequencesDistinct'
  <2>1. \A k \in Present' : k # key => /\ k \in Present
                                     /\ hashtable'[k].sequence = hashtable[k].sequence
    BY <1>4, <1>7, <1>11, <1>12
  <2>2. key \in Present' => hashtable'[key].sequence = nextSequence + 1
    BY <1>11, <1>12 DEF Entry
  <2>3. \A k \in Present' : hashtable'[k].sequence < nextSequence'
    BY <1>1, <1>2, <1>8, <2>1, <2>2
  <2>4. ASSUME NEW j \in Present', NEW k \in Present',
               hashtable'[j].sequence = hashtable'[k].sequence
        PROVE  j = k
    <3>1. CASE j = key /\ k # key
      BY <1>2, <1>8, <2>1, <2>2, <2>4, <3>1
    <3>2. CASE k = key /\ j # key
      BY <1>2, <1>8, <2>1, <2>2, <2>4, <3>2
    <3>3. CASE j # key /\ k # key
      BY <2>1, <2>4, <3>3 DEF CacheInv, SequencesDistinct
    <3> QED BY <3>1, <3>2, <3>3
  <2> QED BY <2>3, <2>4 DEF SequencesDistinct
<1>18. CountExact' /\ ChecksOnlyUnlimited'
  BY <1>1, <1>13, <1>14 DEF CountExact, ChecksOnlyUnlimited, Fine, NothingLeft
<1> QED BY <1>15, <1>16, <1>17, <1>18 DEF CacheInv

\* The CHECK compares the number to remove with the number of entries; the
\* count is exact, so it fails only when the limit is 0.
LEMMA ChecksInv ==
  ASSUME CacheInv, NEW i \in Inputs, CachingStepChecks(i)
  PROVE  CacheInv'
<1>1. /\ UNCHANGED <<initialized, rom, machine, cacheVars>>
      /\ failed' = NothingLeft
      /\ ~ ((count + 1) - limit < Cardinality(Present) + 1)
  BY DEF CachingStepChecks
<1>2. limit = 0
  BY <1>1 DEF CacheInv, CountExact, TypeOK
<1> QED BY <1>1, <1>2
        DEF CacheInv, TypeOK, CountExact, SequencesDistinct, WithinSlop,
            ChecksOnlyUnlimited, cacheVars, Present

LEMMA NextCacheInv == CacheInv /\ [Next]_vars => CacheInv'
<1> SUFFICES ASSUME CacheInv, [Next]_vars PROVE CacheInv'
  OBVIOUS
<1> USE EmulatorAssumption, StateCacheAssumption
<1>1. ASSUME NEW r \in Roms, Initialize(r) PROVE CacheInv'
  BY <1>1, EmptyCache DEF CacheInv, TypeOK, Initialize, NewCache
<1>2. CASE InitializeFails
  BY <1>2, EmptyCache DEF CacheInv, TypeOK, InitializeFails, NewCache
<1>3. CASE InitializeTwice
  BY <1>3 DEF CacheInv, TypeOK, CountExact, SequencesDistinct, WithinSlop,
              ChecksOnlyUnlimited, InitializeTwice, cacheVars, Present,
              AlreadyInitialized, NothingLeft
<1>4. CASE Shutdown
  BY <1>4 DEF CacheInv, TypeOK, CountExact, SequencesDistinct, WithinSlop,
              ChecksOnlyUnlimited, Shutdown, cacheVars, Present
<1>5. ASSUME NEW i \in Inputs, PlainStep(i) PROVE CacheInv'
  <2>1. machine' \in States
    BY <1>5, AdvanceType DEF CacheInv, TypeOK, PlainStep
  <2> QED BY <1>5, <2>1
          DEF CacheInv, TypeOK, CountExact, SequencesDistinct, WithinSlop,
              ChecksOnlyUnlimited, PlainStep, cacheVars, Present
<1>6. ASSUME NEW s \in States, LoadUncompressed(s) PROVE CacheInv'
  BY <1>6 DEF CacheInv, TypeOK, CountExact, SequencesDistinct, WithinSlop,
              ChecksOnlyUnlimited, LoadUncompressed, cacheVars, Present
<1>7. ASSUME NEW n \in Limits, NEW ss \in Slops, ResetCache(n, ss) PROVE CacheInv'
  BY <1>7, EmptyCache DEF CacheInv, TypeOK, ResetCache, Resize
<1>8. CASE ResetCacheWithoutOne
  BY <1>8 DEF CacheInv, TypeOK, CountExact, SequencesDistinct, WithinSlop,
              ChecksOnlyUnlimited, ResetCacheWithoutOne, cacheVars, Present,
              NoCache, NothingLeft
<1>9. ASSUME NEW i \in Inputs, CachingStep(i) PROVE CacheInv'
  BY <1>9, HitInv, MissInv, ChecksInv DEF CachingStep
<1>10. CASE Restart
  BY <1>10, EmptyCache DEF CacheInv, TypeOK, Restart
<1>11. CASE UNCHANGED vars
  BY <1>11 DEF CacheInv, TypeOK, CountExact, SequencesDistinct, WithinSlop,
               ChecksOnlyUnlimited, vars, cacheVars, Present
<1> QED BY <1>1, <1>2, <1>3, <1>4, <1>5, <1>6, <1>7, <1>8, <1>9, <1>10, <1>11
        DEF Next

LEMMA CacheInvariant == Spec => []CacheInv
BY InitCacheInv, NextCacheInv, PTL DEF Spec

\* The variables of the library and its cache keep their types.
THEOREM CacheTypeCorrect == Spec => []TypeOK
<1>1. CacheInv => TypeOK
  BY DEF CacheInv
<1> QED BY <1>1, CacheInvariant, PTL

\* The count kept by hand is the size of the table, across every eviction.
THEOREM CacheCountExact == Spec => []CountExact
<1>1. CacheInv => CountExact
  BY DEF CacheInv
<1> QED BY <1>1, CacheInvariant, PTL

\* No more than numstates + slop states are kept, as emulator.h promises.
THEOREM CacheWithinSlop == Spec => []WithinSlop
<1>1. CacheInv => WithinSlop
  BY DEF CacheInv
<1> QED BY <1>1, CacheInvariant, PTL

\* No two entries share a sequence number, so that removing what is below the
\* n-th removes n entries.
THEOREM CacheSequencesDistinct == Spec => []SequencesDistinct
<1>1. CacheInv => SequencesDistinct
  BY DEF CacheInv
<1> QED BY <1>1, CacheInvariant, PTL

\* The CHECK of MaybeResize fails only in a cache whose limit is 0.
THEOREM CacheChecks == Spec => []ChecksOnlyUnlimited
<1>1. CacheInv => ChecksOnlyUnlimited
  BY DEF CacheInv
<1> QED BY <1>1, CacheInvariant, PTL

-----------------------------------------------------------------------------
(* The order of use, for the refinement of LruCache. *)

\* The sequence lists the keys of the table by their sequence numbers.
Sorts(s, table) ==
  /\ s \in Seq(DOMAIN table)
  /\ \A i, j \in 1..Len(s) : i < j => table[s[i]].sequence < table[s[j]].sequence
  /\ \A k \in DOMAIN table : \E i \in 1..Len(s) : s[i] = k

First(s, n) == {s[i] : i \in 1..n}

\* Two keys with as many older ones are one key.
LEMMA RankUnique ==
  ASSUME NEW table, Ordered(table), NEW j \in DOMAIN table, NEW k \in DOMAIN table,
         Cardinality(OlderThan(table, table[j].sequence))
           = Cardinality(OlderThan(table, table[k].sequence))
  PROVE  j = k
<1> DEFINE Older(x) == OlderThan(table, table[x].sequence)
<1>1. \A x : Older(x) \subseteq DOMAIN table
  BY DEF OlderThan
<1>2. ASSUME NEW x \in DOMAIN table, NEW y \in DOMAIN table,
             Cardinality(Older(x)) = Cardinality(Older(y))
      PROVE  ~ (table[x].sequence < table[y].sequence)
  <2> SUFFICES ASSUME table[x].sequence < table[y].sequence PROVE FALSE
    OBVIOUS
  <2>1. Older(x) \subseteq Older(y) /\ x \in Older(y) /\ x \notin Older(x)
    BY DEF OlderThan, Ordered
  <2>2. IsFiniteSet(Older(y))
    BY <1>1, FS_Subset DEF Ordered
  <2>3. Older(x) = Older(y)
    <3> HIDE DEF Older
    <3> QED BY <1>2, <2>1, <2>2, FS_Subset
  <2> QED BY <2>1, <2>3
<1>3. table[j].sequence = table[k].sequence
  BY <1>2 DEF Ordered
<1> QED BY <1>3 DEF Ordered

\* The first n of a sorted sequence are n keys, those older than the next one.
LEMMA SortedFirst ==
  ASSUME NEW table, Ordered(table), NEW s, Sorts(s, table)
  PROVE  /\ Len(s) \in Nat /\ \A i \in 1..Len(s) : s[i] \in DOMAIN table
         /\ \A i, j \in 1..Len(s) : s[i] = s[j] => i = j
         /\ \A n \in 0..Len(s) : Cardinality(First(s, n)) = n
         /\ \A n \in 0..(Len(s) - 1) :
              OlderThan(table, table[s[n + 1]].sequence) = First(s, n)
         /\ Cardinality(DOMAIN table) = Len(s)
<1>1. Len(s) \in Nat /\ \A i \in 1..Len(s) : s[i] \in DOMAIN table
  BY LenProperties, ElementOfSeq DEF Sorts
<1>2. \A i \in 1..Len(s) : table[s[i]].sequence \in Nat
  BY <1>1 DEF Ordered
<1>3. \A i, j \in 1..Len(s) : s[i] = s[j] => i = j
  <2> SUFFICES ASSUME NEW i \in 1..Len(s), NEW j \in 1..Len(s), s[i] = s[j], i # j
               PROVE  FALSE
    OBVIOUS
  <2>1. i < j \/ j < i
    BY <1>1
  <2>2. table[s[i]].sequence < table[s[j]].sequence \/ table[s[j]].sequence < table[s[i]].sequence
    BY <2>1 DEF Sorts
  <2>3. table[s[i]].sequence = table[s[j]].sequence /\ table[s[i]].sequence \in Nat
    BY <1>2
  <2> QED BY <2>2, <2>3
<1>4. \A n \in 0..Len(s) : Cardinality(First(s, n)) = n
  <2> DEFINE T == {n \in Nat : n <= Len(s) =>
                     IsFiniteSet(First(s, n)) /\ Cardinality(First(s, n)) = n}
  <2>1. 0 \in T
    <3>1. First(s, 0) = {}
      BY DEF First
    <3> QED BY <3>1, FS_EmptySet
  <2>2. ASSUME NEW n \in Nat, n \in T PROVE n + 1 \in T
    <3> SUFFICES ASSUME n + 1 <= Len(s)
                 PROVE  IsFiniteSet(First(s, n + 1)) /\ Cardinality(First(s, n + 1)) = n + 1
      OBVIOUS
    <3>1. IsFiniteSet(First(s, n)) /\ Cardinality(First(s, n)) = n
      BY <1>1, <2>2
    <3>2. First(s, n + 1) = First(s, n) \cup {s[n + 1]}
      BY <1>1 DEF First
    <3>3. s[n + 1] \notin First(s, n)
      <4>1. \A i \in 1..n : i \in 1..Len(s) /\ i # n + 1
        BY <1>1
      <4>2. n + 1 \in 1..Len(s)
        BY <1>1
      <4>3. \A i \in 1..n : s[i] # s[n + 1]
        BY <1>3, <4>1, <4>2
      <4> QED BY <4>3 DEF First
    <3> DEFINE F == First(s, n)
               x == s[n + 1]
    <3>4. IsFiniteSet(F \cup {x}) /\ Cardinality(F \cup {x}) = n + 1
      <4>1. IsFiniteSet(F) /\ Cardinality(F) = n /\ x \notin F
        BY <3>1, <3>3
      <4> HIDE DEF F, x
      <4> QED BY <4>1, FS_AddElement
    <3> QED BY <3>2, <3>4
  <2>3. Nat \subseteq T
    <3> HIDE DEF T
    <3> QED BY <2>1, <2>2, SetInduction
  <2> QED BY <1>1, <2>3
<1>5. ASSUME NEW n \in 0..(Len(s) - 1)
      PROVE  OlderThan(table, table[s[n + 1]].sequence) = First(s, n)
  <2>1. n \in Nat /\ n + 1 \in 1..Len(s)
    BY <1>1
  <2>2. ASSUME NEW k \in OlderThan(table, table[s[n + 1]].sequence) PROVE k \in First(s, n)
    <3>1. k \in DOMAIN table /\ table[k].sequence < table[s[n + 1]].sequence
      BY DEF OlderThan
    <3>2. PICK i \in 1..Len(s) : s[i] = k
      BY <3>1 DEF Sorts
    <3>3. i < n + 1
      <4> SUFFICES ASSUME ~ (i < n + 1) PROVE FALSE
        OBVIOUS
      <4>1. i = n + 1 \/ n + 1 < i
        BY <1>1, <2>1
      <4>2. table[s[n + 1]].sequence = table[k].sequence
            \/ table[s[n + 1]].sequence < table[k].sequence
        BY <2>1, <3>2, <4>1 DEF Sorts
      <4> QED BY <1>2, <2>1, <3>1, <3>2, <4>2
    <3> QED BY <2>1, <3>2, <3>3 DEF First
  <2>3. ASSUME NEW k \in First(s, n) PROVE k \in OlderThan(table, table[s[n + 1]].sequence)
    <3>1. PICK i \in 1..n : s[i] = k
      BY DEF First
    <3>2. i \in 1..Len(s) /\ i < n + 1
      BY <1>1, <2>1
    <3> QED BY <1>1, <2>1, <3>1, <3>2 DEF Sorts, OlderThan
  <2> QED BY <2>2, <2>3
<1>6. Cardinality(DOMAIN table) = Len(s)
  <2>1. First(s, Len(s)) = DOMAIN table
    BY <1>1 DEF Sorts, First
  <2> QED BY <1>1, <1>4, <2>1
<1> QED BY <1>1, <1>3, <1>4, <1>5, <1>6

\* There is one sorted sequence of a table, InOrder.
LEMMA SortedOnce ==
  ASSUME NEW table, Ordered(table), NEW s, Sorts(s, table)
  PROVE  s = InOrder(table)
<1>1. /\ Len(s) \in Nat /\ Len(s) = Cardinality(DOMAIN table)
      /\ \A i \in 1..Len(s) : s[i] \in DOMAIN table
      /\ \A n \in 0..Len(s) : Cardinality(First(s, n)) = n
      /\ \A n \in 0..(Len(s) - 1) : OlderThan(table, table[s[n + 1]].sequence) = First(s, n)
  BY SortedFirst
<1>2. ASSUME NEW i \in 1..Len(s) PROVE s[i] = InOrder(table)[i]
  <2>1. i - 1 \in 0..(Len(s) - 1) /\ i - 1 \in 0..Len(s) /\ (i - 1) + 1 = i
    BY <1>1
  <2>2. Cardinality(OlderThan(table, table[s[i]].sequence)) = i - 1
    BY <1>1, <2>1
  <2> DEFINE k == CHOOSE x \in DOMAIN table :
                    Cardinality(OlderThan(table, table[x].sequence)) = i - 1
  <2>3. k \in DOMAIN table /\ Cardinality(OlderThan(table, table[k].sequence)) = i - 1
    BY <1>1, <2>2
  <2>4. InOrder(table)[i] = k
    BY <1>1 DEF InOrder
  <2> HIDE DEF k
  <2> QED BY <1>1, <2>2, <2>3, <2>4, RankUnique
<1>3. s = [i \in 1..Len(s) |-> s[i]]
  BY DEF Sorts
<1>4. InOrder(table) = [i \in 1..Len(s) |-> InOrder(table)[i]]
  BY <1>1 DEF InOrder
<1> QED BY <1>2, <1>3, <1>4

LEMMA InOrderSorts ==
  ASSUME NEW table, Ordered(table)
  PROVE  Sorts(InOrder(table), table)
<1> DEFINE D == DOMAIN table
           N == Cardinality(D)
           s == InOrder(table)
           Rank(k) == Cardinality(OlderThan(table, table[k].sequence))
<1>1. N \in Nat /\ IsFiniteSet(D)
  BY FS_CardinalityType DEF Ordered
<1>2. \A k : OlderThan(table, table[k].sequence) \subseteq D
  BY DEF OlderThan
<1>3. \A k : IsFiniteSet(OlderThan(table, table[k].sequence)) /\ Rank(k) \in Nat
  BY <1>1, <1>2, FS_Subset, FS_CardinalityType
<1>4. ASSUME NEW n \in 1..N PROVE s[n] \in D /\ Rank(s[n]) = n - 1
  <2>1. n - 1 \in Nat /\ n - 1 < N
    BY <1>1
  <2>2. \E k \in D : Rank(k) = n - 1
    BY <2>1, NthExists
  <2>3. s[n] = CHOOSE k \in D : Rank(k) = n - 1
    BY DEF InOrder
  <2> HIDE DEF s, Rank
  <2> QED BY <2>2, <2>3
<1>5. s \in [1..N -> D]
  <2>1. s = [n \in 1..N |-> s[n]]
    BY DEF InOrder
  <2> HIDE DEF s, N
  <2> QED BY <1>4, <2>1
<1>6. s \in Seq(D) /\ Len(s) = N
  <2> HIDE DEF s, N
  <2> QED BY <1>1, <1>5
<1>7. ASSUME NEW i \in 1..N, NEW j \in 1..N, i < j
      PROVE  table[s[i]].sequence < table[s[j]].sequence
  <2> SUFFICES ASSUME ~ (table[s[i]].sequence < table[s[j]].sequence) PROVE FALSE
    OBVIOUS
  <2>1. table[s[j]].sequence \in Nat /\ table[s[i]].sequence \in Nat
    BY <1>4 DEF Ordered
  <2>2. OlderThan(table, table[s[j]].sequence) \subseteq OlderThan(table, table[s[i]].sequence)
    BY <2>1 DEF OlderThan, Ordered
  <2>3. Rank(s[j]) <= Rank(s[i])
    BY <1>3, <2>2, FS_Subset
  <2> HIDE DEF Rank, s, N
  <2> QED BY <1>1, <1>4, <1>7, <2>3
<1>8. ASSUME NEW k \in D PROVE \E i \in 1..N : s[i] = k
  <2>1. k \notin OlderThan(table, table[k].sequence)
    BY DEF OlderThan, Ordered
  <2>2. Rank(k) <= N /\ Rank(k) # N
    BY <1>1, <1>2, <2>1, FS_Subset
  <2>3. Rank(k) + 1 \in 1..N /\ (Rank(k) + 1) - 1 = Rank(k)
    <3> HIDE DEF Rank, N
    <3> QED BY <1>1, <1>3, <2>2
  <2>4. s[Rank(k) + 1] \in D /\ Rank(s[Rank(k) + 1]) = Rank(k)
    <3> HIDE DEF Rank, N, s
    <3> QED BY <1>4, <2>3
  <2>5. s[Rank(k) + 1] = k
    <3> HIDE DEF s
    <3> QED BY <2>4, RankUnique
  <2> QED BY <2>3, <2>5
<1> HIDE DEF s, N
<1>9. Sorts(s, table)
  BY <1>6, <1>7, <1>8 DEF Sorts
<1> QED BY <1>9 DEF s

\* The n oldest keys are the first n.
LEMMA EvictedFirst ==
  ASSUME NEW table, Ordered(table), NEW s, Sorts(s, table), NEW n \in Nat, n < Len(s)
  PROVE  Evicted(table, n) = First(s, n)
<1>1. /\ Len(s) \in Nat /\ \A i \in 1..Len(s) : s[i] \in DOMAIN table
      /\ n \in 0..Len(s) /\ n \in 0..(Len(s) - 1) /\ n + 1 \in 1..Len(s)
  BY SortedFirst
<1>2. /\ Cardinality(First(s, n)) = n
      /\ OlderThan(table, table[s[n + 1]].sequence) = First(s, n)
  BY <1>1, SortedFirst
<1> DEFINE Q == {table[k].sequence : k \in DOMAIN table}
           q == CHOOSE x \in Q : Cardinality(OlderThan(table, x)) = n
<1>3. q \in Q /\ Cardinality(OlderThan(table, q)) = n
  <2>1. table[s[n + 1]].sequence \in Q
    BY <1>1
  <2>2. Cardinality(OlderThan(table, table[s[n + 1]].sequence)) = n
    BY <1>2
  <2> HIDE DEF Q
  <2> QED BY <2>1, <2>2
<1>4. NthSequence(table, n) = q
  BY DEF NthSequence
<1>5. PICK k \in DOMAIN table : table[k].sequence = q
  <2> HIDE DEF q
  <2> QED BY <1>3
<1> HIDE DEF q
<1>6. k = s[n + 1]
  BY <1>1, <1>2, <1>3, <1>5, RankUnique
<1> QED BY <1>2, <1>4, <1>5, <1>6 DEF Evicted

\* Without its first n keys a table is sorted by the rest.
LEMMA CutSorts ==
  ASSUME NEW table, Ordered(table), NEW s, Sorts(s, table), NEW n \in Nat, n < Len(s),
         NEW c, c = SubSeq(s, n + 1, Len(s))
  PROVE  /\ Sorts(c, Without(table, First(s, n)))
         /\ Len(c) = Len(s) - n /\ \A i \in 1..(Len(s) - n) : c[i] = s[i + n]
<1> DEFINE rest == Without(table, First(s, n))
<1>1. /\ Len(s) \in Nat /\ \A i \in 1..Len(s) : s[i] \in DOMAIN table
      /\ \A i, j \in 1..Len(s) : s[i] = s[j] => i = j
  BY SortedFirst
<1>2. /\ DOMAIN rest = DOMAIN table \ First(s, n)
      /\ \A k \in DOMAIN rest : rest[k] = table[k]
  BY DEF Without
<1>3. \A i \in (n + 1)..Len(s) : s[i] \in DOMAIN rest
  <2> SUFFICES ASSUME NEW i \in (n + 1)..Len(s) PROVE s[i] \notin First(s, n)
    BY <1>1, <1>2
  <2>1. i \in 1..Len(s) /\ \A j \in 1..n : j \in 1..Len(s) /\ j # i
    BY <1>1
  <2>2. \A j \in 1..n : s[j] # s[i]
    BY <1>1, <2>1
  <2> QED BY <2>2 DEF First
<1> HIDE DEF rest
<1>4. /\ c \in Seq(DOMAIN rest) /\ Len(c) = Len(s) - n
      /\ \A i \in 1..(Len(s) - n) : c[i] = s[n + 1 + i - 1]
  BY <1>1, <1>3, SubSeqProperties
<1>5. \A i \in 1..(Len(s) - n) : c[i] = s[i + n] /\ i + n \in (n + 1)..Len(s)
                               /\ i + n \in 1..Len(s)
  <2> SUFFICES ASSUME NEW i \in 1..(Len(s) - n)
               PROVE  c[i] = s[i + n] /\ i + n \in (n + 1)..Len(s) /\ i + n \in 1..Len(s)
    OBVIOUS
  <2>1. n + 1 + i - 1 = i + n /\ i + n \in (n + 1)..Len(s) /\ i + n \in 1..Len(s)
    BY <1>1
  <2> QED BY <1>4, <2>1
<1>6. ASSUME NEW i \in 1..Len(c), NEW j \in 1..Len(c), i < j
      PROVE  rest[c[i]].sequence < rest[c[j]].sequence
  <2>1. table[s[i + n]].sequence < table[s[j + n]].sequence
    <3>1. i + n \in 1..Len(s) /\ j + n \in 1..Len(s) /\ i + n < j + n
      BY <1>1, <1>4, <1>5, <1>6
    <3> QED BY <3>1 DEF Sorts
  <2> QED BY <1>2, <1>3, <1>4, <1>5, <2>1
<1>7. ASSUME NEW k \in DOMAIN rest PROVE \E i \in 1..Len(c) : c[i] = k
  <2>1. k \in DOMAIN table /\ k \notin First(s, n)
    BY <1>2
  <2>2. PICK j \in 1..Len(s) : s[j] = k
    BY <2>1 DEF Sorts
  <2>3. j \notin 1..n
    BY <2>1, <2>2 DEF First
  <2>4. j - n \in 1..(Len(s) - n) /\ (j - n) + n = j
    BY <1>1, <2>3
  <2> QED BY <1>4, <1>5, <2>2, <2>4
<1>8. Sorts(c, rest)
  BY <1>4, <1>6, <1>7 DEF Sorts
<1> QED BY <1>4, <1>5, <1>8 DEF rest

\* The last key may be used again.
LEMMA TouchedSorts ==
  ASSUME NEW table, Ordered(table), NEW s, Sorts(s, table), Len(s) > 0,
         NEW key, key = s[Len(s)], table \in [DOMAIN table -> Entry], NEW q \in Nat,
         \A k \in DOMAIN table : table[k].sequence < q
  PROVE  Sorts(s, Touched(table, key, q))
<1> DEFINE t == Touched(table, key, q)
<1>1. /\ Len(s) \in Nat /\ \A i \in 1..Len(s) : s[i] \in DOMAIN table
      /\ \A i, j \in 1..Len(s) : s[i] = s[j] => i = j
  BY SortedFirst
<1>2. Len(s) \in 1..Len(s) /\ key \in DOMAIN table
  BY <1>1
<1>3. DOMAIN t = DOMAIN table
  BY DEF Touched
<1>4. \A k \in DOMAIN table : k # key => t[k].sequence = table[k].sequence
  BY DEF Touched
<1>5. t[key].sequence = q
  <2>1. table[key] \in Entry
    BY <1>2
  <2> QED BY <1>2, <2>1 DEF Touched, Entry
<1> HIDE DEF t
<1>6. ASSUME NEW i \in 1..Len(s), NEW j \in 1..Len(s), i < j
      PROVE  t[s[i]].sequence < t[s[j]].sequence
  <2>1. s[i] # key /\ s[i] \in DOMAIN table /\ s[j] \in DOMAIN table
    BY <1>1, <1>2, <1>6
  <2>2. t[s[i]].sequence = table[s[i]].sequence
    BY <1>4, <2>1
  <2>3. table[s[i]].sequence < table[s[j]].sequence /\ table[s[i]].sequence < q
    BY <1>6, <2>1 DEF Sorts
  <2>4. t[s[j]].sequence = table[s[j]].sequence \/ t[s[j]].sequence = q
    BY <1>4, <1>5, <2>1
  <2> QED BY <2>2, <2>3, <2>4
<1>7. Sorts(s, t)
  BY <1>3, <1>6 DEF Sorts
<1> QED BY <1>7 DEF t

\* A new key with the highest sequence number goes to the end.
LEMMA WithSorts ==
  ASSUME NEW table, Ordered(table), NEW s, Sorts(s, table), NEW key, key \notin DOMAIN table,
         NEW q \in Nat, \A k \in DOMAIN table : table[k].sequence < q, NEW result
  PROVE  Sorts(Append(s, key), With(table, key, q, result))
<1> DEFINE t == With(table, key, q, result)
           c == Append(s, key)
<1>1. Len(s) \in Nat /\ \A i \in 1..Len(s) : s[i] \in DOMAIN table
  BY SortedFirst
<1>2. /\ DOMAIN t = DOMAIN table \cup {key}
      /\ \A k \in DOMAIN table : t[k] = table[k]
      /\ t[key].sequence = q
  BY DEF With
<1> HIDE DEF t
<1>3. s \in Seq(DOMAIN t)
  BY <1>1, <1>2 DEF Sorts
<1>4. /\ c \in Seq(DOMAIN t) /\ Len(c) = Len(s) + 1
      /\ \A i \in 1..Len(s) : c[i] = s[i]
      /\ c[Len(s) + 1] = key
  BY <1>2, <1>3, AppendProperties
<1> HIDE DEF c
<1>5. ASSUME NEW i \in 1..Len(c), NEW j \in 1..Len(c), i < j
      PROVE  t[c[i]].sequence < t[c[j]].sequence
  <2>1. i \in 1..Len(s) /\ c[i] = s[i] /\ s[i] \in DOMAIN table
        /\ t[s[i]].sequence = table[s[i]].sequence /\ table[s[i]].sequence < q
    BY <1>1, <1>2, <1>4, <1>5
  <2>2. CASE j = Len(s) + 1
    BY <1>2, <1>4, <2>1, <2>2
  <2>3. CASE j # Len(s) + 1
    <3>1. j \in 1..Len(s) /\ c[j] = s[j] /\ s[j] \in DOMAIN table
          /\ t[s[j]].sequence = table[s[j]].sequence
      BY <1>1, <1>2, <1>4, <2>3
    <3> QED BY <1>5, <2>1, <3>1 DEF Sorts
  <2> QED BY <2>2, <2>3
<1>6. ASSUME NEW k \in DOMAIN t PROVE \E i \in 1..Len(c) : c[i] = k
  <2>1. CASE k = key
    BY <1>1, <1>4, <2>1
  <2>2. CASE k \in DOMAIN table
    <3>1. PICK i \in 1..Len(s) : s[i] = k
      BY <2>2 DEF Sorts
    <3>2. i \in 1..Len(c) /\ c[i] = k
      BY <1>1, <1>4, <3>1
    <3> QED BY <3>2
  <2> QED BY <1>2, <2>1, <2>2
<1>7. Sorts(c, t)
  BY <1>4, <1>5, <1>6 DEF Sorts
<1> QED BY <1>7 DEF c, t

\* A key that is used moves to the end.
LEMMA MovedSorts ==
  ASSUME NEW table, Ordered(table), NEW s, Sorts(s, table), NEW n \in 1..Len(s),
         NEW key, key = s[n], table \in [DOMAIN table -> Entry], NEW q \in Nat,
         \A k \in DOMAIN table : table[k].sequence < q
  PROVE  Sorts(Append(RemoveAt(s, n), key), Touched(table, key, q))
<1> DEFINE t == Touched(table, key, q)
           a == SubSeq(s, 1, n - 1)
           b == SubSeq(s, n + 1, Len(s))
           d == a \o b
           c == Append(d, key)
           D == DOMAIN table
<1>1. /\ Len(s) \in Nat /\ \A i \in 1..Len(s) : s[i] \in D
      /\ \A i, j \in 1..Len(s) : s[i] = s[j] => i = j
      /\ key \in D
  BY SortedFirst
<1>2. /\ DOMAIN t = D /\ t[key].sequence = q
      /\ \A k \in D : k # key => t[k].sequence = table[k].sequence
  <2>1. table[key] \in Entry
    BY <1>1
  <2> QED BY <1>1, <2>1 DEF Touched, Entry
<1> HIDE DEF t, D
<1>3. a \in Seq(D) /\ Len(a) = n - 1 /\ \A i \in 1..(n - 1) : a[i] = s[i]
  <2>1. \A i \in 1..(n - 1) : s[i] \in D
    BY <1>1
  <2> QED BY <1>1, <2>1, SubSeqProperties
<1>4. b \in Seq(D) /\ Len(b) = Len(s) - n /\ \A i \in 1..(Len(s) - n) : b[i] = s[n + 1 + i - 1]
  <2>1. \A i \in (n + 1)..Len(s) : s[i] \in D
    BY <1>1
  <2>2. Len(b) = IF n + 1 <= Len(s) THEN Len(s) - (n + 1) + 1 ELSE 0
    BY <1>1, <2>1, SubSeqProperties
  <2>3. Len(b) = Len(s) - n
    BY <1>1, <2>2
  <2> QED BY <1>1, <2>1, <2>3, SubSeqProperties
<1> HIDE DEF a, b
<1>5. /\ d \in Seq(D) /\ Len(d) = Len(a) + Len(b)
      /\ \A i \in 1..(Len(a) + Len(b)) : d[i] = IF i <= Len(a) THEN a[i] ELSE b[i - Len(a)]
  BY <1>3, <1>4, ConcatProperties
<1> HIDE DEF d
<1>6. /\ Len(d) = Len(s) - 1
      /\ \A i \in 1..(Len(s) - 1) : d[i] = IF i < n THEN s[i] ELSE s[i + 1]
  <2>1. Len(d) = Len(s) - 1
    BY <1>1, <1>3, <1>4, <1>5
  <2>2. ASSUME NEW i \in 1..(Len(s) - 1), i < n PROVE d[i] = s[i]
    BY <1>1, <1>3, <1>4, <1>5, <2>2
  <2>3. ASSUME NEW i \in 1..(Len(s) - 1), ~ (i < n) PROVE d[i] = s[i + 1]
    <3>1. i - (n - 1) \in 1..(Len(s) - n) /\ n + 1 + (i - (n - 1)) - 1 = i + 1
      BY <1>1, <2>3
    <3>2. b[i - (n - 1)] = s[i + 1]
      BY <1>4, <3>1
    <3>3. d[i] = b[i - (n - 1)]
      BY <1>1, <1>3, <1>4, <1>5, <2>3
    <3> QED BY <3>2, <3>3
  <2> QED BY <2>1, <2>2, <2>3
<1>7. /\ c \in Seq(D) /\ Len(c) = Len(s) /\ c[Len(s)] = key
      /\ \A i \in 1..(Len(s) - 1) : c[i] = d[i]
  <2>1. /\ c \in Seq(D) /\ Len(c) = Len(d) + 1 /\ c[Len(d) + 1] = key
        /\ \A i \in 1..Len(d) : c[i] = d[i]
    BY <1>1, <1>5, AppendProperties
  <2>2. Len(d) + 1 = Len(s)
    BY <1>1, <1>6
  <2> QED BY <1>6, <2>1, <2>2
<1> HIDE DEF c
<1> DEFINE From(i) == IF i < n THEN i ELSE i + 1
<1>8. ASSUME NEW i \in 1..(Len(s) - 1)
      PROVE  /\ From(i) \in 1..Len(s) /\ From(i) # n /\ c[i] = s[From(i)]
             /\ c[i] \in D /\ c[i] # key /\ t[c[i]].sequence = table[s[From(i)]].sequence
  <2>1. From(i) \in 1..Len(s) /\ From(i) # n
    BY <1>1
  <2>2. c[i] = s[From(i)]
    BY <1>6, <1>7
  <2> HIDE DEF From
  <2>3. c[i] \in D /\ c[i] # key
    BY <1>1, <2>1, <2>2
  <2> QED BY <1>2, <2>1, <2>2, <2>3
<1>9. ASSUME NEW i \in 1..Len(c), NEW j \in 1..Len(c), i < j
      PROVE  t[c[i]].sequence < t[c[j]].sequence
  <2>1. i \in 1..(Len(s) - 1) /\ (j = Len(s) \/ j \in 1..(Len(s) - 1))
    BY <1>1, <1>7, <1>9
  <2>2. CASE j = Len(s)
    <3>1. t[c[j]].sequence = q
      BY <1>2, <1>7, <2>2
    <3>2. t[c[i]].sequence < q
      <4> HIDE DEF From
      <4> QED BY <1>1, <1>8, <2>1 DEF D
    <3> QED BY <3>1, <3>2
  <2>3. CASE j \in 1..(Len(s) - 1)
    <3>1. From(i) < From(j)
      BY <1>1, <1>9, <2>1, <2>3
    <3> HIDE DEF From
    <3>2. From(i) \in 1..Len(s) /\ From(j) \in 1..Len(s)
      BY <1>8, <2>1, <2>3
    <3>3. table[s[From(i)]].sequence < table[s[From(j)]].sequence
      BY <3>1, <3>2 DEF Sorts
    <3> QED BY <1>8, <2>1, <2>3, <3>3
  <2> QED BY <2>1, <2>2, <2>3
<1>10. ASSUME NEW k \in D PROVE \E i \in 1..Len(c) : c[i] = k
  <2>1. PICK m \in 1..Len(s) : s[m] = k
    BY DEF Sorts, D
  <2>2. CASE m = n
    BY <1>1, <1>7, <2>1, <2>2
  <2>3. CASE m < n
    <3>1. m \in 1..(Len(s) - 1) /\ m \in 1..Len(c)
      BY <1>1, <1>7, <2>3
    <3> QED BY <1>6, <1>7, <2>1, <2>3, <3>1
  <2>4. CASE m > n
    <3>1. m - 1 \in 1..(Len(s) - 1) /\ m - 1 \in 1..Len(c) /\ ~ (m - 1 < n) /\ (m - 1) + 1 = m
      BY <1>1, <1>7, <2>4
    <3> QED BY <1>6, <1>7, <2>1, <3>1
  <2> QED BY <1>1, <2>2, <2>3, <2>4
<1>11. Sorts(c, t)
  BY <1>2, <1>7, <1>9, <1>10 DEF Sorts
<1> QED BY <1>11 DEF c, d, a, b, t, RemoveAt

\* The table of a cache, and the list that it implements.
LEMMA TableOrdered ==
  ASSUME NEW table, IsFiniteSet(DOMAIN table), table \in [DOMAIN table -> Entry],
         \A j, k \in DOMAIN table : table[j].sequence = table[k].sequence => j = k
  PROVE  Ordered(table)
BY DEF Ordered, Entry

LEMMA CacheOrdered ==
  CacheInv =>
    /\ Ordered(hashtable) /\ hashtable \in [DOMAIN hashtable -> Entry]
    /\ \A k \in DOMAIN hashtable : hashtable[k].sequence < nextSequence
    /\ nextSequence \in Nat
<1> SUFFICES ASSUME CacheInv
             PROVE  /\ Ordered(hashtable) /\ hashtable \in [DOMAIN hashtable -> Entry]
                    /\ \A k \in DOMAIN hashtable : hashtable[k].sequence < nextSequence
                    /\ nextSequence \in Nat
  OBVIOUS
<1>1. /\ IsFiniteSet(DOMAIN hashtable) /\ hashtable \in [DOMAIN hashtable -> Entry]
      /\ \A j, k \in DOMAIN hashtable : hashtable[j].sequence = hashtable[k].sequence => j = k
      /\ \A k \in DOMAIN hashtable : hashtable[k].sequence < nextSequence
      /\ nextSequence \in Nat
  BY DEF CacheInv, TypeOK, CountExact, SequencesDistinct, Present
<1>2. Ordered(hashtable)
  BY <1>1, TableOrdered
<1> QED BY <1>1, <1>2

\* A step that is known uses its key.
LEMMA HitUses ==
  ASSUME CacheInv, NEW i \in Inputs, CachingStepHit(i)
  PROVE  Lru!UseKnown(<<i, machine>>)
<1> DEFINE key == <<i, machine>>
           s == InOrder(hashtable)
<1>1. /\ key \in DOMAIN hashtable /\ hashtable' = Touched(hashtable, key, nextSequence)
      /\ UNCHANGED <<limit, slop>>
  BY DEF CachingStepHit, Present
<1>2. /\ Ordered(hashtable) /\ hashtable \in [DOMAIN hashtable -> Entry]
      /\ \A k \in DOMAIN hashtable : hashtable[k].sequence < nextSequence
      /\ nextSequence \in Nat
  BY CacheOrdered
<1>3. Ordered(hashtable')
  <2>1. CacheInv'
    BY HitInv
  <2>2. /\ IsFiniteSet(DOMAIN hashtable') /\ hashtable' \in [DOMAIN hashtable' -> Entry]
        /\ \A j, k \in DOMAIN hashtable' : hashtable'[j].sequence = hashtable'[k].sequence => j = k
    BY <2>1 DEF CacheInv, TypeOK, CountExact, SequencesDistinct, Present
  <2> QED BY <2>2, TableOrdered
<1>4. Sorts(s, hashtable)
  BY <1>2, InOrderSorts
<1> HIDE DEF key, s
<1>5. PICK n \in 1..Len(s) : s[n] = key
  BY <1>1, <1>4 DEF Sorts
<1>6. Sorts(Append(RemoveAt(s, n), key), hashtable')
  BY <1>1, <1>2, <1>4, <1>5, MovedSorts
<1>7. InOrder(hashtable') = Append(RemoveAt(s, n), key)
  BY <1>3, <1>6, SortedOnce
<1>8. /\ \E m \in 1..Len(s) : s[m] = key /\ InOrder(hashtable') = Append(RemoveAt(s, m), key)
      /\ UNCHANGED <<limit, slop>>
  BY <1>1, <1>5, <1>7
<1> QED BY <1>8 DEF Lru!UseKnown, Recency, Lru!RemoveAt, RemoveAt, s, key

\* A step that is not known is entered, and the oldest are forgotten.
LEMMA MissUses ==
  ASSUME CacheInv, NEW i \in Inputs, CachingStepMiss(i)
  PROVE  Lru!UseNew(<<i, machine>>) /\ <<i, machine>> \in Keys
<1> DEFINE key    == <<i, machine>>
           s      == InOrder(hashtable)
           table  == With(hashtable, key, nextSequence, machine)
           longer == Append(s, key)
           excess == (count + 1) - limit
           gone   == IF count + 1 > limit + slop THEN Evicted(table, excess) ELSE {}
           rest   == Without(table, gone)
<1>1. /\ machine # NoState /\ key \notin DOMAIN hashtable
      /\ count + 1 > limit + slop => excess < Cardinality(DOMAIN table)
      /\ hashtable' = Touched(rest, key, nextSequence + 1)
      /\ UNCHANGED <<limit, slop>>
  BY DEF CachingStepMiss, Present
<1>2. /\ Ordered(hashtable) /\ hashtable \in [DOMAIN hashtable -> Entry]
      /\ \A k \in DOMAIN hashtable : hashtable[k].sequence < nextSequence
      /\ nextSequence \in Nat
  BY CacheOrdered
<1>3. /\ machine \in States /\ key \in Keys
      /\ count = Cardinality(DOMAIN hashtable) /\ IsFiniteSet(DOMAIN hashtable)
      /\ count \in Nat /\ limit \in Nat /\ slop \in Nat
  BY <1>1 DEF CacheInv, TypeOK, CountExact, Present, Keys
<1>4. Ordered(hashtable')
  <2>1. CacheInv'
    BY MissInv
  <2>2. /\ IsFiniteSet(DOMAIN hashtable') /\ hashtable' \in [DOMAIN hashtable' -> Entry]
        /\ \A j, k \in DOMAIN hashtable' : hashtable'[j].sequence = hashtable'[k].sequence => j = k
    BY <2>1 DEF CacheInv, TypeOK, CountExact, SequencesDistinct, Present
  <2> QED BY <2>2, TableOrdered
<1>5. Sorts(s, hashtable) /\ Len(s) = count /\ \A n \in 1..Len(s) : s[n] # key
  <2>1. Sorts(s, hashtable)
    BY <1>2, InOrderSorts
  <2> HIDE DEF s, key
  <2>2. Len(s) = Cardinality(DOMAIN hashtable) /\ \A n \in 1..Len(s) : s[n] \in DOMAIN hashtable
    BY <1>2, <2>1, SortedFirst
  <2> QED BY <1>1, <1>3, <2>1, <2>2
<1> HIDE DEF s, key
<1>6. /\ DOMAIN table = DOMAIN hashtable \cup {key}
      /\ \A k \in DOMAIN hashtable : table[k] = hashtable[k]
      /\ table[key] = [sequence |-> nextSequence, result |-> machine]
  BY <1>1 DEF With
<1>7. Sorts(longer, table)
  BY <1>1, <1>2, <1>5, WithSorts
<1>8. Ordered(table) /\ table \in [DOMAIN table -> Entry]
      /\ \A k \in DOMAIN table : table[k].sequence < nextSequence + 1
  <2>1. table[key] \in Entry /\ table[key].sequence = nextSequence
    BY <1>2, <1>3, <1>6 DEF Entry
  <2>2. \A k \in DOMAIN hashtable : /\ table[k] \in Entry /\ table[k].sequence \in Nat
                                   /\ table[k].sequence < nextSequence
    BY <1>2, <1>6 DEF Entry
  <2>3. table = [k \in DOMAIN table |-> table[k]]
    BY <1>6 DEF With
  <2> HIDE DEF table
  <2>4. table \in [DOMAIN table -> Entry]
    BY <1>6, <2>1, <2>2, <2>3
  <2>5. IsFiniteSet(DOMAIN table)
    BY <1>3, <1>6, FS_AddElement
  <2>6. \A k \in DOMAIN table : table[k].sequence < nextSequence + 1
    BY <1>2, <1>6, <2>1, <2>2
  <2>7. ASSUME NEW j \in DOMAIN table, NEW k \in DOMAIN table,
               table[j].sequence = table[k].sequence
        PROVE  j = k
    <3>1. CASE j = key /\ k \in DOMAIN hashtable
      BY <1>2, <2>1, <2>2, <2>7, <3>1
    <3>2. CASE k = key /\ j \in DOMAIN hashtable
      BY <1>2, <2>1, <2>2, <2>7, <3>2
    <3>3. CASE j \in DOMAIN hashtable /\ k \in DOMAIN hashtable
      BY <1>2, <1>6, <2>7, <3>3 DEF Ordered
    <3> QED BY <1>6, <3>1, <3>2, <3>3
  <2> QED BY <2>4, <2>5, <2>6, <2>7, TableOrdered
<1>9. /\ longer \in Seq(DOMAIN table) /\ Len(longer) = count + 1 /\ longer[count + 1] = key
      /\ Cardinality(DOMAIN table) = count + 1
  <2>1. longer \in Seq(DOMAIN table) /\ Len(longer) = Len(s) + 1 /\ longer[Len(s) + 1] = key
    <3>1. s \in Seq(DOMAIN table)
      BY <1>5, <1>6, SortedFirst, <1>2 DEF Sorts
    <3> HIDE DEF table
    <3> QED BY <1>6, <3>1, AppendProperties
  <2>2. Cardinality(DOMAIN table) = Len(longer)
    <3> HIDE DEF table, longer
    <3> QED BY <1>7, <1>8, SortedFirst
  <2> HIDE DEF table, longer
  <2> QED BY <1>5, <2>1, <2>2
<1> HIDE DEF table, longer
<1> DEFINE n == IF count + 1 > limit + slop THEN excess ELSE 0
           c == SubSeq(longer, n + 1, Len(longer))
<1>10. n \in Nat /\ n < Len(longer)
  BY <1>1, <1>3, <1>9
<1>11. gone = First(longer, n)
  <2>1. CASE count + 1 > limit + slop
    <3>1. Evicted(table, n) = First(longer, n)
      <4> HIDE DEF n
      <4> QED BY <1>7, <1>8, <1>10, EvictedFirst
    <3> QED BY <2>1, <3>1
  <2>2. CASE ~ (count + 1 > limit + slop)
    BY <2>2 DEF First
  <2> QED BY <2>1, <2>2
<1>12. /\ Sorts(c, rest) /\ Len(c) = Len(longer) - n
       /\ \A j \in 1..(Len(longer) - n) : c[j] = longer[j + n]
  <2>1. /\ Sorts(c, Without(table, First(longer, n))) /\ Len(c) = Len(longer) - n
        /\ \A j \in 1..(Len(longer) - n) : c[j] = longer[j + n]
    <3>1. c = SubSeq(longer, n + 1, Len(longer))
      OBVIOUS
    <3> HIDE DEF n, c
    <3>2. Ordered(table) /\ Sorts(longer, table) /\ n \in Nat /\ n < Len(longer)
      BY <1>7, <1>8, <1>10
    <3>3. Len(c) = Len(longer) - n
      BY <3>1, <3>2, CutSorts
    <3>4. Sorts(c, Without(table, First(longer, n)))
      BY <3>1, <3>2, CutSorts
    <3>5. \A j \in 1..(Len(longer) - n) : c[j] = longer[j + n]
      BY <3>1, <3>2, CutSorts
    <3> QED BY <3>3, <3>4, <3>5
  <2> HIDE DEF n, c, gone
  <2> QED BY <1>11, <2>1
<1>13. c[Len(c)] = key /\ Len(c) > 0 /\ Len(c) \in Nat
  <2> HIDE DEF n, c
  <2>1. Len(c) \in 1..(Len(longer) - n) /\ Len(c) + n = count + 1
    BY <1>3, <1>9, <1>10, <1>12
  <2> QED BY <1>9, <1>12, <2>1
<1>14. /\ Ordered(rest) /\ rest \in [DOMAIN rest -> Entry]
       /\ \A k \in DOMAIN rest : rest[k].sequence < nextSequence + 1
  <2>1. /\ DOMAIN rest = DOMAIN table \ gone /\ rest = [k \in DOMAIN table \ gone |-> table[k]]
    BY DEF Without
  <2> HIDE DEF gone, rest
  <2>2. \A k \in DOMAIN rest : k \in DOMAIN table /\ rest[k] = table[k]
    BY <2>1
  <2>3. IsFiniteSet(DOMAIN rest)
    BY <1>8, <2>1, FS_Difference DEF Ordered
  <2>4. rest \in [DOMAIN rest -> Entry]
    BY <1>8, <2>1, <2>2
  <2> QED BY <1>8, <2>2, <2>3, <2>4 DEF Ordered
<1>15. Sorts(c, hashtable')
  <2>1. nextSequence + 1 \in Nat
    BY <1>2
  <2> HIDE DEF rest, c, gone
  <2> QED BY <1>1, <1>12, <1>13, <1>14, <2>1, TouchedSorts
<1>16. InOrder(hashtable') = c
  <2> HIDE DEF c
  <2> QED BY <1>4, <1>15, SortedOnce
<1>17. c = IF Len(longer) > limit + slop
           THEN SubSeq(longer, Len(longer) - limit + 1, Len(longer)) ELSE longer
  <2>1. CASE count + 1 > limit + slop
    BY <1>9, <2>1
  <2>2. CASE ~ (count + 1 > limit + slop)
    <3>1. Len(c) = Len(longer) /\ \A j \in 1..Len(longer) : c[j] = longer[j]
      BY <1>3, <1>9, <1>12, <2>2
    <3>2. c \in Seq(DOMAIN rest)
      BY <1>12 DEF Sorts
    <3> HIDE DEF c
    <3>3. c = longer
      BY <1>9, <3>1, <3>2, SeqEqual
    <3> QED BY <1>9, <2>2, <3>3
  <2> QED BY <2>1, <2>2
<1>18. Contains(c, key)
  <2> HIDE DEF c
  <2> QED BY <1>13 DEF Contains
<1>19. ~ Contains(s, key)
  BY <1>5 DEF Contains
<1> HIDE DEF c
<1>20. Lru!UseNew(key)
  BY <1>1, <1>16, <1>17, <1>18, <1>19 DEF Lru!UseNew, Lru!Contains, Contains, Recency, longer, s
<1> QED BY <1>3, <1>20 DEF key

\* Every step of the cache is a step of the list or leaves it as it is.
LEMMA LruInitial == Init => Lru!LruInit
<1> SUFFICES ASSUME Init PROVE Lru!LruInit
  OBVIOUS
<1>1. DOMAIN hashtable = {} /\ limit = 0 /\ slop = 0
  BY DEF Init, NoEntries
<1>2. InOrder(hashtable) = <<>>
  BY <1>1, FS_EmptySet DEF InOrder
<1> QED BY <1>1, <1>2 DEF Lru!LruInit, Recency

LEMMA Emptied ==
  ASSUME hashtable' = NoEntries, limit' \in Limits \cup {0}, slop' \in Slops \cup {DefaultSlop, 0}
  PROVE  Lru!LruNext
<1>1. DOMAIN hashtable' = {}
  BY DEF NoEntries
<1>2. InOrder(hashtable') = <<>>
  BY <1>1, FS_EmptySet DEF InOrder
<1>3. Lru!Empty(limit', slop')
  BY <1>2 DEF Lru!Empty, Recency
<1> QED BY <1>3 DEF Lru!LruNext

LEMMA LruSteps == CacheInv /\ [Next]_vars => [Lru!LruNext]_(Lru!lruVars)
<1> SUFFICES ASSUME CacheInv, [Next]_vars PROVE [Lru!LruNext]_(Lru!lruVars)
  OBVIOUS
<1>0. ASSUME UNCHANGED cacheVars PROVE UNCHANGED Lru!lruVars
  BY <1>0 DEF cacheVars, Lru!lruVars, Recency
<1>1. ASSUME NEW r \in Roms, Initialize(r) PROVE Lru!LruNext
  BY <1>1, Emptied DEF Initialize, NewCache
<1>2. CASE InitializeFails
  BY <1>2, Emptied DEF InitializeFails, NewCache
<1>3. CASE InitializeTwice
  BY <1>0, <1>3 DEF InitializeTwice
<1>4. CASE Shutdown
  BY <1>0, <1>4 DEF Shutdown
<1>5. ASSUME NEW i \in Inputs, PlainStep(i) PROVE UNCHANGED Lru!lruVars
  BY <1>0, <1>5 DEF PlainStep
<1>6. ASSUME NEW s \in States, LoadUncompressed(s) PROVE UNCHANGED Lru!lruVars
  BY <1>0, <1>6 DEF LoadUncompressed
<1>7. ASSUME NEW n \in Limits, NEW ss \in Slops, ResetCache(n, ss) PROVE Lru!LruNext
  BY <1>7, Emptied DEF ResetCache, Resize
<1>8. CASE ResetCacheWithoutOne
  BY <1>0, <1>8 DEF ResetCacheWithoutOne
<1>9. ASSUME NEW i \in Inputs, CachingStepHit(i) PROVE Lru!LruNext
  <2>1. Lru!UseKnown(<<i, machine>>)
    BY <1>9, HitUses
  <2>2. <<i, machine>> \in Lru!Keys
    BY <1>9 DEF CachingStepHit, CacheInv, TypeOK, Keys, Lru!Keys
  <2> QED BY <2>1, <2>2 DEF Lru!LruNext
<1>10. ASSUME NEW i \in Inputs, CachingStepMiss(i) PROVE Lru!LruNext
  <2>1. Lru!UseNew(<<i, machine>>) /\ <<i, machine>> \in Keys
    BY <1>10, MissUses
  <2> QED BY <2>1 DEF Lru!LruNext, Keys, Lru!Keys
<1>11. ASSUME NEW i \in Inputs, CachingStepChecks(i) PROVE UNCHANGED Lru!lruVars
  BY <1>0, <1>11 DEF CachingStepChecks
<1>12. CASE Restart
  BY <1>12, Emptied DEF Restart
<1>13. CASE UNCHANGED vars
  BY <1>0, <1>13 DEF vars
<1> QED BY <1>1, <1>2, <1>3, <1>4, <1>5, <1>6, <1>7, <1>8, <1>9, <1>10, <1>11, <1>12, <1>13
        DEF Next, CachingStep

\* The cache implements a list in order of use, and a step through it, known
\* or not, uses its key: what MaybeResize erases by sequence numbers are the
\* keys at the front of that list.
THEOREM CacheImplementsLru == Spec => ImplementsLru
<1> DEFINE Uses == \A i \in Inputs :
             /\ CachingStepHit(i) => Lru!UseKnown(<<i, machine>>)
             /\ CachingStepMiss(i) => Lru!UseNew(<<i, machine>>)
<1>1. CacheInv => Uses
  BY HitUses, MissUses
<1>2. CacheInv /\ [Next]_vars => [Uses]_vars
  BY <1>1
<1>3. Spec => [][Uses]_vars
  <2> HIDE DEF Uses
  <2> QED BY <1>2, CacheInvariant, PTL DEF Spec
<1>4. Spec => Lru!LruSpec
  BY LruInitial, LruSteps, CacheInvariant, PTL DEF Spec, Lru!LruSpec
<1> QED BY <1>3, <1>4 DEF ImplementsLru

=============================================================================
