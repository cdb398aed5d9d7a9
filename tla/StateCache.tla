------------------------------ MODULE StateCache ------------------------------
(***************************************************************************)
(* The emulator library of src/emulator.cc as its callers drive it: the    *)
(* singleton's life cycle (Initialize, Shutdown), plain steps, and the     *)
(* cache of steps behind CachingStep with its eviction of the least        *)
(* recently used entries.                                                  *)
(*                                                                         *)
(* A cache entry is found under its input and starting state, compared by  *)
(* value, and holds the sequence number of its last use and the resulting  *)
(* state.  The statistics (hits, misses) are left out.                     *)
(***************************************************************************)
EXTENDS Emulator, FiniteSets, SequencesExt

CONSTANTS
  Limits,       \* numstates a caller passes to ResetCache
  Slops,        \* slop a caller passes to ResetCache
  DefaultSlop,  \* slop of a cache nobody has reset, 10000 in the program
  MaxSequence   \* bound: the sequence numbers handed out by one cache

ASSUME StateCacheAssumption ==
  /\ Limits \subseteq Nat
  /\ Slops \subseteq Nat
  /\ DefaultSlop \in Nat
  /\ MaxSequence \in Nat

VARIABLES
  failed,        \* what ended the process, Fine while it runs
  initialized,   \* the flag of Initialize and Shutdown
  rom,           \* the game that is loaded, NoRom without one
  machine,       \* the live state of the emulator, NoState without a game
  hasCache,      \* the pointer "cache" is not NULL
  hashtable,     \* the entries, a function on the keys that are present
  limit,         \* number of entries an eviction leaves
  slop,          \* entries allowed over the limit before an eviction
  count,         \* the cache's own count of its entries
  nextSequence   \* next_sequence

cacheVars == <<hasCache, hashtable, limit, slop, count, nextSequence>>
vars == <<failed, initialized, rom, machine, cacheVars>>

\* The abort() of Initialize and the CHECKs of ResetCache and MaybeResize.
Fine == "fine"
AlreadyInitialized == "already initialized"
NoCache == "cache != NULL"
NothingLeft == "num_to_remove < all_sequences.size()"

Keys == Inputs \X States

Entry == [sequence : Nat, result : States]

NoEntries == [k \in {} |-> NoState]

Present == DOMAIN hashtable

-----------------------------------------------------------------------------
(* The methods of StateCache. *)

\* The constructor: limit and count are 0, slop is the default.
NewCache ==
  /\ hasCache' = TRUE
  /\ hashtable' = NoEntries
  /\ limit' = 0
  /\ slop' = DefaultSlop
  /\ count' = 0
  /\ nextSequence' = 0

\* Resize deletes every entry and restarts the sequence numbers.
Resize(numstates, ss) ==
  /\ hashtable' = NoEntries
  /\ limit' = numstates
  /\ slop' = ss
  /\ count' = 0
  /\ nextSequence' = 0
  /\ UNCHANGED hasCache

\* Mutant: a use does not renew the entry, the oldest one goes first.
NotTouched(table, key, sequence) == table

\* GetKnownResult of a key that is present makes it the most recently used.
Touched(table, key, sequence) == [table EXCEPT ![key].sequence = sequence]

\* all_sequences[n] after the sort: n entries of the table are older.
OlderThan(table, sequence) == {k \in DOMAIN table : table[k].sequence < sequence}

NthSequence(table, n) ==
  CHOOSE q \in {table[k].sequence : k \in DOMAIN table} :
    Cardinality(OlderThan(table, q)) = n

\* Mutant: minseq is taken from all_sequences[num_to_remove - 1].
EvictedOneLess(table, n) ==
  IF n = 0 THEN {} ELSE OlderThan(table, NthSequence(table, n - 1))

\* The entries MaybeResize erases when it removes the n oldest ones.
Evicted(table, n) == OlderThan(table, NthSequence(table, n))

Without(table, keys) == [k \in DOMAIN table \ keys |-> table[k]]

\* Remember: the table with the result of key in it, before any eviction.
With(table, key, sequence, result) ==
  [k \in DOMAIN table \cup {key} |->
     IF k = key THEN [sequence |-> sequence, result |-> result] ELSE table[k]]

\* Mutant: MaybeResize erases entries but does not count them off.
CountAfterGrowing(gone) == count + 1

\* count++ of Remember and a count-- for each entry MaybeResize erases.
CountAfter(gone) == count + 1 - Cardinality(gone)

-----------------------------------------------------------------------------
Init ==
  /\ failed = Fine
  /\ initialized = FALSE
  /\ rom = NoRom
  /\ machine = NoState
  /\ hasCache = FALSE
  /\ hashtable = NoEntries
  /\ limit = 0
  /\ slop = 0
  /\ count = 0
  /\ nextSequence = 0

\* Initialize makes a cache of its own every time, so the limits of an
\* earlier ResetCache are gone after Shutdown and Initialize.
Initialize(r) ==
  /\ failed = Fine
  /\ ~initialized
  /\ NewCache
  /\ rom' = r
  /\ machine' = Boot[r]
  /\ initialized' = TRUE
  /\ UNCHANGED failed

\* Initialize with a file that is no ROM: LoadGame has closed the old game
\* and returns 0, the new cache stays.
InitializeFails ==
  /\ failed = Fine
  /\ ~initialized
  /\ NewCache
  /\ rom' = NoRom
  /\ machine' = NoState
  /\ UNCHANGED <<failed, initialized>>

\* "Already initialized."
InitializeTwice ==
  /\ failed = Fine
  /\ initialized
  /\ failed' = AlreadyInitialized
  /\ UNCHANGED <<initialized, rom, machine, cacheVars>>

\* Shutdown closes the game; the cache is left as it is.
Shutdown ==
  /\ failed = Fine
  /\ rom' = NoRom
  /\ machine' = NoState
  /\ initialized' = FALSE
  /\ UNCHANGED <<failed, cacheVars>>

\* A caller steps the machine without the cache.
PlainStep(i) ==
  /\ failed = Fine
  /\ machine # NoState
  /\ machine' = Advance(rom, machine, i)
  /\ UNCHANGED <<failed, initialized, rom, cacheVars>>

\* A caller goes back to a state it saved.
LoadUncompressed(s) ==
  /\ failed = Fine
  /\ machine # NoState
  /\ machine' = s
  /\ UNCHANGED <<failed, initialized, rom, cacheVars>>

ResetCache(numstates, ss) ==
  /\ failed = Fine
  /\ hasCache
  /\ Resize(numstates, ss)
  /\ UNCHANGED <<failed, initialized, rom, machine>>

\* CHECK(cache != NULL) of ResetCache, before the first Initialize.
ResetCacheWithoutOne ==
  /\ failed = Fine
  /\ ~hasCache
  /\ failed' = NoCache
  /\ UNCHANGED <<initialized, rom, machine, cacheVars>>

\* CachingStep of a step that is known.
CachingStepHit(i) ==
  /\ failed = Fine
  /\ machine # NoState
  /\ nextSequence < MaxSequence
  /\ <<i, machine>> \in Present
  /\ machine' = hashtable[<<i, machine>>].result
  /\ hashtable' = Touched(hashtable, <<i, machine>>, nextSequence)
  /\ nextSequence' = nextSequence + 1
  /\ UNCHANGED <<failed, initialized, rom, hasCache, limit, slop, count>>

\* CachingStep of a step that is not known.  The call of Step is commented
\* out, so the result saved is the state the step starts from.  MaybeResize
\* erases down to the limit when the slop is exceeded; the CHECK that follows
\* looks the new entry up and makes it the most recently used once more.
CachingStepMiss(i) ==
  LET key    == <<i, machine>>
      table  == With(hashtable, key, nextSequence, machine)
      excess == (count + 1) - limit
      gone   == IF count + 1 > limit + slop THEN Evicted(table, excess) ELSE {}
  IN  /\ failed = Fine
      /\ machine # NoState
      /\ nextSequence + 1 < MaxSequence
      /\ key \notin Present
      /\ count + 1 > limit + slop => excess < Cardinality(DOMAIN table)
      /\ hashtable' = Touched(Without(table, gone), key, nextSequence + 1)
      /\ count' = CountAfter(gone)
      /\ nextSequence' = nextSequence + 2
      /\ UNCHANGED <<failed, initialized, rom, machine, hasCache, limit, slop>>

\* Mutant: the CHECK leaves no room for the last entry.
CachingStepChecksEarly(i) ==
  LET excess == (count + 1) - limit
  IN  /\ failed = Fine
      /\ machine # NoState
      /\ <<i, machine>> \notin Present
      /\ count + 1 > limit + slop
      /\ ~ (excess < Cardinality(Present))
      /\ failed' = NothingLeft
      /\ UNCHANGED <<initialized, rom, machine, cacheVars>>

\* CHECK(num_to_remove < all_sequences.size()) of MaybeResize, with the new
\* entry already counted in both.
CachingStepChecks(i) ==
  LET excess == (count + 1) - limit
  IN  /\ failed = Fine
      /\ machine # NoState
      /\ <<i, machine>> \notin Present
      /\ count + 1 > limit + slop
      /\ ~ (excess < Cardinality(Present) + 1)
      /\ failed' = NothingLeft
      /\ UNCHANGED <<initialized, rom, machine, cacheVars>>

CachingStep(i) == CachingStepHit(i) \/ CachingStepMiss(i) \/ CachingStepChecks(i)

\* The process is started again.
Restart ==
  /\ failed # Fine
  /\ failed' = Fine
  /\ initialized' = FALSE
  /\ rom' = NoRom
  /\ machine' = NoState
  /\ hasCache' = FALSE
  /\ hashtable' = NoEntries
  /\ limit' = 0
  /\ slop' = 0
  /\ count' = 0
  /\ nextSequence' = 0

Next ==
  \/ \E r \in Roms : Initialize(r)
  \/ InitializeFails
  \/ InitializeTwice
  \/ Shutdown
  \/ \E i \in Inputs : PlainStep(i)
  \/ \E s \in States : LoadUncompressed(s)
  \/ \E n \in Limits, ss \in Slops : ResetCache(n, ss)
  \/ ResetCacheWithoutOne
  \/ \E i \in Inputs : CachingStep(i)
  \/ Restart

Spec == Init /\ [][Next]_vars

-----------------------------------------------------------------------------
(* Properties. *)

TypeOK ==
  /\ failed \in {Fine, AlreadyInitialized, NoCache, NothingLeft}
  /\ initialized \in BOOLEAN
  /\ rom \in Roms \cup {NoRom}
  /\ machine \in States \cup {NoState}
  /\ machine \in States => rom \in Roms
  /\ hasCache \in BOOLEAN
  /\ Present \subseteq Keys
  /\ hashtable \in [Present -> Entry]
  /\ limit \in Nat
  /\ slop \in Nat
  /\ count \in Nat
  /\ nextSequence \in Nat
  /\ initialized => hasCache /\ machine \in States

\* The count kept by hand, up in Remember, down in MaybeResize and to 0 in
\* Resize, is the number of entries in the hash table.
CountExact == IsFiniteSet(Present) /\ count = Cardinality(Present)

\* No two entries share a sequence number and none has one that is still to
\* be handed out.  MaybeResize counts on it: it removes what is below the
\* n-th sequence, which are n entries only when no two are equal.
SequencesDistinct ==
  /\ \A k \in Present : hashtable[k].sequence < nextSequence
  /\ \A j, k \in Present :
       hashtable[j].sequence = hashtable[k].sequence => j = k

\* emulator.h, ResetCache: "The number of actual states stored can exceed
\* numstates by a constant amount called slop."
WithinSlop == Cardinality(Present) <= limit + slop

\* The CHECK of MaybeResize only ever fails in a cache whose limit is 0, as
\* the constructor leaves it and ResetCache(0, _) sets it.
ChecksOnlyUnlimited == failed = NothingLeft => limit = 0

\* The keys of a table, the least recently used one first: the one at place n
\* has n - 1 that are older.
InOrder(table) ==
  [n \in 1..Cardinality(DOMAIN table) |->
     CHOOSE k \in DOMAIN table :
       Cardinality(OlderThan(table, table[k].sequence)) = n - 1]

Recency == InOrder(hashtable)

\* Sequence numbers and their sorting implement a list in order of use, and
\* every cached step is a use of its key: the entries that are evicted are the
\* ones that were stepped least recently, not the ones that are the oldest.
Lru == INSTANCE LruCache WITH recent <- Recency

ImplementsLru ==
  /\ Lru!LruSpec
  /\ [][\A i \in Inputs :
          /\ CachingStepHit(i) => Lru!UseKnown(<<i, machine>>)
          /\ CachingStepMiss(i) => Lru!UseNew(<<i, machine>>)]_vars

=============================================================================
