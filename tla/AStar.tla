-------------------------------- MODULE AStar --------------------------------
(***************************************************************************)
(* The A* search of the tastiness server (struct AStar and the commands    *)
(* cmd_initAStar and cmd_workAStar of src/tastiness-main.cc), with the     *)
(* commands that change what it depends on while it is under way: the ROM, *)
(* the RAM bytes left out of the hash and the Lua code of the heuristic.   *)
(*                                                                         *)
(* Two states are the same node when the hashes of their RAM are equal.    *)
(* The RAM is not the whole machine, so different states may share a hash, *)
(* and the hash depends on gRamBlackoutBytes, so one state may have        *)
(* several hashes in the course of a search.                               *)
(*                                                                         *)
(* cmd_workAStar runs work1 many times and then reports, all under gMutex: *)
(* it is a Begin step, one step per work1 and a Report step, and nothing   *)
(* else happens while it is busy.                                          *)
(***************************************************************************)
EXTENDS Emulator, Integers, FiniteSets

CONSTANTS
  Blackouts,    \* values of gRamBlackoutBytes
  NoBlackout,   \* the empty list of bytes
  LuaSources,   \* Lua programs
  NoLua,        \* no program was sent: every heuristic is 1e6
  Hashes,       \* 64-bit hashes of the RAM
  NoHash,       \* the 0 that hashParents gives for an unknown hash
  RamHash,      \* RamHash[<<s, b>>]: the hash of state s without the bytes b
  Heuristic,    \* Heuristic[<<l, s>>]: what program l passes to setAStar
  StartStates,  \* StartStates[r]: the frames of ROM r a search starts from
  Rounds        \* work1 calls of one workAStar, 100 in the program

ASSUME AStarAssumption ==
  /\ Inputs \subseteq Nat /\ IsFiniteSet(Inputs)
  /\ NoBlackout \in Blackouts
  /\ NoLua \in LuaSources
  /\ NoHash \notin Hashes
  /\ RamHash \in [States \X Blackouts -> Hashes]
  /\ Heuristic \in [LuaSources \X States -> Int]
  /\ StartStates \in [Roms -> SUBSET States]
  /\ Rounds \in Nat

VARIABLES
  failed,         \* the CHECK or undefined behaviour that ended the process
  rom,            \* the ROM that is loaded
  blackout,       \* gRamBlackoutBytes
  lua,            \* the program behind LuaFrameFunc
  hasSearch,      \* gAStar is not NULL
  startEmuState,
  nodesByHash,
  queue,          \* the hashes in openHashPriorities
  openHashes,
  closedHashes,
  hashParents,
  busy,           \* cmd_workAStar holds gMutex
  rounds,         \* work1 calls it has still to make
  bestPath,       \* pathToBestNode of the last status sent
  mixed           \* history: ROM or blackout changed since initAStar

envVars == <<rom, blackout, lua>>
searchVars == <<hasSearch, startEmuState, nodesByHash, queue, openHashes,
                closedHashes, hashParents>>
workVars == <<busy, rounds, bestPath>>
vars == <<failed, envVars, searchVars, workVars, mixed>>

\* What ended the process.
Fine == "fine"
GoalReached == "handle goal complete"
Refound == "handle re-finding node in the closed set"
ParentNotFound == "parent hash not found"
InputNotFound == "could not find inputState"
NoSearch == "gAStar is NULL"

Empty == [h \in {} |-> NoHash]

-----------------------------------------------------------------------------
(* The methods of AStar. *)

\* The hashes that have a node.
Known == DOMAIN nodesByHash

Hash(s) == RamHash[<<s, blackout>>]

\* The hash after one step from s with input i.
HashAfter(s, i) == Hash(Advance(rom, s, i))

Least(inputs) == CHOOSE i \in inputs : \A j \in inputs : i <= j

\* The inputs that lead from s to a state with hash h; both work1 and
\* getInputStatePath take the first one.
Leading(s, h) == {i \in Inputs : HashAfter(s, i) = h}

\* Node.v(): cost from the start and estimated cost to the goal.
V(h) == nodesByHash[h].f + nodesByHash[h].g

\* openHashPriorities.top(): any of the open nodes with the least v, the heap
\* decides between equal ones.
Best(h) == h \in queue /\ \A o \in queue : V(h) <= V(o)

\* addCurrentEmulatorStateAsNewNode, the node it makes of state s.
NewNode(s, g) == [emuState |-> s, f |-> Heuristic[<<lua, s>>], g |-> g]

\* work1 closes the node of hash h: what is open and what is closed then.
StillOpenWithoutErase(h) == openHashes
StillOpen(h) == openHashes \ {h}
NowClosedWithoutInsert(h) == closedHashes
NowClosed(h) == closedHashes \cup {h}

\* The hashes its inputs lead to that are not open, each with the state of the
\* first input that leads to it.
Found(h) == {HashAfter(nodesByHash[h].emuState, i) : i \in Inputs} \ StillOpen(h)

StateFoundBeforeStep(h, new) == nodesByHash[h].emuState
StateFound(h, new) ==
  LET s == nodesByHash[h].emuState IN Advance(rom, s, Least(Leading(s, new)))

\* The inputs at which the loop of work1 ends in a failed CHECK: they lead to
\* a closed node, or to a new one with a negative heuristic.
StoppingAtGoalOnly(h) ==
  {i \in Inputs :
     LET new == HashAfter(nodesByHash[h].emuState, i)
     IN  /\ new \notin StillOpen(h)
         /\ new \notin NowClosed(h)
         /\ Heuristic[<<lua, StateFound(h, new)>>] < 0}
Stopping(h) ==
  {i \in Inputs :
     LET new == HashAfter(nodesByHash[h].emuState, i)
     IN  /\ new \notin StillOpen(h)
         /\ \/ new \in NowClosed(h)
            \/ Heuristic[<<lua, StateFound(h, new)>>] < 0}

\* What hashParents[h] gives, 0 for a hash without a parent.
Parent == [h \in Hashes \cup {NoHash} |->
             IF h \in DOMAIN hashParents THEN hashParents[h] ELSE NoHash]

\* getInputStatePath, first loop: the hashes met on the way up from h, k
\* parents up at index k.
Ancestors(h) ==
  LET up[k \in 0..Cardinality(Known)] ==
        IF k = 0 THEN h ELSE Parent[up[k - 1]]
  IN  up

\* The number of parents between h and the start, whose hash is taken anew.
Distances(h) ==
  LET up == Ancestors(h)
  IN  {k \in DOMAIN up : /\ up[k] = Hash(startEmuState)
                         /\ \A j \in 0..(k - 1) : up[j] # Hash(startEmuState)}

\* The hashes from the one after the start down to h, if there is a way up.
HashPathsWithStart(h) ==
  LET up == Ancestors(h)
  IN  {[k \in 1..(d + 1) |-> up[d + 1 - k]] : d \in Distances(h)}
HashPaths(h) ==
  LET up == Ancestors(h)
  IN  {[k \in 1..d |-> up[d - k]] : d \in Distances(h)}

\* One round of the second loop: from state s to a state of hash h, NoState
\* when no input leads there.
StepTo(h) ==
  [s \in States \cup {NoState} |->
     IF s = NoState \/ Leading(s, h) = {} THEN NoState
     ELSE Advance(rom, s, Least(Leading(s, h)))]

\* Second loop: the states met while the path is walked down again.
Replay(path) ==
  LET at[k \in 0..Len(path)] ==
        IF k = 0 THEN startEmuState ELSE StepTo(path[k])[at[k - 1]]
  IN  at

\* The inputs that are pushed on the way.
InputsAlongBackwards(path) ==
  LET at == Replay(path)
  IN  [k \in 1..Len(path) |->
         LET j == Len(path) + 1 - k IN Least(Leading(at[j - 1], path[j]))]
InputsAlong(path) ==
  LET at == Replay(path)
  IN  [k \in 1..Len(path) |-> Least(Leading(at[k - 1], path[k]))]

-----------------------------------------------------------------------------
Init ==
  /\ failed = Fine
  /\ rom = NoRom
  /\ blackout = NoBlackout
  /\ lua = NoLua
  /\ hasSearch = FALSE
  /\ startEmuState = NoState
  /\ nodesByHash = Empty
  /\ queue = {}
  /\ openHashes = {}
  /\ closedHashes = {}
  /\ hashParents = Empty
  /\ busy = FALSE
  /\ rounds = 0
  /\ bestPath = <<>>
  /\ mixed = FALSE

\* No command runs and the process does.
Idle == failed = Fine /\ ~busy

\* cmd_openRom leaves gAStar alone.
OpenRom(r) ==
  /\ Idle
  /\ rom' = r
  /\ mixed' = (mixed \/ (hasSearch /\ r # rom))
  /\ UNCHANGED <<failed, blackout, lua, searchVars, workVars>>

\* cmd_setRamBlackoutBytes clears the timeline and leaves gAStar alone.
SetRamBlackoutBytes(b) ==
  /\ Idle
  /\ blackout' = b
  /\ mixed' = (mixed \/ (hasSearch /\ b # blackout))
  /\ UNCHANGED <<failed, rom, lua, searchVars, workVars>>

\* cmd_setLuaSource: later nodes get their heuristic from the new program.
SetLuaSource(l) ==
  /\ Idle
  /\ lua' = l
  /\ UNCHANGED <<failed, rom, blackout, searchVars, workVars, mixed>>

\* cmd_initAStar, once the emulator stands on the frame: a new search whose
\* only node is the start.
InitAStar ==
  /\ Idle
  /\ rom # NoRom
  /\ \E s \in StartStates[rom] :
       /\ Heuristic[<<lua, s>>] >= 0
       /\ startEmuState' = s
       /\ nodesByHash' = [h \in {Hash(s)} |-> NewNode(s, 0)]
       /\ queue' = {Hash(s)}
       /\ openHashes' = {Hash(s)}
  /\ hasSearch' = TRUE
  /\ closedHashes' = {}
  /\ hashParents' = Empty
  /\ mixed' = FALSE
  /\ UNCHANGED <<failed, envVars, workVars>>

\* The goal is where the search would start.
InitAStarAtGoal ==
  /\ Idle
  /\ rom # NoRom
  /\ \E s \in StartStates[rom] : Heuristic[<<lua, s>>] < 0
  /\ failed' = GoalReached
  /\ UNCHANGED <<envVars, searchVars, workVars, mixed>>

\* cmd_workAStar takes the mutex ...
BeginWork ==
  /\ Idle
  /\ hasSearch
  /\ busy' = TRUE
  /\ rounds' = Rounds
  /\ UNCHANGED <<failed, envVars, searchVars, bestPath, mixed>>

\* ... or dereferences a search that was never started.
BeginWorkWithoutSearch ==
  /\ Idle
  /\ ~hasSearch
  /\ failed' = NoSearch
  /\ UNCHANGED <<envVars, searchVars, workVars, mixed>>

\* work1: the best open node is closed and the states its inputs lead to are
\* opened, except those that are open already.
Work1 ==
  /\ failed = Fine /\ busy /\ rounds > 0
  /\ \E h \in queue :
       /\ Best(h)
       /\ Stopping(h) = {}
       /\ LET new == Found(h)
          IN  /\ queue' = (queue \ {h}) \cup new
              /\ openHashes' = StillOpen(h) \cup new
              /\ nodesByHash' =
                   [n \in Known \cup new |->
                      IF n \in Known THEN nodesByHash[n]
                      ELSE NewNode(StateFound(h, n), nodesByHash[h].g + 1)]
              /\ hashParents' =
                   [n \in DOMAIN hashParents \cup new |->
                      IF n \in new THEN h ELSE hashParents[n]]
       /\ closedHashes' = NowClosed(h)
  /\ rounds' = rounds - 1
  /\ UNCHANGED <<failed, envVars, hasSearch, startEmuState, busy, bestPath, mixed>>

\* work1 runs into a CHECK: a closed node is found again, or a state whose
\* heuristic is negative, whichever the loop over the inputs meets first.
Work1Checks ==
  /\ failed = Fine /\ busy /\ rounds > 0
  /\ \E h \in queue :
       /\ Best(h)
       /\ Stopping(h) # {}
       /\ failed' =
            IF HashAfter(nodesByHash[h].emuState, Least(Stopping(h))) \in NowClosed(h)
            THEN Refound ELSE GoalReached
  /\ UNCHANGED <<envVars, searchVars, workVars, mixed>>

\* getStatus, sent to the browser; the mutex is released.
Report ==
  /\ failed = Fine /\ busy /\ rounds = 0
  /\ \E h \in queue :
       /\ Best(h)
       /\ \E path \in HashPaths(h) :
            /\ Replay(path)[Len(path)] # NoState
            /\ bestPath' = InputsAlong(path)
  /\ busy' = FALSE
  /\ UNCHANGED <<failed, envVars, searchVars, rounds, mixed>>

\* Without its CHECK the walk up goes round 0, the parent of 0, for ever.
ReportWalksForever ==
  /\ failed = Fine /\ busy /\ rounds = 0
  /\ \E h \in queue : Best(h) /\ HashPaths(h) = {}
  /\ UNCHANGED vars

\* The CHECK of the walk up: an ancestor has no parent and is not the start.
ReportChecksParent ==
  /\ failed = Fine /\ busy /\ rounds = 0
  /\ \E h \in queue : Best(h) /\ HashPaths(h) = {}
  /\ failed' = ParentNotFound
  /\ UNCHANGED <<envVars, searchVars, workVars, mixed>>

\* The CHECK of the walk down: no input leads to the next hash.
ReportChecksInput ==
  /\ failed = Fine /\ busy /\ rounds = 0
  /\ \E h \in queue :
       /\ Best(h)
       /\ \E path \in HashPaths(h) : Replay(path)[Len(path)] = NoState
  /\ failed' = InputNotFound
  /\ UNCHANGED <<envVars, searchVars, workVars, mixed>>

ReportChecks == ReportChecksParent \/ ReportChecksInput

Restart ==
  /\ failed # Fine
  /\ failed' = Fine
  /\ rom' = NoRom
  /\ blackout' = NoBlackout
  /\ lua' = NoLua
  /\ hasSearch' = FALSE
  /\ startEmuState' = NoState
  /\ nodesByHash' = Empty
  /\ queue' = {}
  /\ openHashes' = {}
  /\ closedHashes' = {}
  /\ hashParents' = Empty
  /\ busy' = FALSE
  /\ rounds' = 0
  /\ bestPath' = <<>>
  /\ mixed' = FALSE

\* The steps of the command that holds the mutex.
Work == Work1 \/ Work1Checks \/ Report \/ ReportChecks

Next ==
  \/ \E r \in Roms : OpenRom(r)
  \/ \E b \in Blackouts : SetRamBlackoutBytes(b)
  \/ \E l \in LuaSources : SetLuaSource(l)
  \/ InitAStar
  \/ InitAStarAtGoal
  \/ BeginWork
  \/ BeginWorkWithoutSearch
  \/ Work
  \/ Restart

\* The thread that runs a command keeps running.
Fairness == WF_vars(Work)

Spec == Init /\ [][Next]_vars
FairSpec == Spec /\ Fairness

-----------------------------------------------------------------------------
(* Properties. *)

Node == [emuState : States, f : Int, g : Nat]

TypeOK ==
  /\ failed \in {Fine, GoalReached, Refound, ParentNotFound, InputNotFound,
                 NoSearch}
  /\ rom \in Roms \cup {NoRom}
  /\ blackout \in Blackouts
  /\ lua \in LuaSources
  /\ hasSearch \in BOOLEAN
  /\ startEmuState \in States \cup {NoState}
  /\ Known \subseteq Hashes
  /\ nodesByHash \in [Known -> Node]
  /\ DOMAIN hashParents \subseteq Known
  /\ hashParents \in [DOMAIN hashParents -> Known]
  /\ busy \in BOOLEAN
  /\ rounds \in 0..Rounds
  /\ bestPath \in Seq(Inputs)
  /\ mixed \in BOOLEAN
  /\ hasSearch => rom \in Roms /\ startEmuState \in States
  /\ ~hasSearch => Known = {} /\ ~busy

\* work1 and getStatus take the top of the queue without looking whether
\* there is one, 101 times in one command: a search never runs dry, because
\* a node none of whose inputs leads to an open node leads to a new one or
\* back to a closed one, which ends the process.
NeverRunsDry == hasSearch <=> queue # {}

\* A node is open or closed, never both, and is in the priority queue exactly
\* while it is open.
OpenOrClosed ==
  /\ openHashes \cap closedHashes = {}
  /\ openHashes \cup closedHashes = Known
  /\ queue = openHashes

\* Every node but the one the search started from has a parent, which is
\* closed and one step nearer to the start: the walk up from any node ends
\* at the start after as many steps as the node's g, whatever was changed
\* while the search was under way.
ParentsLeadToStart ==
  /\ DOMAIN hashParents = {h \in Known : nodesByHash[h].g > 0}
  /\ \A h \in DOMAIN hashParents :
       /\ hashParents[h] \in closedHashes
       /\ nodesByHash[h].g = nodesByHash[hashParents[h]].g + 1
  /\ \A h, o \in Known : nodesByHash[h].g = 0 /\ nodesByHash[o].g = 0 => h = o
  /\ \A h \in Known : nodesByHash[h].g = 0 => nodesByHash[h].emuState = startEmuState

\* The node of hash h is filed under the hash of its state, and its state is
\* the one the first input that leads to h gives from its parent's state.
IsStep(h) ==
  /\ Hash(nodesByHash[h].emuState) = h
  /\ h \in DOMAIN hashParents =>
       LET s == nodesByHash[hashParents[h]].emuState
       IN  /\ Leading(s, h) # {}
           /\ nodesByHash[h].emuState = Advance(rom, s, Least(Leading(s, h)))

\* As long as neither the ROM nor the blackout bytes were changed, every node
\* is a step from its parent, whatever hashes the states share: this is what
\* lets getInputStatePath find the inputs again from hashes alone.
NodesAreSteps == ~mixed => \A h \in Known : IsStep(h)

\* The CHECKs of getInputStatePath hold unless the ROM or the blackout bytes
\* were changed during the search.
PathChecksHold == failed \in {ParentNotFound, InputNotFound} => mixed

\* The inputs sent to the browser, which it writes into the movie, play from
\* the start to a best open node: to the very state kept for it, although
\* only hashes of the RAM were compared on the way.
PathReachesBest ==
  [][Report /\ ~mixed =>
       \E h \in queue :
         /\ Best(h)
         /\ Len(bestPath') = nodesByHash[h].g
         /\ Played(rom, startEmuState, bestPath')[Len(bestPath')]
              = nodesByHash[h].emuState]_vars

\* A workAStar command ends: with its answer or with the process.
WorkEnds == busy ~> (~busy \/ failed # Fine)

=============================================================================
