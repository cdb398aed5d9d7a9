------------------------------- MODULE Timeline -------------------------------
(***************************************************************************)
(* The frame timeline of the tastiness server (src/tastiness-main.cc): the *)
(* movie being edited, the savestates cached for its frames, and the       *)
(* commands that read and invalidate them.                                 *)
(*                                                                         *)
(* Every websocket command runs with gMutex held from its first line to    *)
(* its last, so each handler is one action.  A CHECK or abort() that fails *)
(* ends the process; the action Restart is the operator starting it again, *)
(* with every global at its initial value.                                 *)
(*                                                                         *)
(* The C++ vectors count from 0 and sequences from 1:                      *)
(*   gEmuStateTimeline[f] is timeline[f + 1], gInputTimeline[f] is         *)
(*   inputs[f + 1].                                                        *)
(***************************************************************************)
EXTENDS Emulator

CONSTANTS
  Movies,    \* the input sequences a client may send with setFrameInputs
  Frames     \* the frame numbers a client may ask for

ASSUME TimelineAssumption ==
  /\ Movies \subseteq Seq(Inputs)
  /\ Frames \subseteq Nat

VARIABLES
  alive,         \* the server process runs
  rom,           \* the ROM the emulator was initialized with
  initialState,  \* gEmuInitialState, NoState while it is empty
  timeline,      \* gEmuStateTimeline
  inputs,        \* gInputTimeline
  emulator,      \* the live state of the emulator, NoState before a ROM
  shown          \* the last frame sent to the browser

vars == <<alive, rom, initialState, timeline, inputs, emulator, shown>>

\* Nothing was sent since the server started.
NoFrame == [frame |-> 0, state |-> NoState]

-----------------------------------------------------------------------------
(* The helpers of the handlers. *)

\* getInputStateForFrame: frames past the end of the movie press nothing.
InputAt(f) == IF f < Len(inputs) THEN inputs[f + 1] ELSE NoInput

\* The state frame f starts from: the initial state, or the cached state of
\* frame f - 1.
StateBefore(f) == IF f = 0 THEN initialState ELSE timeline[f]

\* The inputs of the frames in front of "frame" that are not cached yet.
Missing(frame) ==
  [k \in 1..(frame - Len(timeline)) |-> InputAt(Len(timeline) + k - 1)]

\* emulateToFrame loads the last cached state and steps from it, caching a
\* state for every frame before "frame" ...
FilledTo(frame) ==
  LET after == Played(rom, StateBefore(Len(timeline)), Missing(frame))
  IN  IF frame <= Len(timeline)
      THEN timeline
      ELSE timeline \o [k \in 1..Len(Missing(frame)) |-> after[k]]

\* Mutant: the frame is stepped into from the last cached state.
SteppedIntoFromLast(frame) ==
  LET filled == FilledTo(frame)
  IN  Advance(rom, IF filled = <<>> THEN initialState ELSE filled[Len(filled)],
              InputAt(frame))

\* ... and then steps from the cached state of frame - 1 into "frame", whose
\* own state it does not cache.
SteppedInto(frame) ==
  LET preState == IF frame = 0 THEN initialState ELSE FilledTo(frame)[frame]
  IN  Advance(rom, preState, InputAt(frame))

\* The movie already has the input of index i that m sends.
Unchanged(m, i) == i <= Len(inputs) /\ inputs[i] = m[i]

\* Mutant: the state stepped with the first differing input is kept.
InvalidatesAfter(m, k) ==
  /\ \A i \in 1..Len(m) : i < k => Unchanged(m, i)
  /\ k < Len(timeline) => k # 0 /\ k <= Len(m) /\ ~Unchanged(m, k)

\* Mutant: inputs added behind the end of the movie invalidate nothing.
InvalidatesEditsOnly(m, k) ==
  LET Edited(i) == i <= Len(inputs) /\ inputs[i] # m[i]
  IN  /\ \A i \in 1..Len(m) : i <= k => ~Edited(i)
      /\ k < Len(timeline) => k < Len(m) /\ Edited(k + 1)

\* invalidateFromIndex, counted from 0, is k: the first input of m that is
\* new, or the number of cached states when there is none among them.
InvalidatesFrom(m, k) ==
  /\ \A i \in 1..Len(m) : i <= k => Unchanged(m, i)
  /\ k < Len(timeline) => k < Len(m) /\ ~Unchanged(m, k + 1)

-----------------------------------------------------------------------------
Init ==
  /\ alive = TRUE
  /\ rom = NoRom
  /\ initialState = NoState
  /\ timeline = <<>>
  /\ inputs = <<>>
  /\ emulator = NoState
  /\ shown = NoFrame

\* Mutant: the cache of the ROM before is kept.
OpenRomKeepingCache(r) ==
  /\ alive
  /\ rom' = r
  /\ initialState' = Boot[r]
  /\ emulator' = Boot[r]
  /\ UNCHANGED <<alive, timeline, inputs, shown>>

\* cmd_openRom: the movie survives, the cached states do not.
OpenRom(r) ==
  /\ alive
  /\ rom' = r
  /\ initialState' = Boot[r]
  /\ emulator' = Boot[r]
  /\ timeline' = <<>>
  /\ UNCHANGED <<alive, inputs, shown>>

\* cmd_setFrameInputs: the cached states from the first differing input on
\* are dropped.
SetFrameInputs(m) ==
  /\ alive
  /\ inputs' = m
  /\ \E k \in 0..Len(timeline) :
       /\ InvalidatesFrom(m, k)
       /\ timeline' = SubSeq(timeline, 1, k)
  /\ UNCHANGED <<alive, rom, initialState, emulator, shown>>

\* cmd_setRamBlackoutBytes: which bytes are left out of the RAM hash does not
\* matter here, but the handler clears the cache.
SetRamBlackoutBytes ==
  /\ alive
  /\ timeline' = <<>>
  /\ UNCHANGED <<alive, rom, initialState, inputs, emulator, shown>>

\* cmd_getFrame: answered only once a ROM is open.  The list of distinct next
\* nodes leaves the emulator one step further, under the last of all inputs.
GetFrame(frame) ==
  /\ alive
  /\ initialState # NoState
  /\ timeline' = FilledTo(frame)
  /\ shown' = [frame |-> frame, state |-> SteppedInto(frame)]
  /\ emulator' = Advance(rom, SteppedInto(frame), LastInput)
  /\ UNCHANGED <<alive, rom, initialState, inputs>>

\* cmd_initAStar emulates to the frame the search starts from.
InitAStar(frame) ==
  /\ alive
  /\ initialState # NoState
  /\ timeline' = FilledTo(frame)
  /\ emulator' = SteppedInto(frame)
  /\ UNCHANGED <<alive, rom, initialState, inputs, shown>>

\* cmd_initAStar has no check that a ROM is open: LoadUncompressed of the
\* empty initial state fails and aborts the server.
InitAStarWithoutRom ==
  /\ alive
  /\ initialState = NoState
  /\ alive' = FALSE
  /\ UNCHANGED <<rom, initialState, timeline, inputs, emulator, shown>>

Restart ==
  /\ ~alive
  /\ alive' = TRUE
  /\ rom' = NoRom
  /\ initialState' = NoState
  /\ timeline' = <<>>
  /\ inputs' = <<>>
  /\ emulator' = NoState
  /\ shown' = NoFrame

Next ==
  \/ \E r \in Roms : OpenRom(r)
  \/ \E m \in Movies : SetFrameInputs(m)
  \/ SetRamBlackoutBytes
  \/ \E f \in Frames : GetFrame(f)
  \/ \E f \in Frames : InitAStar(f)
  \/ InitAStarWithoutRom
  \/ Restart

Spec == Init /\ [][Next]_vars

-----------------------------------------------------------------------------
(* Properties. *)

\* Every variable has its type, and nothing is cached before a ROM is open.
TypeOK ==
  /\ alive \in BOOLEAN
  /\ rom \in Roms \cup {NoRom}
  /\ initialState \in States \cup {NoState}
  /\ initialState \in States => rom \in Roms
  /\ timeline \in Seq(States)
  /\ inputs \in Seq(Inputs)
  /\ emulator \in States \cup {NoState}
  /\ shown \in [frame : Nat, state : States \cup {NoState}]
  /\ timeline # <<>> => initialState \in States

\* The comment on the globals (lines 20-22): the cached state of frame i is
\* the cached state of frame i - 1 stepped with the movie's input for frame
\* i.  It holds of the frames the movie has an input for, over any sequence
\* of edits, cuts, frame requests and ROM changes: what cmd_setFrameInputs
\* keeps is what emulateToFrame may build on.
RecordedPrefixFaithful ==
  \A i \in 1..Len(timeline) :
    i <= Len(inputs) => timeline[i] = Advance(rom, StateBefore(i - 1), inputs[i])

\* Cached states past the end of the movie were still reached by playing
\* something: each is a step, under some input, from the one before it.
CachedByPlay ==
  \A i \in 1..Len(timeline) :
    \E x \in Inputs : timeline[i] = Advance(rom, StateBefore(i - 1), x)

\* A frame within the movie, or the first one after it, is shown exactly as
\* playing the movie from the loaded ROM gives it (cmd_getFrame), whatever
\* was cached when it was asked for.
ShowsTheMovie ==
  [][\A f \in Frames :
       GetFrame(f) /\ f <= Len(inputs) =>
         shown'.state = Played(rom, initialState,
                               [k \in 1..(f + 1) |-> InputAt(k - 1)])[f + 1]]_vars

\* The server implements the player: its cache is invisible, except in the
\* frames past the end of the movie.
Player == INSTANCE TasPlayer WITH
            cartridge <- rom, machine <- initialState, movie <- inputs, screen <- shown

ImplementsPlayer == Player!PlayerSpec

=============================================================================
