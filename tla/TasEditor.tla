------------------------------ MODULE TasEditor ------------------------------
(***************************************************************************)
(* The TAS editor of fceux (src/fceux/src/drivers/win/taseditor): a movie  *)
(* is edited while it plays.  The Greenzone holds a savestate for frames   *)
(* played, the LagLog which of them lagged, the History what to undo, and  *)
(* the Bookmarks copies of the movie with a savestate each.                *)
(*                                                                         *)
(* The window is one thread: an edit, a command of the history or the      *)
(* bookmarks and a frame that is emulated with the update after it are one *)
(* action each.  Pausing and seeking only decide whether frames are        *)
(* emulated, which they may be at any time; options may change in between. *)
(*                                                                         *)
(* The machine is the list of inputs it was given since it was switched    *)
(* on; its length is currFrameCounter, which savestates contain.           *)
(* Savestates load back.  Edits are of one frame at a time, of all joypads *)
(* at once, and draw no patterns; collecting savestates is on.  Markers,   *)
(* hot changes, the tree of branches and all that is only shown are left   *)
(* out.                                                                    *)
(***************************************************************************)
EXTENDS Integers, SequencesExt

CONSTANTS
  Inputs,      \* the buttons of a frame
  Blank,       \* no button
  Lagged(_),   \* whether a machine lagged in its last frame
  Imports,     \* the movies in files
  Slots,       \* the bookmarks
  NoState,     \* an empty savestate
  HistorySize, \* maxUndoLevels + 1
  MaxFrames,   \* bound on the movie and on the LagLog
  MaxEdits,    \* bound on the edits, recorded frames and bookmarks set
  MaxDeploys   \* bound on the bookmarks deployed

Frames == 0..MaxFrames
Positions == 0..HistorySize - 1
Movies == UNION {[1..n -> Inputs] : n \in Frames}

ASSUME TasEditorAssumption ==
  /\ Blank \in Inputs /\ NoState \notin Movies /\ Slots # {}
  /\ Imports \subseteq UNION {[1..n -> Inputs] : n \in 1..MaxFrames}
  /\ HistorySize \in Nat \ {0, 1}
  /\ MaxFrames \in Nat \ {0} /\ MaxEdits \in Nat /\ MaxDeploys \in Nat

VARIABLES
  ed,      \* the editor, the machine and the movie
  updated, \* whether updateTASEditor came after the last command
  edits,   \* how many edits, recorded frames and bookmarks set there were
  deploys

vars == <<ed, updated, edits, deploys>>

Lags == {"unknown", "lagged", "not"}
LagLogs == UNION {[1..n -> Lags] : n \in Frames}
Bookmarks ==
  [notEmpty : BOOLEAN, inputs : Movies, lagLog : LagLogs, keyFrame : Frames,
   savestate : Movies \cup {NoState}]
Snapshots ==
  [inputs : Movies, lagLog : LagLogs, kind : {"init", "edit", "set", "record", "bookmark"},
   tag : Frames, slot : Slots, backup : Bookmarks]
Editors ==
  [movie : Movies,                               \* currMovieData.records
   machine : Movies,
   savestates : [Frames -> Movies \cup {NoState}],
   greenzoneSize : 0..MaxFrames + 1,
   lagLog : LagLogs,
   snapshots : [Positions -> Snapshots],         \* the log, a ring
   start : Positions, cursor : Positions,        \* historyStartPos, historyCursorPos
   total : 1..HistorySize,                       \* historyTotalItems
   bookmarks : [Slots -> Bookmarks],
   past : Seq(Movies)]                           \* history: what undoing leads back to

Frame(e) == Len(e.machine)

-----------------------------------------------------------------------------
(* Movies: frame f is the record f + 1, and blank past the end. *)

At(movie, f) == IF f < Len(movie) THEN movie[f + 1] ELSE Blank
Played(movie, n) == [i \in 1..n |-> At(movie, i - 1)]
SameInput(a, b) == \A f \in Frames : At(a, f) = At(b, f)
Least(S) == IF S = {} THEN -1 ELSE CHOOSE f \in S : \A g \in S : f <= g

\* insertEmpty(-1, ...) in front of what needs the movie to have n records.
Padded(movie, n) == Played(movie, IF Len(movie) < n THEN n ELSE Len(movie))

\* Mutant: a movie that became shorter has not changed.
FirstChangeInBoth(mine, theirs, start, end) ==
  LET last == IF end < 0 \/ end >= Len(mine) THEN Len(mine) - 1 ELSE end
  IN Least({f \in start..last : At(mine, f) # At(theirs, f)})

\* INPUTLOG::findFirstChange between two snapshots: frames past the end of
\* theirs are blank, and a shorter one differs at its end.
FirstChange(mine, theirs, start, end) ==
  LET last == IF end < 0 \/ end >= Len(mine) THEN Len(mine) - 1 ELSE end
      differ == {f \in start..last : At(mine, f) # At(theirs, f)}
  IN IF differ # {} THEN Least(differ)
     ELSE IF Len(mine) < Len(theirs) THEN Len(mine) ELSE -1

\* INPUTLOG::findFirstChange between a snapshot and the movie.
FirstChangeOfMovie(mine, movie) ==
  LET both == IF Len(mine) < Len(movie) THEN Len(mine) ELSE Len(movie)
      differ == {f \in 0..both - 1 : At(mine, f) # At(movie, f)}
  IN IF differ # {} THEN Least(differ)
     ELSE IF Len(mine) # Len(movie) THEN both ELSE -1

LagAt(log, f) == IF f < Len(log) THEN log[f + 1] ELSE "unknown"

\* LAGLOG::findFirstChange: what both know, and know differently.
FirstLagChange(mine, theirs) ==
  Least({f \in Frames : {LagAt(mine, f), LagAt(theirs, f)} = {"lagged", "not"}})

\* The earlier one of two changes, if there are any.
Earlier(change, lagChange) ==
  IF lagChange >= 0 /\ (change > lagChange \/ change < 0) THEN lagChange ELSE change

\* LAGLOG::setLagInfo, and insertFrame past the end.
LagSet(log, f, lag) ==
  [i \in 1..(IF Len(log) <= f THEN f + 1 ELSE Len(log)) |->
     IF i = f + 1 THEN lag ELSE LagAt(log, i - 1)]

\* LAGLOG::insertFrame
LagInserted(log, f, lag) ==
  IF f < Len(log) THEN InsertAt(log, f + 1, lag) ELSE LagSet(log, f, lag)

\* LAGLOG::eraseFrame and MovieData::eraseRecords
Erased(seq, f, n) ==
  IF f < Len(seq) THEN SubSeq(seq, 1, f) \o SubSeq(seq, f + n + 1, Len(seq)) ELSE seq

\* MovieData::truncateAt and INPUTLOG::toMovie up to a frame.
Kept(movie, n) == SubSeq(movie, 1, IF n < Len(movie) THEN n ELSE Len(movie))

\* LAGLOG::invalidateFromFrame
LagInvalidated(log, f) == IF f >= 0 /\ f < Len(log) THEN SubSeq(log, 1, f) ELSE log

-----------------------------------------------------------------------------
(* The Greenzone and the Playback cursor. *)

Empty(e, f) == f >= e.greenzoneSize \/ e.savestates[f] = NoState

\* Mutant: the machine stays where it is, reloading forced or not.
AboveOrToUnforced(e, frame, forceStateReload) ==
  LET top == IF frame < e.greenzoneSize THEN frame ELSE e.greenzoneSize - 1
      here == IF Frame(e) <= top THEN {Frame(e)} ELSE {}
      near == {f \in 0..top : ~Empty(e, f)} \cup here
      nearest == CHOOSE f \in near : \A g \in near : g <= f
  IN IF near = {} THEN [e EXCEPT !.machine = <<>>]
     ELSE IF nearest \in here THEN e
     ELSE [e EXCEPT !.machine = e.savestates[nearest]]

\* PLAYBACK::setPlaybackAboveOrToFrame: the machine is taken to the nearest
\* savestate above, unless it is as near itself; without one it starts anew.
AboveOrTo(e, frame, forceStateReload) ==
  LET top == IF frame < e.greenzoneSize THEN frame ELSE e.greenzoneSize - 1
      here == IF ~forceStateReload /\ Frame(e) <= top THEN {Frame(e)} ELSE {}
      near == {f \in 0..top : ~Empty(e, f)} \cup here
      nearest == CHOOSE f \in near : \A g \in near : g <= f
  IN IF near = {}
     THEN [e EXCEPT !.machine = <<>>, !.movie = IF @ = <<>> THEN <<Blank>> ELSE @]
     ELSE IF nearest \in here THEN e
     ELSE [e EXCEPT !.machine = e.savestates[nearest]]

\* GREENZONE::invalidate
Invalidate(e, after) ==
  LET last == IF after >= Len(e.movie) THEN Len(e.movie) - 1 ELSE after
  IN IF after < 0 THEN e
     ELSE [e EXCEPT
             !.savestates = [f \in Frames |-> IF f > last THEN NoState ELSE @[f]],
             !.greenzoneSize = IF @ > last + 1 THEN last + 1 ELSE @]

\* Mutant: the cursor stays where it was.
InvalidateAndUpdatePlaybackNot(e, after) == Invalidate(e, after)

\* GREENZONE::invalidateAndUpdatePlayback: the cursor stays inside.
InvalidateAndUpdatePlayback(e, after) ==
  LET last == IF after >= Len(e.movie) THEN Len(e.movie) - 1 ELSE after
      shorter == [Invalidate(e, after) EXCEPT !.greenzoneSize = last + 1]
  IN IF after < 0 THEN e
     ELSE IF e.greenzoneSize <= last + 1 /\ Frame(e) <= last THEN Invalidate(e, after)
     ELSE IF Frame(e) >= last + 1 THEN AboveOrTo(shorter, last, FALSE)
     ELSE shorter

-----------------------------------------------------------------------------
(* The History. *)

RealPos(e, pos) == (e.start + pos) % HistorySize
SnapshotAt(e, pos) == e.snapshots[RealPos(e, pos)]
Current(e) == SnapshotAt(e, e.cursor)

NoBookmark ==
  [notEmpty |-> FALSE, inputs |-> <<>>, lagLog |-> <<>>, keyFrame |-> 0, savestate |-> NoState]

\* SNAPSHOT::init
Snapshot(e, kind, tag) ==
  [inputs |-> e.movie, lagLog |-> e.lagLog, kind |-> kind, tag |-> tag,
   slot |-> CHOOSE s \in Slots : TRUE, backup |-> NoBookmark]

\* The last n members of a sequence, and it without its last n.
Newest(seq, n) == SubSeq(seq, (IF n < Len(seq) THEN Len(seq) - n ELSE 0) + 1, Len(seq))
Without(seq, n) == SubSeq(seq, 1, IF n < Len(seq) THEN Len(seq) - n ELSE 0)

\* Mutant: a full ring keeps its start.
AddItemKeepsStart(e, snap) ==
  LET full == e.cursor + 2 >= HistorySize
      cursor == IF full THEN e.cursor ELSE e.cursor + 1
  IN [e EXCEPT !.cursor = cursor, !.total = cursor + 1,
               !.snapshots[(e.start + cursor) % HistorySize] = snap,
               !.past = Newest(Append(@, ed.movie), cursor)]

\* HISTORY::addItemToHistoryLog: what could be redone is gone; a full ring
\* loses its oldest item.
AddItem(e, snap) ==
  LET full == e.cursor + 2 >= HistorySize
      start == IF full THEN (e.start + 1) % HistorySize ELSE e.start
      cursor == IF full THEN e.cursor ELSE e.cursor + 1
  IN [e EXCEPT !.start = start, !.cursor = cursor, !.total = cursor + 1,
               !.snapshots[(start + cursor) % HistorySize] = snap,
               !.past = Newest(Append(@, ed.movie), cursor)]

\* HISTORY::addItemToHistoryLog of a bookmark.  A full log is not cut behind
\* the cursor: then nothing is promised of what undoing leads back to.
AddBookmarkItem(e, snap) ==
  LET full == e.total >= HistorySize
      start == IF full THEN (e.start + 1) % HistorySize ELSE e.start
      cursor == IF full THEN HistorySize - 1 ELSE e.cursor + 1
  IN [e EXCEPT !.start = start, !.cursor = cursor, !.total = cursor + 1,
               !.snapshots[(start + cursor) % HistorySize] = snap,
               !.past = IF full /\ e.cursor < HistorySize - 1 THEN <<>>
                        ELSE Newest(Append(@, ed.movie), cursor)]

\* A snapshot takes the place of the current one, and what could be redone is
\* gone if it goes on where that ended.
Replaced(e, snap, truncated) ==
  [e EXCEPT !.snapshots[RealPos(e, e.cursor)] = snap,
            !.total = IF truncated THEN e.cursor + 1 ELSE @]

\* HISTORY::registerChanges: the frame from which the Greenzone is no longer
\* true, and the editor with the change in its log.  Lag is compared where
\* frames were moved; drawing that continues joins the drawing before it.
RegisterChanges(e, kind, start, end, continued) ==
  LET change == FirstChange(e.movie, Current(e).inputs, start, end)
      lagChange == IF end = -1 THEN FirstLagChange(e.lagLog, Current(e).lagLog) ELSE -1
  IN [first |-> Earlier(change, lagChange),
      ed |-> IF change < 0 THEN e
             ELSE IF continued THEN Replaced(e, Snapshot(e, kind, 0), TRUE)
             ELSE AddItem(e, Snapshot(e, kind, 0))]

\* Mutant: an adjustment is not logged.
RegisterAdjustLagNot(e, start) ==
  [first |-> FirstChange(e.movie, Current(e).inputs, start, -1), ed |-> e]

\* HISTORY::registerAdjustLag
RegisterAdjustLag(e, start) ==
  LET change == FirstChange(e.movie, Current(e).inputs, start, -1)
      snap == [Current(e) EXCEPT !.inputs = e.movie, !.lagLog = e.lagLog]
  IN [first |-> change, ed |-> IF change < 0 THEN e ELSE Replaced(e, snap, FALSE)]

\* HISTORY::registerRecording: consecutive frames are one item.
RegisterRecording(e, frame) ==
  LET current == Current(e)
      joined == [Snapshot(e, "record", frame) EXCEPT
                   !.inputs = [Played(current.inputs, Len(e.movie)) EXCEPT
                                 ![frame + 1] = At(e.movie, frame)]]
  IN IF current.kind = "record" /\ current.tag = frame - 1
     THEN Replaced(e, joined, TRUE)
     ELSE AddItem(e, Snapshot(e, "record", frame))

\* A LagLog is taken over, unless it is the beginning of the one there is,
\* which then is cut where the timeline changes, if it does.
LagReverted(log, saved, change) ==
  LET lagChange == FirstLagChange(log, saved)
  IN IF lagChange < 0 /\ Len(log) > Len(saved)
     THEN [first |-> change, lagLog |-> LagInvalidated(log, change)]
     ELSE [first |-> lagChange, lagLog |-> saved]

\* The bookmark an item is about changes places with the one it replaced.
Swapped(e, pos) ==
  LET item == SnapshotAt(e, pos)
  IN IF item.kind # "bookmark" THEN e
     ELSE [e EXCEPT !.bookmarks[item.slot] = item.backup,
                    !.snapshots[RealPos(e, pos)].backup = e.bookmarks[item.slot]]

\* The bookmarks of the items passed, one after the other.
SwappedAll(e, items) ==
  LET after[n \in 0..Len(items)] ==
        IF n = 0 THEN e ELSE Swapped(after[n - 1], items[n])
  IN after[Len(items)]

\* HISTORY::jumpInTime to another item of the log.
JumpInTime(e, pos) ==
  LET undo == pos < e.cursor
      items == IF undo THEN [i \in 1..(e.cursor - pos) |-> e.cursor + 1 - i]
               ELSE [i \in 1..(pos - e.cursor) |-> e.cursor + i]
      swapped == SwappedAll(e, items)
      snap == SnapshotAt(e, pos)
      change == FirstChangeOfMovie(snap.inputs, e.movie)
      lags == LagReverted(e.lagLog, snap.lagLog, change)
  IN [first |-> Earlier(change, lags.first),
      ed |-> [swapped EXCEPT
                !.cursor = pos,
                !.movie = IF change >= 0 THEN snap.inputs ELSE @,
                !.lagLog = lags.lagLog,
                !.past = IF undo THEN Without(@, Len(items))
                         ELSE @ \o [i \in 1..Len(items) |->
                                      IF i = 1 THEN e.movie
                                      ELSE SnapshotAt(e, e.cursor + i - 1).inputs]]]

-----------------------------------------------------------------------------
(* What happens in every frame. *)

\* Mutant: only the end of the Greenzone is collected.
CollectedAtTheEnd(e) ==
  IF e.greenzoneSize > Frame(e) THEN e
  ELSE [e EXCEPT !.savestates[Frame(e)] = e.machine, !.greenzoneSize = Frame(e) + 1]

\* GREENZONE::collectCurrentState
Collected(e) ==
  [e EXCEPT !.savestates[Frame(e)] = IF @ = NoState THEN e.machine ELSE @,
            !.greenzoneSize = IF @ <= Frame(e) THEN Frame(e) + 1 ELSE @]

\* The end of adjustUp and adjustDown: when the input above the cursor, or
\* what is known of its lag, is not the same, the cursor is to go back there.
Adjusted(registered, back) ==
  LET e == registered.ed
      first == registered.first
  IN IF back \/ (first >= 0 /\ first < Frame(e))
     THEN LET shorter == Invalidate(e, first)
          IN AboveOrTo(shorter, shorter.greenzoneSize - 1, FALSE)
     ELSE Invalidate(e, Frame(e))

\* GREENZONE::adjustUp: the lag is gone, and the frames it took go too.
AdjustUp(e) ==
  LET above == Frame(e) - 1
      lag == {n \in Frames : \A f \in above..above + n - 1 : LagAt(e.lagLog, f) = "lagged"}
      gone == CHOOSE n \in lag : \A m \in lag : m <= n
      log == Erased(e.lagLog, above, gone)
      erased == [e EXCEPT !.movie = Padded(Erased(@, above, gone), Frame(e) + 1),
                          !.lagLog = log]
  IN Adjusted(RegisterAdjustLag(erased, above), LagAt(log, above) # "not")

\* GREENZONE::adjustDown: there is lag where none was, and takes a frame.
AdjustDown(e) ==
  LET above == Frame(e) - 1
      cloned == [e EXCEPT !.movie = InsertAt(@, above + 1, At(@, above)),
                          !.lagLog = LagInserted(@, above, "lagged")]
  IN Adjusted(RegisterAdjustLag(cloned, above), FALSE)

\* GREENZONE::update, with or without adjusting the movie to its lag.
Updated(e, autoAdjust) ==
  LET c == Collected(e)
      old == LagAt(c.lagLog, Frame(c) - 1)
      new == IF Lagged(c.machine) THEN "lagged" ELSE "not"
  IN IF Frame(c) = 0 \/ old = new THEN c
     ELSE IF ~autoAdjust \/ old = "unknown"
     THEN [c EXCEPT !.lagLog = LagSet(@, Frame(c) - 1, new)]
     ELSE IF old = "lagged" THEN AdjustUp(c) ELSE AdjustDown(c)

\* RECORDER::recordInput: what is held goes into the movie.
Recorded(e, input) ==
  LET old == At(Current(e).inputs, Frame(e))
      recorded == [e EXCEPT !.movie[Frame(e) + 1] = input]
  IN IF input = old THEN recorded
     ELSE Invalidate(RegisterRecording(recorded, Frame(e)), Frame(e))

\* FCEUMOV_AddInputState: the movie gets the frame after this one, and this
\* one is played.
Emulated(e, recording, input) ==
  LET padded == [e EXCEPT !.movie = Padded(@, Frame(e) + 2)]
      logged == IF recording THEN Recorded(padded, input) ELSE padded
  IN [logged EXCEPT !.machine = Append(@, logged.movie[Frame(e) + 1])]

-----------------------------------------------------------------------------
\* A new project, with its first item in the log (HISTORY::reset).
Init ==
  LET empty == [inputs |-> <<Blank>>, lagLog |-> <<>>, kind |-> "init", tag |-> 0,
                slot |-> CHOOSE s \in Slots : TRUE, backup |-> NoBookmark]
  IN /\ ed = [movie |-> <<Blank>>, machine |-> <<>>,
              savestates |-> [f \in Frames |-> NoState], greenzoneSize |-> 0,
              lagLog |-> <<>>, snapshots |-> [p \in Positions |-> empty],
              start |-> 0, cursor |-> 0, total |-> 1,
              bookmarks |-> [s \in Slots |-> NoBookmark], past |-> <<>>]
     /\ updated = FALSE
     /\ edits = 0 /\ deploys = 0

\* The new state, within the bounds.
Becomes(e) ==
  /\ Len(e.movie) <= MaxFrames /\ Len(e.lagLog) <= MaxFrames
  /\ ed' = e
Counted(n) == edits' = edits + n /\ edits' <= MaxEdits

\* A frame, and the update after it.  What is held matters while recording.
Emulate(recording, input, autoAdjust) ==
  /\ Frame(ed) + 2 <= MaxFrames
  /\ recording \/ input = Blank
  /\ Counted(IF recording THEN 1 ELSE 0)
  /\ Becomes(Updated(Emulated(ed, recording, input), autoAdjust)) /\ updated' = TRUE
  /\ UNCHANGED deploys

\* MovieData::cloneRegion needs the frame that adjustDown clones.  Deploying a
\* bookmark may leave the cursor further down: what comes of it is undefined.
Adjustable(e) == Frame(e) > Len(e.movie) => LagAt(e.lagLog, Frame(e) - 1) # "not"

\* updateTASEditor while the emulation is paused.
Update(autoAdjust) ==
  /\ autoAdjust => Adjustable(ed)
  /\ Becomes(Updated(ed, autoAdjust)) /\ updated' = TRUE
  /\ UNCHANGED <<edits, deploys>>

\* What an edit or another command of the user leaves before the next update.
Edit(e) == Counted(1) /\ Becomes(e) /\ updated' = FALSE /\ UNCHANGED deploys
Command(e) == Becomes(e) /\ updated' = FALSE /\ UNCHANGED <<edits, deploys>>

\* EDITOR::toggleInput, and drawing with the mouse; SPLICER::clearSelectedFrames
SetInput(f, input, continued) ==
  /\ f < Len(ed.movie) /\ input # ed.movie[f + 1]
  /\ continued => Current(ed).kind = "set"
  /\ LET r == RegisterChanges([ed EXCEPT !.movie[f + 1] = input], "set", f, f, continued)
     IN Edit(InvalidateAndUpdatePlayback(r.ed, r.first))

\* SPLICER::insertSelectedFrames and cloneSelectedFrames
InsertFrame(f, input) ==
  /\ f < Len(ed.movie) /\ input \in {Blank, ed.movie[f + 1]}
  /\ LET r == RegisterChanges([ed EXCEPT !.movie = InsertAt(@, f + 1, input),
                                         !.lagLog = LagInserted(@, f, "not")],
                              "edit", f, -1, FALSE)
     IN Edit(InvalidateAndUpdatePlayback(r.ed, r.first))

\* SPLICER::deleteSelectedFrames: without a frame left the machine restarts.
DeleteFrame(f) ==
  /\ f < Len(ed.movie)
  /\ LET movie == Erased(ed.movie, f, 1)
         deleted == [ed EXCEPT !.movie = IF movie = <<>> THEN <<Blank>> ELSE movie,
                               !.machine = IF movie = <<>> THEN <<>> ELSE @,
                               !.lagLog = Erased(@, f, 1)]
         r == RegisterChanges(deleted, "edit", f, -1, FALSE)
     IN Edit(InvalidateAndUpdatePlayback(r.ed,
                  IF r.first >= 0 THEN r.first ELSE Len(deleted.movie) - 1))

\* SPLICER::truncateMovie
TruncateMovie(f) ==
  /\ f + 1 < Len(ed.movie)
  /\ LET r == RegisterChanges([ed EXCEPT !.movie = SubSeq(@, 1, f + 1)],
                              "edit", f + 1, -1, FALSE)
     IN Edit(InvalidateAndUpdatePlayback(r.ed, IF r.first >= 0 THEN r.first ELSE f))

\* importInputData and HISTORY::registerImport: the movie of a file replaces
\* this one.
Import(movie) ==
  LET change == FirstChange(movie, Current(ed).inputs, 0, -1)
      imported == [AddItem(ed, [Snapshot(ed, "edit", 0) EXCEPT !.inputs = movie])
                     EXCEPT !.movie = movie]
  IN /\ change >= 0
     /\ Edit([InvalidateAndUpdatePlayback(imported, change) EXCEPT
                !.lagLog = LagInvalidated(@, change)])

\* Mutant: a redo that goes past the last item.
JumpPastTheLog(pos) ==
  /\ pos \in 0..ed.total /\ pos # ed.cursor
  /\ LET r == JumpInTime(ed, pos) IN Command(InvalidateAndUpdatePlayback(r.ed, r.first))

\* HISTORY::undo, redo, and a click into the list.
Jump(pos) ==
  /\ pos \in 0..ed.total - 1 /\ pos # ed.cursor
  /\ LET r == JumpInTime(ed, pos) IN Command(InvalidateAndUpdatePlayback(r.ed, r.first))

\* GREENZONE::ungreenzoneSelectedFrames and runGreenzoneCleaning
Ungreenzone(f) ==
  /\ ~Empty(ed, f)
  /\ Command([ed EXCEPT !.savestates[f] = NoState])

\* PLAYBACK::jump
MovePlayback(f, forceStateReload) ==
  /\ LET e == AboveOrTo(ed, f, forceStateReload) IN e # ed /\ Command(e)

\* BOOKMARK::isDifferentFromCurrentMovie
DiffersFromMovie(bookmark) ==
  ~(bookmark.notEmpty /\ bookmark.keyFrame = Frame(ed) /\ bookmark.inputs = ed.movie)

\* BOOKMARK::set
Bookmark(e) ==
  [notEmpty |-> TRUE, inputs |-> e.movie, lagLog |-> e.lagLog, keyFrame |-> Frame(e),
   savestate |-> e.savestates[Frame(e)]]

\* BOOKMARKS::set, which comes after the Greenzone's update.
SetBookmark(slot) ==
  /\ updated /\ DiffersFromMovie(ed.bookmarks[slot])
  /\ Counted(1)
  /\ Becomes(AddBookmarkItem([ed EXCEPT !.bookmarks[slot] = Bookmark(ed)],
                             [Snapshot(ed, "bookmark", 0) EXCEPT
                                !.slot = slot, !.backup = ed.bookmarks[slot]]))
  /\ UNCHANGED <<updated, deploys>>

\* HISTORY::registerBranching
RegisterBranching(e, slot) ==
  LET change == FirstChange(e.movie, Current(e).inputs, 0, -1)
      lags == LagReverted(e.lagLog, e.bookmarks[slot].lagLog, change)
      added == IF change >= 0 THEN AddItem(e, Snapshot(e, "edit", 0)) ELSE e
  IN [first |-> Earlier(change, lags.first), ed |-> [added EXCEPT !.lagLog = lags.lagLog]]

\* GREENZONE::writeSavestateForFrame, if there is none.
Written(e, f, savestate) ==
  IF ~Empty(e, f) THEN e
  ELSE [e EXCEPT !.savestates[f] = savestate,
                 !.greenzoneSize = IF @ <= f THEN f + 1 ELSE @]

\* BOOKMARKS::deploy: the movie of the bookmark comes back, the whole of it or
\* up to the frame it was set at, and the machine with it.
Deploy(slot, entireMovie) ==
  LET b == ed.bookmarks[slot]
      branch == [ed EXCEPT !.movie = IF entireMovie THEN b.inputs
                                     ELSE Append(Kept(b.inputs, b.keyFrame), Blank)]
      r == RegisterBranching(branch, slot)
      e == Written(Invalidate(r.ed, r.first), b.keyFrame, b.savestate)
  IN /\ updated /\ b.notEmpty
     /\ deploys < MaxDeploys /\ deploys' = deploys + 1
     /\ Becomes(AboveOrTo(e, b.keyFrame, TRUE))
     /\ UNCHANGED <<updated, edits>>

Next ==
  \/ \E autoAdjust \in BOOLEAN :
       \/ Update(autoAdjust)
       \/ \E recording \in BOOLEAN, input \in Inputs : Emulate(recording, input, autoAdjust)
  \/ \E f \in Frames :
       \/ DeleteFrame(f) \/ TruncateMovie(f) \/ Ungreenzone(f)
       \/ \E forceStateReload \in BOOLEAN : MovePlayback(f, forceStateReload)
       \/ \E input \in Inputs :
            InsertFrame(f, input) \/ \E continued \in BOOLEAN : SetInput(f, input, continued)
  \/ \E movie \in Imports : Import(movie)
  \/ \E pos \in Positions : Jump(pos)
  \/ \E slot \in Slots : SetBookmark(slot) \/ \E entireMovie \in BOOLEAN : Deploy(slot, entireMovie)

Spec == Init /\ [][Next]_vars

-----------------------------------------------------------------------------
TypeOK ==
  /\ ed \in Editors
  /\ ed.movie # <<>> /\ ed.cursor < ed.total
  /\ updated \in BOOLEAN /\ edits \in 0..MaxEdits /\ deploys \in 0..MaxDeploys

\* Every savestate in the Greenzone is what playing the movie up to its frame
\* leads to, whatever was edited, inserted, recorded, undone or branched.
GreenzoneFaithful ==
  \A f \in Frames : ed.savestates[f] # NoState =>
    f < ed.greenzoneSize /\ ed.savestates[f] = Played(ed.movie, f)

\* What is seen is the movie: the machine was given the movie's input.
PlaysTheMovie == ed.machine = Played(ed.movie, Frame(ed))

\* The current item of the log is the movie, up to blank frames at its end:
\* a change that is not logged can not be undone.
LogIsCurrent == SameInput(Current(ed).inputs, ed.movie)

\* Undoing leads back to what the movie was before each change.
UndoLeadsBack ==
  \A k \in 1..Len(ed.past) : k <= ed.cursor =>
    SameInput(SnapshotAt(ed, ed.cursor - k).inputs, ed.past[Len(ed.past) + 1 - k])

IsFaithful(b) ==
  IF b.savestate = NoState THEN b.keyFrame = 0
  ELSE b.savestate = Played(b.inputs, b.keyFrame)

\* A bookmark, and one that an item of the log can bring back, has the state
\* that its own movie leads to; only that of frame 0, where the machine starts
\* anew without one, may be empty.
BookmarksFaithful ==
  /\ \A s \in Slots : ed.bookmarks[s].notEmpty => IsFaithful(ed.bookmarks[s])
  /\ \A pos \in 0..ed.total - 1 :
       LET b == SnapshotAt(ed, pos).backup IN b.notEmpty => IsFaithful(b)

\* Deploying a bookmark brings back the very place it was set at.
DeployReturns ==
  [][deploys' # deploys =>
     \A s \in Slots, entireMovie \in BOOLEAN : Deploy(s, entireMovie) =>
       /\ ed'.machine = Played(ed.bookmarks[s].inputs, ed.bookmarks[s].keyFrame)
       /\ entireMovie => SameInput(ed'.movie, ed.bookmarks[s].inputs)]_vars

-----------------------------------------------------------------------------
(* What a comment of the code says of it, and a run refutes. *)

\* A full log only loses its oldest snapshot (history.cpp:464): below the
\* item of a bookmark is what was current.
BookmarkOverCurrent ==
  [][\A s \in Slots : SetBookmark(s) =>
       SameInput(SnapshotAt(ed', ed'.cursor - 1).inputs, ed.movie)]_vars

=============================================================================
