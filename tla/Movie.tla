-------------------------------- MODULE Movie --------------------------------
(***************************************************************************)
(* The movie engine of fceux (src/fceux/src/movie.cpp) and the part of the *)
(* savestates that belongs to it (ReadStateChunks and FCEUSS_LoadFP of     *)
(* state.cpp): what becomes of a movie that is played or recorded when     *)
(* savestates are loaded over it.                                          *)
(*                                                                         *)
(* The machine is its history: the frames it ran since it was switched on, *)
(* each with the buttons held and with whether the console was switched    *)
(* off and on before it.  Equal histories are equal machines, so a movie   *)
(* is in step with the machine when one is what replaying the other gives. *)
(*                                                                         *)
(* Movies and savestates read back as they were written; what a file       *)
(* stream has not flushed yet counts as written.  No movie is in an        *)
(* archive or is a project of the TAS editor, and the options are set      *)
(* before the run.  Rerecord counts, lag frames, subtitles, pausing, the   *)
(* copy of a movie before it is altered and the messages are left out.     *)
(***************************************************************************)
EXTENDS Naturals, Sequences

CONSTANTS
  Inputs,    \* the buttons held in a frame
  Files,     \* the names of movie files
  NoFile,    \* no name; for a stream, not open
  NoMovie,   \* what a file that does not exist holds, and a state without a movie
  Slots,     \* the savestates
  Options,   \* the settings of the options, a set of records
  MaxFrames, \* bound on the frames of the machine, and of a movie recorded
  MaxGuid    \* bound on the movies that are recorded

ASSUME MovieAssumption ==
  /\ NoFile \notin Files
  /\ Options \subseteq [backupSavestates : BOOLEAN, fullSaveStateLoads : BOOLEAN,
                        closeFinishedMovie : BOOLEAN]
  /\ MaxFrames \in Nat /\ MaxGuid \in Nat

VARIABLES
  emu,            \* the machine and the movie engine, which savestates reach
  saved,          \* the savestates, each with the movie that was open
  movie_readonly,
  currCommand,    \* whether the next frame to be recorded carries a command
  options,
  guid            \* the movies recorded so far

vars == <<emu, saved, movie_readonly, currCommand, options, guid>>

Frames == [command : BOOLEAN, input : Inputs]
Machines == [played : Seq(Frames), command : BOOLEAN]
Movies == [guid : 1..MaxGuid, start : Machines, records : Seq(Frames)]

ASSUME NoMovieAssumption == NoMovie \notin Movies

SavedStates == [machine : Machines, frame : Nat, movie : Movies \cup {NoMovie},
                trusted : BOOLEAN]
Engines ==
  [mode : {"inactive", "play", "record", "finished"},
   movie : Movies \cup {NoMovie},             \* currMovieData
   frame : Nat,                               \* currFrameCounter
   machine : Machines,
   recording : Files \cup {NoFile},           \* osRecordingMovie
   name : Files \cup {NoFile},                \* curMovieFilename
   disk : [Files -> Movies \cup {NoMovie}],   \* the movie files
   trusted : BOOLEAN]                         \* history: see Trusted

PoweredOn == [played |-> <<>>, command |-> FALSE]

-----------------------------------------------------------------------------
(* Savestates: what they hold, and what loading one does. *)

\* FCEUSS_SaveMS: the machine, the frame counter, and the whole movie if one
\* is open (FCEUMOV_WriteState).
\*
\* Trusted.  A state is as good as the movie it came from, unless the console
\* was switched on for a frame that had not run yet: that is in the machine
\* already and not yet in the movie.
SavedState(e) ==
  [machine |-> e.machine, frame |-> e.frame,
   movie |-> IF e.mode = "inactive" THEN NoMovie ELSE e.movie,
   trusted |-> e.trusted /\ ~e.machine.command]

\* FCEUI_StopMovie: only a movie being recorded has its file closed.  The
\* records stay in memory, but nothing reads them before the next movie.
Stopped(e) ==
  [e EXCEPT !.mode = "inactive", !.movie = NoMovie, !.name = NoFile,
            !.recording = IF e.mode = "record" THEN NoFile ELSE @]

\* FinishPlayback
Finished(e) ==
  [e EXCEPT !.mode = IF options.closeFinishedMovie THEN "inactive" ELSE "finished"]

\* openRecordingMovie and dump: the movie's file is written anew.
Rewritten(e, movie) ==
  [e EXCEPT !.movie = movie, !.recording = e.name, !.disk[e.name] = movie]

\* MovieData::truncateAt
Truncated(movie, n) == [movie EXCEPT !.records = SubSeq(@, 1, n)]

\* CheckTimelines: two movies differ before a frame both have.
Branches(a, b, frame) ==
  \E i \in 1..frame :
    /\ i <= Len(a.records) /\ i <= Len(b.records)
    /\ a.records[i] # b.records[i]

\* A state made past the end of the movie that is finished now.
PastTheEnd(e, movie) ==
  /\ e.mode = "finished"
  /\ e.frame > Len(e.movie.records)
  /\ Len(e.movie.records) = Len(movie.records)

\* Mutant: a state of this movie is one of its timeline.
ReadOnlyRefusesAnyTimeline(e, movie) ==
  \/ /\ ~PastTheEnd(e, movie)
     /\ e.frame > Len(e.movie.records) \/ e.frame > Len(movie.records)

\* What a read-only movie does not let in: another timeline, a future event,
\* a post-movie state.  The frame counter is the state's by now.
ReadOnlyRefuses(e, movie) ==
  \/ Branches(movie, e.movie, e.frame)
  \/ /\ ~PastTheEnd(e, movie)
     /\ e.frame > Len(e.movie.records) \/ e.frame > Len(movie.records)

\* FCEUMOV_ReadState refuses a state: without a backup to return to, the
\* movie stops.
Refused(e) ==
  [ok |-> FALSE, emu |-> IF options.backupSavestates THEN e ELSE Stopped(e)]

Accepted(e) == [ok |-> TRUE, emu |-> e]

\* Mutant: the file is written before the movie is cut.
ReadWriteDumpsUncut(e, movie) ==
  IF e.frame > Len(movie.records) THEN Finished(Rewritten(e, movie))
  ELSE [Rewritten(e, movie) EXCEPT !.mode = "record", !.movie = Truncated(@, e.frame)]

\* A movie open for writing becomes the one of the state, up to its frame;
\* with the option for full loads, the rest stays until the next frame.
ReadWrite(e, movie) ==
  IF e.frame > Len(movie.records) THEN Finished(Rewritten(e, movie))
  ELSE [Rewritten(e, IF options.fullSaveStateLoads THEN movie
                     ELSE Truncated(movie, e.frame)) EXCEPT !.mode = "record"]

\* Mutant: a movie played to its end may be written to.
ReadStateWritesFinished(e, movie) ==
  LET closed == [e EXCEPT !.recording = NoFile]
  IN IF movie.guid # e.movie.guid THEN Refused(e)
     ELSE IF ~movie_readonly \/ e.mode = "finished" THEN Accepted(ReadWrite(closed, movie))
     ELSE IF ReadOnlyRefuses(closed, movie) THEN Refused(closed)
     ELSE Accepted([closed EXCEPT !.mode = "play"])

\* FCEUMOV_ReadState of a state with a movie, while one is open.  The stream
\* of a movie being recorded is closed before the timelines are compared.
ReadState(e, movie) ==
  LET closed == [e EXCEPT !.recording = NoFile]
  IN CASE movie.guid # e.movie.guid -> Refused(e)
       [] movie.guid = e.movie.guid /\ ~movie_readonly ->
            Accepted(ReadWrite(closed, movie))
       [] movie.guid = e.movie.guid /\ movie_readonly ->
            IF ReadOnlyRefuses(closed, movie) THEN Refused(closed)
            ELSE Accepted(IF PastTheEnd(closed, movie) THEN closed
                          ELSE [closed EXCEPT !.mode = "play"])

\* ReadStateChunks: the machine and the frame counter come before the movie,
\* and come whatever becomes of the movie.  The machine is trusted to be the
\* movie's if the state was, had the movie, and met no pending command.
Chunks(e, s) ==
  LET read == [e EXCEPT !.machine = s.machine, !.frame = s.frame,
                        !.trusted = s.trusted /\ s.movie # NoMovie /\ ~currCommand]
  IN IF e.mode = "inactive" \/ s.movie = NoMovie THEN Accepted(read)
     ELSE ReadState(read, s.movie)

\* Mutant: a refused state is not undone.
LoadFPWithoutRestore(e, s) ==
  LET chunks == Chunks(e, s)
  IN [ok |-> chunks.ok /\ (e.mode = "inactive" \/ s.movie # NoMovie), emu |-> chunks.emu]

\* FCEUSS_LoadFP: a state the movie refuses is undone by loading the backup
\* that was taken in memory, movie and all.  One without a movie is reported
\* as an error (FCEUMOV_PostLoad) and not undone.
LoadFP(e, s) ==
  LET chunks == Chunks(e, s)
  IN IF chunks.ok
     THEN [ok |-> e.mode = "inactive" \/ s.movie # NoMovie, emu |-> chunks.emu]
     ELSE [ok |-> FALSE,
           emu |-> IF options.backupSavestates
                   THEN Chunks(chunks.emu, SavedState(e)).emu ELSE chunks.emu]

-----------------------------------------------------------------------------
Init ==
  /\ emu = [mode |-> "inactive", movie |-> NoMovie, frame |-> 0,
            machine |-> PoweredOn, recording |-> NoFile, name |-> NoFile,
            disk |-> [f \in Files |-> NoMovie],
            trusted |-> TRUE]
  /\ saved = [s \in Slots |-> SavedState(emu)]
  /\ movie_readonly = TRUE
  /\ currCommand = FALSE
  /\ options \in Options
  /\ guid = 0

\* The machine runs a frame with these buttons.
Ran(machine, frame) ==
  [played |-> Append(machine.played, [frame EXCEPT !.command = @ \/ machine.command]),
   command |-> FALSE]

\* FCEUMOV_AddInputState while no movie has a say in it: the user plays.
PlayFree(input) ==
  /\ \/ emu.mode \in {"inactive", "finished"}
     \/ emu.mode = "play" /\ emu.frame >= Len(emu.movie.records)
  /\ LET e == IF emu.mode = "play" THEN Finished(emu) ELSE emu
     IN emu' = [e EXCEPT !.machine = Ran(@, [command |-> FALSE, input |-> input]),
                         !.frame = @ + 1]
  /\ UNCHANGED currCommand

\* FCEUMOV_AddInputState while a movie is played.
PlayRecord ==
  /\ emu.mode = "play" /\ emu.frame < Len(emu.movie.records)
  /\ emu' = [emu EXCEPT !.machine = Ran(@, emu.movie.records[emu.frame + 1]),
                        !.frame = @ + 1]
  /\ UNCHANGED currCommand

\* FCEUMOV_AddInputState while a movie is recorded: what a full load left
\* behind the frame goes, but only in memory; the file is appended to.
RecordFrame(input) ==
  LET frame == [command |-> currCommand, input |-> input]
      kept == IF options.fullSaveStateLoads /\ emu.frame < Len(emu.movie.records)
              THEN Truncated(emu.movie, emu.frame) ELSE emu.movie
  IN /\ emu.mode = "record" /\ emu.recording # NoFile
     /\ emu' = [emu EXCEPT !.movie = [kept EXCEPT !.records = Append(@, frame)],
                           !.disk[emu.recording].records = Append(@, frame),
                           !.machine = Ran(@, [frame EXCEPT !.command = FALSE]),
                           !.frame = @ + 1]
     /\ currCommand' = FALSE

Frame(input) ==
  /\ Len(emu.machine.played) < MaxFrames
  /\ emu.mode = "record" => Len(emu.disk[emu.name].records) < MaxFrames
  /\ PlayFree(input) \/ PlayRecord \/ RecordFrame(input)
  /\ UNCHANGED <<saved, movie_readonly, options, guid>>

\* FCEUI_PowerNES: the console is switched off and on at once, and the frame
\* that comes next is to carry the command.  Without a movie the machine
\* starts anew.
PowerNES ==
  /\ \/ /\ emu.mode = "record"
        /\ emu' = [emu EXCEPT !.machine.command = TRUE]
        /\ currCommand' = TRUE
     \/ /\ emu.mode = "inactive"
        /\ emu' = [emu EXCEPT !.machine = PoweredOn, !.frame = 0]
        /\ UNCHANGED currCommand
  /\ UNCHANGED <<saved, movie_readonly, options, guid>>

\* FCEUI_SaveMovie: a new movie, from here or from the machine switched on.
SaveMovie(file, fromPoweron) ==
  LET e == Stopped(emu)
      start == IF fromPoweron THEN PoweredOn ELSE e.machine
      movie == [guid |-> guid + 1, start |-> start, records |-> <<>>]
  IN /\ guid < MaxGuid
     /\ guid' = guid + 1
     /\ emu' = [Rewritten([e EXCEPT !.name = file], movie) EXCEPT
                  !.mode = "record", !.frame = 0, !.machine = start,
                  !.trusted = ~start.command]
     /\ currCommand' = FALSE
     /\ movie_readonly' = FALSE
     /\ UNCHANGED <<saved, options>>

\* What FCEUI_LoadMovie makes of an engine whose movie was just stopped.
Loaded(e, file) ==
  LET movie == e.disk[file]
      recording == IF e.mode = "record" THEN NoFile ELSE e.recording
  IN IF movie = NoMovie
     THEN [e EXCEPT !.mode = "inactive", !.movie = NoMovie, !.name = file,
                    !.recording = recording]
     ELSE [e EXCEPT !.mode = "play", !.movie = movie, !.name = file, !.frame = 0,
                    !.machine = movie.start, !.recording = recording,
                    !.trusted = ~movie.start.command]

LoadMovie(file, readonly) ==
  /\ emu' = Loaded(emu, file)
  /\ movie_readonly' = IF emu.disk[file] = NoMovie THEN movie_readonly ELSE readonly
  /\ UNCHANGED <<saved, currCommand, options, guid>>

StopMovie ==
  /\ emu' = Stopped(emu)
  /\ UNCHANGED <<saved, movie_readonly, currCommand, options, guid>>

ToggleReadOnly ==
  /\ movie_readonly' = ~movie_readonly
  /\ UNCHANGED <<emu, saved, currCommand, options, guid>>

\* FCEUI_MoviePlayFromBeginning: a movie from a savestate is loaded again.
PlayFromBeginning ==
  /\ emu.mode # "inactive"
  /\ \/ /\ emu.movie.start = PoweredOn
        /\ emu' = [emu EXCEPT !.mode = "play", !.machine = PoweredOn, !.frame = 0,
                              !.trusted = TRUE]
     \/ /\ emu.movie.start # PoweredOn
        /\ emu' = Loaded(Stopped(emu), emu.name)
  /\ movie_readonly' = TRUE
  /\ UNCHANGED <<saved, currCommand, options, guid>>

\* FCEUI_SaveState
SaveState(s) ==
  /\ saved' = [saved EXCEPT ![s] = SavedState(emu)]
  /\ UNCHANGED <<emu, movie_readonly, currCommand, options, guid>>

\* FCEUI_LoadState
LoadState(s) ==
  /\ emu' = LoadFP(emu, saved[s]).emu
  /\ UNCHANGED <<saved, movie_readonly, currCommand, options, guid>>

Next ==
  \/ \E input \in Inputs : Frame(input)
  \/ PowerNES
  \/ \E file \in Files, fromPoweron \in BOOLEAN : SaveMovie(file, fromPoweron)
  \/ \E file \in Files, readonly \in BOOLEAN : LoadMovie(file, readonly)
  \/ StopMovie \/ ToggleReadOnly \/ PlayFromBeginning
  \/ \E s \in Slots : SaveState(s)
  \/ \E s \in Slots : LoadState(s)

Spec == Init /\ [][Next]_vars

-----------------------------------------------------------------------------
TypeOK ==
  /\ emu \in Engines
  /\ emu.mode # "inactive" => emu.movie # NoMovie /\ emu.name # NoFile
  /\ saved \in [Slots -> SavedStates]
  /\ movie_readonly \in BOOLEAN /\ currCommand \in BOOLEAN
  /\ options \in Options
  /\ guid \in 0..MaxGuid

\* The machine is where the movie says: its frames are those of the movie's
\* start and then the movie's own, up to the frame counter.
Replays(machine, movie, frame) ==
  /\ frame <= Len(movie.records)
  /\ machine.played = movie.start.played \o SubSeq(movie.records, 1, frame)

\* A movie that is played or recorded is in step with the machine: replaying
\* it from its start leads to where the game is, whatever states were loaded,
\* accepted, cut the movie short or were refused on the way, and whatever was
\* switched between read-only and read+write.  Only states the movie cannot
\* vouch for are excepted: made without it, or saved or loaded between a
\* command and its frame (FCEUMOV_AddInputState, FCEUMOV_ReadState,
\* FCEUSS_LoadFP).
InSync ==
  emu.mode \in {"play", "record"} /\ emu.trusted =>
    Replays(emu.machine, emu.movie, emu.frame)

\* A movie being recorded has its file open, although FCEUMOV_ReadState
\* closes it before it knows whether the state will be refused: the next
\* frame is written to that stream without a look at it.
RecordingHasFile ==
  emu.mode = "record" /\ emu.trusted => emu.recording = emu.name /\ emu.name # NoFile

\* What was written to the file of a movie being recorded, the buffer of its
\* stream included, is the movie: each frame is written as it is recorded, and
\* the movie of a state is cut before its file is written anew
\* (FCEUMOV_AddInputState, FCEUMOV_ReadState).  Nothing is said of when the
\* buffer reaches the disk, nor of a crash before it does.
FileIsMovie ==
  emu.mode = "record" /\ ~options.fullSaveStateLoads => emu.disk[emu.name] = emu.movie

\* "bulletproof" read-only (changelog.txt:376): neither playing on nor
\* loading any state changes a read-only movie or its file, a load that is
\* refused and undone or that stops the movie included.
ReadOnlyKeepsMovie ==
  [][movie_readonly /\ emu.mode \in {"play", "finished"}
       /\ ((\E input \in Inputs : Frame(input)) \/ (\E s \in Slots : LoadState(s)))
     => /\ emu'.mode # "inactive" => emu'.movie = emu.movie
        /\ emu'.disk = emu.disk]_vars

-----------------------------------------------------------------------------
(* What a comment of the code says of it, and a run refutes. *)

\* "loadstate attempt canceled, movie can resume as if not attempted"
\* (movie.cpp:1252): with backups on, a state that a movie being played
\* refuses leaves the movie, its mode and the machine as they were.
RefusedAsIfNotAttempted ==
  [][\A s \in Slots :
       LoadState(s) /\ emu.mode = "play" /\ ~Chunks(emu, saved[s]).ok
         /\ options.backupSavestates =>
       /\ emu'.mode = emu.mode /\ emu'.frame = emu.frame
       /\ emu'.movie = emu.movie /\ emu'.machine = emu.machine]_vars

=============================================================================
