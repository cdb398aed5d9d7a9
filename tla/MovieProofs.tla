------------------------------ MODULE MovieProofs ------------------------------
(***************************************************************************)
(* What holds of the movie engine for every number of frames, movies,      *)
(* files and savestates and every setting of the options: its types, that  *)
(* a movie is in step with the machine, that a movie being recorded has    *)
(* its file open and its file holds it, and that read-only protects it.    *)
(***************************************************************************)
EXTENDS Movie, SequenceTheorems, TLAPS

\* A movie that is anywhere around, or none.  Every movie recorded has a guid
\* of its own, so the guid tells the machine it starts from.
Known(movie, starts, last) ==
  movie # NoMovie =>
    movie \in Movies /\ movie.guid <= last /\ movie.start = starts[movie.guid]

\* The engine and the movies it has, whether or not they go together.
Shape(e, starts, last, full) ==
  /\ e \in Engines
  /\ e.mode # "inactive" => e.movie # NoMovie /\ e.name # NoFile
  /\ Known(e.movie, starts, last)
  /\ \A f \in Files : Known(e.disk[f], starts, last)
  /\ e.mode = "record" =>
       /\ e.recording \in {NoFile, e.name}
       /\ e.disk[e.name] # NoMovie
       /\ ~full => e.disk[e.name] = e.movie

\* The machine and the movie go together.  The command that waits for its
\* frame is in the machine already; it belongs to a movie that is recorded.
Synced(e, command, full) ==
  e.trusted =>
    /\ e.mode # "inactive" /\ e.frame <= Len(e.movie.records) =>
         Replays(e.machine, e.movie, e.frame)
    /\ e.mode \in {"play", "record"} => e.frame <= Len(e.movie.records)
    /\ e.mode = "record" =>
         /\ e.machine.command = command
         /\ e.recording = e.name
         /\ ~full => e.frame = Len(e.movie.records)
    /\ e.mode = "play" => ~e.machine.command
    /\ e.mode = "finished" => e.frame >= Len(e.movie.records)

\* A savestate and the movie in it.
Restorable(s, starts, last) ==
  /\ s \in SavedStates
  /\ Known(s.movie, starts, last)
  /\ s.trusted =>
       /\ ~s.machine.command
       /\ s.movie # NoMovie /\ s.frame <= Len(s.movie.records) =>
            Replays(s.machine, s.movie, s.frame)

Sound(starts) ==
  /\ Shape(emu, starts, guid, options.fullSaveStateLoads)
  /\ Synced(emu, currCommand, options.fullSaveStateLoads)
  /\ saved \in [Slots -> SavedStates]
  /\ \A s \in Slots : Restorable(saved[s], starts, guid)

MovieInv ==
  /\ movie_readonly \in BOOLEAN /\ currCommand \in BOOLEAN
  /\ options \in Options
  /\ guid \in 0..MaxGuid
  /\ \E starts \in [1..MaxGuid -> Machines] : Sound(starts)

-----------------------------------------------------------------------------
(* Movies and machines. *)

LEMMA AppendBehind ==
  ASSUME NEW s \in Seq(Frames), NEW t \in Seq(Frames), NEW x \in Frames
  PROVE  Append(s \o t, x) = s \o Append(t, x)
<1>1. s \o t \in Seq(Frames) /\ <<x>> \in Seq(Frames)
  BY ConcatProperties
<1>2. Append(s \o t, x) = (s \o t) \o <<x>> /\ Append(t, x) = t \o <<x>>
  BY <1>1, AppendIsConcat
<1>3. (s \o t) \o <<x>> = s \o (t \o <<x>>)
  BY <1>1, ConcatAssociative
<1> QED BY <1>2, <1>3

\* Playing one more record of a movie.
LEMMA NextRecord ==
  ASSUME NEW s \in Seq(Frames), NEW records \in Seq(Frames),
         NEW n \in Nat, n < Len(records)
  PROVE  /\ records[n + 1] \in Frames
         /\ Append(s \o SubSeq(records, 1, n), records[n + 1])
              = s \o SubSeq(records, 1, n + 1)
<1>1. Len(records) \in Nat /\ n + 1 \in 1..Len(records) /\ records[n + 1] \in Frames
  BY LenProperties, ElementOfSeq
<1>2. SubSeq(records, 1, n) \in Seq(Frames)
  <2>1. \A i \in 1..n : records[i] \in Frames
    BY <1>1, ElementOfSeq
  <2> QED BY <2>1, SubSeqProperties
<1>3. SubSeq(records, 1, n + 1) = Append(SubSeq(records, 1, n), records[n + 1])
  <2>1. 1 \in 1..Len(records) /\ n + 1 \in 1..Len(records) /\ (n + 1) - 1 = n
    BY <1>1
  <2>2. SubSeq(records, 1, n + 1) = SubSeq(records, 1, (n + 1) - 1) \o <<records[n + 1]>>
    BY <2>1, SubSeqRecursiveSecond
  <2> QED BY <1>1, <1>2, <2>1, <2>2, AppendIsConcat
<1> QED BY <1>1, <1>2, <1>3, AppendBehind

\* Recording one more frame at the end of a movie.
LEMMA RecordedAtEnd ==
  ASSUME NEW s \in Seq(Frames), NEW records \in Seq(Frames), NEW frame \in Frames
  PROVE  /\ Append(records, frame) \in Seq(Frames)
         /\ Len(Append(records, frame)) = Len(records) + 1
         /\ Append(s \o SubSeq(records, 1, Len(records)), frame)
              = s \o SubSeq(Append(records, frame), 1, Len(records) + 1)
<1>1. /\ Append(records, frame) \in Seq(Frames)
      /\ Len(Append(records, frame)) = Len(records) + 1
  BY AppendProperties
<1>2. SubSeq(records, 1, Len(records)) = records
  BY SubSeqFull
<1>3. SubSeq(Append(records, frame), 1, Len(Append(records, frame))) = Append(records, frame)
  BY <1>1, SubSeqFull
<1>4. Append(s \o records, frame) = s \o Append(records, frame)
  BY AppendBehind
<1>5. Append(s \o SubSeq(records, 1, Len(records)), frame) = Append(s \o records, frame)
  BY <1>2
<1>6. s \o SubSeq(Append(records, frame), 1, Len(records) + 1) = s \o Append(records, frame)
  BY <1>1, <1>3
<1> QED BY <1>1, <1>4, <1>5, <1>6

\* A movie that is cut keeps its guid and its start, and replays as far.
LEMMA CutMovie ==
  ASSUME NEW movie \in Movies, NEW n \in Nat, n <= Len(movie.records)
  PROVE  /\ Truncated(movie, n) \in Movies
         /\ Truncated(movie, n).guid = movie.guid
         /\ Truncated(movie, n).start = movie.start
         /\ Len(Truncated(movie, n).records) = n
         /\ \A machine : Replays(machine, movie, n) =>
                           Replays(machine, Truncated(movie, n), n)
<1> DEFINE records == movie.records
           cut == SubSeq(records, 1, n)
<1>1. records \in Seq(Frames) /\ movie.guid \in 1..MaxGuid /\ movie.start \in Machines
  BY DEF Movies
<1>2. \A i \in 1..n : records[i] \in Frames
  BY <1>1, LenProperties, ElementOfSeq
<1>3. cut \in Seq(Frames) /\ Len(cut) = n
  BY <1>2, SubSeqProperties
<1>4. SubSeq(cut, 1, n) = cut
  BY <1>3, SubSeqFull
<1>5. /\ Truncated(movie, n) \in Movies
      /\ Truncated(movie, n).guid = movie.guid
      /\ Truncated(movie, n).start = movie.start
      /\ Truncated(movie, n).records = cut
  BY <1>3 DEF Truncated, Movies
<1>6. SubSeq(Truncated(movie, n).records, 1, n) = SubSeq(movie.records, 1, n)
  BY <1>4, <1>5
<1>7. Len(Truncated(movie, n).records) = n
  BY <1>3, <1>5
<1>8. ASSUME NEW machine, Replays(machine, movie, n)
      PROVE  Replays(machine, Truncated(movie, n), n)
  <2> DEFINE t == Truncated(movie, n)
  <2>1. machine.played = movie.start.played \o SubSeq(movie.records, 1, n)
    BY <1>8 DEF Replays
  <2>2. t.start = movie.start /\ SubSeq(t.records, 1, n) = SubSeq(movie.records, 1, n)
    BY <1>5, <1>6
  <2>3. n <= Len(t.records)
    BY <1>7
  <2> HIDE DEF t
  <2>4. machine.played = t.start.played \o SubSeq(t.records, 1, n)
    BY <2>1, <2>2
  <2>5. Replays(machine, t, n)
    BY <2>3, <2>4 DEF Replays
  <2> QED BY <2>5 DEF t
<1> QED BY <1>5, <1>7, <1>8

\* Movies that do not branch before a frame both have are the same up to it.
LEMMA SamePrefix ==
  ASSUME NEW a \in Movies, NEW b \in Movies, NEW n \in Nat,
         n <= Len(a.records), n <= Len(b.records), ~Branches(a, b, n)
  PROVE  SubSeq(a.records, 1, n) = SubSeq(b.records, 1, n)
<1>1. a.records \in Seq(Frames) /\ b.records \in Seq(Frames)
  BY DEF Movies
<1>2. \A i \in 1..n : /\ a.records[i] \in Frames /\ b.records[i] \in Frames
                      /\ a.records[i] = b.records[i]
  <2>1. Len(a.records) \in Nat /\ Len(b.records) \in Nat
    BY <1>1, LenProperties
  <2>2. \A i \in 1..n : i \in 1..Len(a.records) /\ i \in 1..Len(b.records)
    BY <2>1
  <2>3. \A i \in 1..n : a.records[i] = b.records[i]
    BY <2>2 DEF Branches
  <2> QED BY <1>1, <2>2, <2>3, ElementOfSeq
<1>3. /\ SubSeq(a.records, 1, n) \in Seq(Frames) /\ SubSeq(b.records, 1, n) \in Seq(Frames)
      /\ Len(SubSeq(a.records, 1, n)) = Len(SubSeq(b.records, 1, n))
      /\ \A i \in 1..n : SubSeq(a.records, 1, n)[i] = SubSeq(b.records, 1, n)[i]
      /\ Len(SubSeq(a.records, 1, n)) = n
  BY <1>2, SubSeqProperties
<1> QED BY <1>3, SeqEqual

-----------------------------------------------------------------------------
(* What savestates do. *)

LEMMA OptionsAreBoolean ==
  ASSUME options \in Options
  PROVE  /\ options.backupSavestates \in BOOLEAN
         /\ options.fullSaveStateLoads \in BOOLEAN
         /\ options.closeFinishedMovie \in BOOLEAN
BY MovieAssumption

\* The savestate made of an engine that is as it should be is as it should be.
LEMMA SavedStateKeeps ==
  ASSUME NEW e, NEW starts, NEW last, NEW command, NEW full,
         Shape(e, starts, last, full), Synced(e, command, full)
  PROVE  Restorable(SavedState(e), starts, last)
<1>1. /\ e.machine \in Machines /\ e.frame \in Nat /\ e.movie \in Movies \cup {NoMovie}
      /\ e.trusted \in BOOLEAN /\ e.machine.command \in BOOLEAN
  BY DEF Shape, Engines, Machines
<1>2. /\ SavedState(e).machine = e.machine /\ SavedState(e).frame = e.frame
      /\ SavedState(e).movie = IF e.mode = "inactive" THEN NoMovie ELSE e.movie
      /\ SavedState(e).trusted = (e.trusted /\ ~e.machine.command)
  BY DEF SavedState
<1>3. SavedState(e) \in SavedStates
  BY <1>1 DEF SavedState, SavedStates
<1>4. Known(SavedState(e).movie, starts, last)
  BY <1>2 DEF Shape, Known
<1>5. ASSUME SavedState(e).trusted
      PROVE  /\ ~SavedState(e).machine.command
             /\ SavedState(e).movie # NoMovie
                  /\ SavedState(e).frame <= Len(SavedState(e).movie.records) =>
                Replays(SavedState(e).machine, SavedState(e).movie, SavedState(e).frame)
  BY <1>1, <1>2, <1>5 DEF Synced
<1> QED BY <1>3, <1>4, <1>5 DEF Restorable

\* A movie written to the file of the engine.
LEMMA RewrittenEngine ==
  ASSUME NEW e \in Engines, NEW movie \in Movies, NEW starts, NEW last,
         e.name \in Files, Known(movie, starts, last),
         \A f \in Files : Known(e.disk[f], starts, last)
  PROVE  LET r == Rewritten(e, movie)
         IN /\ r \in Engines
            /\ r.movie = movie /\ r.recording = e.name /\ r.disk[e.name] = movie
            /\ r.mode = e.mode /\ r.name = e.name /\ r.frame = e.frame
            /\ r.machine = e.machine /\ r.trusted = e.trusted
            /\ \A f \in Files : Known(r.disk[f], starts, last)
<1> DEFINE r == Rewritten(e, movie)
<1>1. /\ r \in Engines
      /\ r.movie = movie /\ r.recording = e.name
      /\ r.disk = [e.disk EXCEPT ![e.name] = movie]
      /\ r.mode = e.mode /\ r.name = e.name /\ r.frame = e.frame
      /\ r.machine = e.machine /\ r.trusted = e.trusted
  BY DEF Rewritten, Engines
<1>2. DOMAIN e.disk = Files
  BY DEF Engines
<1>3. r.disk[e.name] = movie
  BY <1>1, <1>2
<1>4. \A f \in Files : Known(r.disk[f], starts, last)
  BY <1>1, <1>2
<1> QED BY <1>1, <1>3, <1>4

\* The machine and the frame of e were read from a state that has this movie.
Fits(e, movie) ==
  e.trusted => /\ ~e.machine.command /\ ~currCommand
               /\ e.frame <= Len(movie.records) => Replays(e.machine, movie, e.frame)

LEMMA ReadWriteKeeps ==
  ASSUME options \in Options, currCommand \in BOOLEAN,
         NEW e, NEW movie \in Movies, NEW starts, NEW last,
         Shape(e, starts, last, options.fullSaveStateLoads), e.mode # "inactive",
         Known(movie, starts, last), Fits(e, movie)
  PROVE  /\ Shape(ReadWrite(e, movie), starts, last, options.fullSaveStateLoads)
         /\ Synced(ReadWrite(e, movie), currCommand, options.fullSaveStateLoads)
<1> DEFINE full == options.fullSaveStateLoads
<1>1. /\ e \in Engines /\ e.name \in Files /\ movie # NoMovie /\ full \in BOOLEAN
      /\ e.frame \in Nat /\ Len(movie.records) \in Nat /\ e.trusted \in BOOLEAN
      /\ \A f \in Files : Known(e.disk[f], starts, last)
  BY OptionsAreBoolean, NoMovieAssumption, LenProperties DEF Shape, Engines, Movies
<1>2. CASE e.frame > Len(movie.records)
  <2> DEFINE r == Rewritten(e, movie)
  <2>1. /\ r \in Engines
        /\ r.movie = movie /\ r.name = e.name /\ r.frame = e.frame
        /\ \A f \in Files : Known(r.disk[f], starts, last)
    BY <1>1, RewrittenEngine
  <2>2. ReadWrite(e, movie) = Finished(r)
    BY <1>2 DEF ReadWrite
  <2>3. /\ Finished(r) \in Engines /\ Finished(r).mode \in {"inactive", "finished"}
        /\ Finished(r).movie = movie /\ Finished(r).name = e.name
        /\ Finished(r).frame = e.frame /\ Finished(r).disk = r.disk
    BY <2>1 DEF Finished, Engines
  <2>4. Shape(Finished(r), starts, last, full)
    BY <1>1, <2>1, <2>3, MovieAssumption DEF Shape
  <2>5. Synced(Finished(r), currCommand, full)
    BY <1>1, <1>2, <2>3 DEF Synced
  <2> QED BY <2>2, <2>4, <2>5
<1>3. CASE e.frame <= Len(movie.records)
  <2> DEFINE kept == IF full THEN movie ELSE Truncated(movie, e.frame)
             r == Rewritten(e, kept)
             w == [r EXCEPT !.mode = "record"]
  <2>1. /\ kept \in Movies /\ kept.guid = movie.guid /\ kept.start = movie.start
        /\ e.frame <= Len(kept.records)
        /\ ~full => e.frame = Len(kept.records)
        /\ \A machine : Replays(machine, movie, e.frame) => Replays(machine, kept, e.frame)
    BY <1>1, <1>3, CutMovie
  <2>2. kept # NoMovie /\ Known(kept, starts, last)
    BY <1>1, <2>1, NoMovieAssumption DEF Known
  <2>3. /\ r \in Engines
        /\ r.movie = kept /\ r.recording = e.name /\ r.disk[e.name] = kept
        /\ r.mode = e.mode /\ r.name = e.name /\ r.frame = e.frame
        /\ r.machine = e.machine /\ r.trusted = e.trusted
        /\ \A f \in Files : Known(r.disk[f], starts, last)
    BY <1>1, <2>1, <2>2, RewrittenEngine
  <2>4. /\ w \in Engines /\ w.mode = "record"
        /\ w.movie = kept /\ w.recording = e.name /\ w.disk = r.disk
        /\ w.name = e.name /\ w.frame = e.frame
        /\ w.machine = e.machine /\ w.trusted = e.trusted
    BY <2>3 DEF Engines
  <2>5. ReadWrite(e, movie) = w
    BY <1>1, <1>3 DEF ReadWrite
  <2>6. Shape(w, starts, last, full)
    BY <1>1, <2>2, <2>3, <2>4, MovieAssumption DEF Shape
  <2>7. Synced(w, currCommand, full)
    <3>1. w.trusted => Replays(e.machine, kept, e.frame)
      BY <1>3, <2>1, <2>4 DEF Fits
    <3>2. w.trusted => Replays(w.machine, w.movie, w.frame)
      BY <2>4, <3>1
    <3>3. w.trusted => w.machine.command = currCommand
      BY <2>4 DEF Fits, Engines, Machines
    <3> QED BY <2>1, <2>4, <3>2, <3>3 DEF Synced
  <2> QED BY <2>5, <2>6, <2>7
<1> QED BY <1>1, <1>2, <1>3

\* Without a movie there is nothing to be in step with.
LEMMA StoppedKeeps ==
  ASSUME NEW e, NEW starts, NEW last, NEW command, NEW full, Shape(e, starts, last, full)
  PROVE  /\ Shape(Stopped(e), starts, last, full)
         /\ Synced(Stopped(e), command, full)
         /\ Stopped(e) \in Engines /\ Stopped(e).mode = "inactive"
         /\ Stopped(e).disk = e.disk /\ Stopped(e).machine = e.machine
<1>1. /\ Stopped(e) \in Engines /\ Stopped(e).mode = "inactive"
      /\ Stopped(e).movie = NoMovie
      /\ Stopped(e).disk = e.disk /\ Stopped(e).machine = e.machine
  BY DEF Stopped, Shape, Engines
<1> QED BY <1>1 DEF Shape, Synced, Known

\* What becomes of a state that has a movie: accepted, the engine is as it
\* should be; refused, it may not be, but its movie and its mode are those it
\* had; and the movie's own states are not refused.
LEMMA ReadStateKeeps ==
  ASSUME options \in Options, currCommand \in BOOLEAN, movie_readonly \in BOOLEAN,
         NEW e, NEW movie \in Movies, NEW starts, NEW last,
         Shape(e, starts, last, options.fullSaveStateLoads), e.mode # "inactive",
         Known(movie, starts, last), Fits(e, movie)
  PROVE  LET r == ReadState(e, movie)
         IN /\ r.ok \in BOOLEAN
            /\ Shape(r.emu, starts, last, options.fullSaveStateLoads)
            /\ r.ok \/ ~options.backupSavestates =>
                 Synced(r.emu, currCommand, options.fullSaveStateLoads)
            /\ ~r.ok /\ options.backupSavestates =>
                 /\ r.emu.mode = e.mode /\ r.emu.movie = e.movie
                 /\ r.emu.trusted = e.trusted /\ r.emu.frame = e.frame
                 /\ movie = e.movie =>
                      e.frame > Len(movie.records) /\ e.mode # "finished"
<1> DEFINE full == options.fullSaveStateLoads
           r == ReadState(e, movie)
           c == [e EXCEPT !.recording = NoFile]
           p == [e EXCEPT !.recording = NoFile, !.mode = "play"]
<1>0. /\ options.backupSavestates \in BOOLEAN /\ full \in BOOLEAN
      /\ e \in Engines /\ e.movie \in Movies /\ e.movie # NoMovie
      /\ e.mode \in {"play", "record", "finished"} /\ e.frame \in Nat
      /\ Len(movie.records) \in Nat /\ Len(e.movie.records) \in Nat
      /\ e.trusted \in BOOLEAN
  BY OptionsAreBoolean, LenProperties DEF Shape, Engines, Movies
<1>1. /\ Shape(c, starts, last, full)
      /\ c.mode = e.mode /\ c.movie = e.movie /\ c.frame = e.frame
      /\ c.machine = e.machine /\ c.trusted = e.trusted
  <2>1. /\ c \in Engines
        /\ c.mode = e.mode /\ c.movie = e.movie /\ c.frame = e.frame /\ c.name = e.name
        /\ c.machine = e.machine /\ c.trusted = e.trusted /\ c.disk = e.disk
        /\ c.recording = NoFile
    BY DEF Shape, Engines
  <2>2. Shape(c, starts, last, full)
    BY <2>1 DEF Shape
  <2> QED BY <2>1, <2>2
<1>2. /\ Shape(p, starts, last, full)
      /\ p.mode = "play" /\ p.movie = e.movie /\ p.frame = e.frame
      /\ p.machine = e.machine /\ p.trusted = e.trusted
  <2>1. /\ p \in Engines
        /\ p.mode = "play" /\ p.movie = e.movie /\ p.frame = e.frame /\ p.name = e.name
        /\ p.machine = e.machine /\ p.trusted = e.trusted /\ p.disk = e.disk
    BY DEF Shape, Engines
  <2>2. Shape(p, starts, last, full)
    BY <1>0, <2>1 DEF Shape
  <2> QED BY <2>1, <2>2
<1>3. p = [c EXCEPT !.mode = "play"]
  BY <1>0 DEF Engines
<1> HIDE DEF c, p
<1>4. ASSUME NEW x, Shape(x, starts, last, full), r = Refused(x),
             x.mode = e.mode, x.movie = e.movie, x.trusted = e.trusted, x.frame = e.frame
      PROVE  /\ r.ok = FALSE
             /\ Shape(r.emu, starts, last, full)
             /\ ~options.backupSavestates => Synced(r.emu, currCommand, full)
             /\ options.backupSavestates =>
                  /\ r.emu.mode = e.mode /\ r.emu.movie = e.movie
                  /\ r.emu.trusted = e.trusted /\ r.emu.frame = e.frame
  BY <1>4, <1>0, StoppedKeeps DEF Refused
<1>5. CASE movie.guid # e.movie.guid
  <2>1. r = Refused(e)
    BY <1>5 DEF ReadState
  <2> QED BY <1>0, <1>4, <1>5, <2>1
<1>6. CASE movie.guid = e.movie.guid /\ ~movie_readonly
  <2>1. r = Accepted(ReadWrite(c, movie))
    BY <1>6 DEF ReadState, c
  <2>2. Fits(c, movie)
    BY <1>1 DEF Fits
  <2>3. /\ Shape(ReadWrite(c, movie), starts, last, full)
        /\ Synced(ReadWrite(c, movie), currCommand, full)
    BY <1>1, <2>2, ReadWriteKeeps
  <2> QED BY <2>1, <2>3 DEF Accepted
<1>7. CASE movie.guid = e.movie.guid /\ movie_readonly /\ ReadOnlyRefuses(c, movie)
  <2>1. r = Refused(c)
    BY <1>7 DEF ReadState, c
  <2>2. movie = e.movie => e.frame > Len(movie.records) /\ e.mode # "finished"
    BY <1>0, <1>1, <1>7 DEF ReadOnlyRefuses, Branches, PastTheEnd
  <2> QED BY <1>1, <1>4, <2>1, <2>2
<1>8. CASE movie.guid = e.movie.guid /\ movie_readonly /\ ~ReadOnlyRefuses(c, movie)
           /\ PastTheEnd(c, movie)
  <2>1. r = Accepted(c)
    BY <1>8 DEF ReadState, c
  <2>2. Synced(c, currCommand, full)
    BY <1>0, <1>1, <1>8 DEF Synced, PastTheEnd
  <2> QED BY <1>1, <2>1, <2>2 DEF Accepted
<1>9. CASE movie.guid = e.movie.guid /\ movie_readonly /\ ~ReadOnlyRefuses(c, movie)
           /\ ~PastTheEnd(c, movie)
  <2>1. r = Accepted(p)
    BY <1>3, <1>9 DEF ReadState, c
  <2>2. /\ ~Branches(movie, e.movie, e.frame)
        /\ e.frame <= Len(movie.records) /\ e.frame <= Len(e.movie.records)
    BY <1>0, <1>1, <1>9 DEF ReadOnlyRefuses
  <2>3. SubSeq(movie.records, 1, e.frame) = SubSeq(e.movie.records, 1, e.frame)
    BY <1>0, <2>2, SamePrefix
  <2>4. movie.start = e.movie.start
    BY <1>0, <1>9, NoMovieAssumption DEF Known, Shape
  <2>5. e.trusted => Replays(e.machine, e.movie, e.frame)
    BY <2>2, <2>3, <2>4 DEF Fits, Replays
  <2>6. Synced(p, currCommand, full)
    BY <1>2, <2>2, <2>5 DEF Synced, Fits
  <2> QED BY <1>2, <2>1, <2>6 DEF Accepted
<1> QED BY <1>5, <1>6, <1>7, <1>8, <1>9

\* ReadStateChunks: the same of any state, and of an engine without a movie.
LEMMA ChunksKeeps ==
  ASSUME options \in Options, currCommand \in BOOLEAN, movie_readonly \in BOOLEAN,
         NEW e, NEW s, NEW starts, NEW last,
         Shape(e, starts, last, options.fullSaveStateLoads), Restorable(s, starts, last)
  PROVE  LET r == Chunks(e, s)
         IN /\ r.ok \in BOOLEAN
            /\ Shape(r.emu, starts, last, options.fullSaveStateLoads)
            /\ r.ok \/ ~options.backupSavestates =>
                 Synced(r.emu, currCommand, options.fullSaveStateLoads)
            /\ ~r.ok /\ options.backupSavestates =>
                 /\ e.mode # "inactive" /\ r.emu.mode = e.mode /\ r.emu.movie = e.movie
                 /\ r.emu.trusted => s.trusted
                 /\ s.movie = e.movie =>
                      s.frame > Len(s.movie.records) /\ e.mode # "finished"
<1> DEFINE full == options.fullSaveStateLoads
           read == [e EXCEPT !.machine = s.machine, !.frame = s.frame,
                             !.trusted = s.trusted /\ s.movie # NoMovie /\ ~currCommand]
<1>1. /\ e \in Engines /\ s \in SavedStates
      /\ s.machine \in Machines /\ s.frame \in Nat /\ s.trusted \in BOOLEAN
      /\ s.movie \in Movies \cup {NoMovie}
  BY DEF Shape, Restorable, SavedStates
<1>2. /\ read \in Engines
      /\ read.machine = s.machine /\ read.frame = s.frame
      /\ read.trusted = (s.trusted /\ s.movie # NoMovie /\ ~currCommand)
      /\ read.mode = e.mode /\ read.movie = e.movie /\ read.name = e.name
      /\ read.recording = e.recording /\ read.disk = e.disk
  BY <1>1 DEF Engines
<1>3. Shape(read, starts, last, full)
  BY <1>2 DEF Shape
<1>4. Chunks(e, s) = IF e.mode = "inactive" \/ s.movie = NoMovie THEN Accepted(read)
                     ELSE ReadState(read, s.movie)
  BY DEF Chunks
<1> HIDE DEF read
<1>5. CASE e.mode = "inactive" \/ s.movie = NoMovie
  <2>1. Synced(read, currCommand, full)
    BY <1>2, <1>5 DEF Synced
  <2>2. Chunks(e, s).ok = TRUE /\ Chunks(e, s).emu = read
    BY <1>4, <1>5 DEF Accepted
  <2> QED BY <1>3, <2>1, <2>2
<1>6. CASE e.mode # "inactive" /\ s.movie # NoMovie
  <2>1. s.movie \in Movies /\ Known(s.movie, starts, last)
    BY <1>1, <1>6 DEF Restorable
  <2>2. Fits(read, s.movie)
    BY <1>2, <1>6 DEF Fits, Restorable
  <2>3. read.mode # "inactive" /\ Chunks(e, s) = ReadState(read, s.movie)
    BY <1>2, <1>4, <1>6
  <2> DEFINE r == ReadState(read, s.movie)
  <2>4. /\ r.ok \in BOOLEAN
        /\ Shape(r.emu, starts, last, full)
        /\ r.ok \/ ~options.backupSavestates => Synced(r.emu, currCommand, full)
        /\ ~r.ok /\ options.backupSavestates =>
             /\ r.emu.mode = read.mode /\ r.emu.movie = read.movie
             /\ r.emu.trusted = read.trusted /\ r.emu.frame = read.frame
             /\ s.movie = read.movie =>
                  read.frame > Len(s.movie.records) /\ read.mode # "finished"
    BY <1>3, <2>1, <2>2, <2>3, ReadStateKeeps
  <2> HIDE DEF r
  <2>5. r.emu.trusted = read.trusted => (r.emu.trusted => s.trusted)
    BY <1>2
  <2>6. Chunks(e, s) = r
    BY <2>3 DEF r
  <2> QED BY <1>2, <1>6, <2>4, <2>5, <2>6
<1> QED BY <1>5, <1>6

\* FCEUSS_LoadFP: a state that is refused leaves the engine as it should be,
\* for the backup it is undone with is a state of the very movie that is open.
LEMMA LoadFPKeeps ==
  ASSUME options \in Options, currCommand \in BOOLEAN, movie_readonly \in BOOLEAN,
         NEW e, NEW s, NEW starts, NEW last,
         Shape(e, starts, last, options.fullSaveStateLoads),
         Synced(e, currCommand, options.fullSaveStateLoads), Restorable(s, starts, last)
  PROVE  /\ Shape(LoadFP(e, s).emu, starts, last, options.fullSaveStateLoads)
         /\ Synced(LoadFP(e, s).emu, currCommand, options.fullSaveStateLoads)
<1> DEFINE full == options.fullSaveStateLoads
           bak == SavedState(e)
           chunks == Chunks(e, s)
           undone == Chunks(chunks.emu, bak)
<1>0. options.backupSavestates \in BOOLEAN
  BY OptionsAreBoolean
<1>1. Restorable(bak, starts, last)
  BY SavedStateKeeps
<1>2. /\ chunks.ok \in BOOLEAN
      /\ Shape(chunks.emu, starts, last, full)
      /\ chunks.ok \/ ~options.backupSavestates => Synced(chunks.emu, currCommand, full)
      /\ ~chunks.ok /\ options.backupSavestates =>
           e.mode # "inactive" /\ chunks.emu.mode = e.mode /\ chunks.emu.movie = e.movie
  BY ChunksKeeps
<1>3. CASE chunks.ok \/ ~options.backupSavestates
  <2>1. LoadFP(e, s).emu = chunks.emu
    BY <1>0, <1>2, <1>3 DEF LoadFP
  <2> QED BY <1>2, <1>3, <2>1
<1>4. CASE ~chunks.ok /\ options.backupSavestates
  <2>1. LoadFP(e, s).emu = undone.emu
    BY <1>4 DEF LoadFP
  <2>2. /\ e.mode # "inactive" /\ chunks.emu.mode = e.mode /\ chunks.emu.movie = e.movie
    BY <1>2, <1>4
  <2>3. /\ bak.movie = e.movie /\ bak.frame = e.frame
        /\ bak.trusted = (e.trusted /\ ~e.machine.command)
    BY <2>2 DEF SavedState
  <2> HIDE DEF chunks, bak
  <2>4. /\ undone.ok \in BOOLEAN
        /\ Shape(undone.emu, starts, last, full)
        /\ undone.ok \/ ~options.backupSavestates => Synced(undone.emu, currCommand, full)
        /\ ~undone.ok /\ options.backupSavestates =>
             /\ undone.emu.mode = e.mode
             /\ undone.emu.trusted => bak.trusted
             /\ bak.movie = chunks.emu.movie =>
                  bak.frame > Len(bak.movie.records) /\ chunks.emu.mode # "finished"
    BY <1>1, <1>2, <2>2, ChunksKeeps
  <2>5. CASE undone.ok
    BY <2>1, <2>4, <2>5
  <2>6. CASE ~undone.ok
    <3>1. e.frame > Len(e.movie.records) /\ e.mode # "finished"
      BY <1>4, <2>2, <2>3, <2>4, <2>6
    <3>2. e.mode \in {"play", "record"} /\ e.frame \in Nat /\ Len(e.movie.records) \in Nat
      <4>1. e \in Engines /\ e.movie \in Movies
        BY <2>2 DEF Shape, Engines
      <4> QED BY <2>2, <3>1, <4>1, LenProperties DEF Engines, Movies
    <3>3. ~e.trusted
      BY <3>1, <3>2 DEF Synced
    <3>4. ~undone.emu.trusted
      BY <1>4, <2>3, <2>4, <2>6, <3>3
    <3>5. Synced(undone.emu, currCommand, full)
      BY <3>4 DEF Synced
    <3> QED BY <2>1, <2>4, <3>5
  <2> QED BY <2>4, <2>5, <2>6
<1> QED BY <1>0, <1>2, <1>3, <1>4

-----------------------------------------------------------------------------
(* What frames, commands and movie files do. *)

LEMMA ReplaysNothing ==
  ASSUME NEW movie \in Movies
  PROVE  Replays(movie.start, movie, 0)
<1>1. movie.start.played \in Seq(Frames) /\ Len(movie.records) \in Nat
  BY LenProperties DEF Movies, Machines
<1>2. SubSeq(movie.records, 1, 0) = <<>>
  BY SubSeqEmpty
<1>3. movie.start.played = movie.start.played \o <<>>
  BY <1>1, ConcatEmptySeq
<1> QED BY <1>1, <1>2, <1>3 DEF Replays

LEMMA AppendedMovie ==
  ASSUME NEW movie \in Movies, NEW frame \in Frames
  PROVE  LET m == [movie EXCEPT !.records = Append(@, frame)]
         IN /\ m \in Movies /\ m # NoMovie
            /\ m.guid = movie.guid /\ m.start = movie.start
            /\ m.records = Append(movie.records, frame)
<1> DEFINE m == [movie EXCEPT !.records = Append(@, frame)]
           records == Append(movie.records, frame)
<1>1. records \in Seq(Frames)
  BY AppendProperties DEF Movies
<1>2. m = [movie EXCEPT !.records = records]
  OBVIOUS
<1> HIDE DEF records, m
<1>3. m \in Movies /\ m.guid = movie.guid /\ m.start = movie.start /\ m.records = records
  BY <1>1, <1>2 DEF Movies
<1>4. m # NoMovie
  BY <1>3, NoMovieAssumption
<1> QED BY <1>3, <1>4 DEF m, records

LEMMA SteppedEngine ==
  ASSUME NEW e \in Engines, NEW machine \in Machines
  PROVE  LET r == [e EXCEPT !.machine = machine, !.frame = @ + 1]
         IN /\ r \in Engines /\ r.machine = machine /\ r.frame = e.frame + 1
            /\ r.mode = e.mode /\ r.movie = e.movie /\ r.recording = e.recording
            /\ r.name = e.name /\ r.disk = e.disk /\ r.trusted = e.trusted
<1> DEFINE n == e.frame + 1
           r == [e EXCEPT !.machine = machine, !.frame = n]
<1>1. n \in Nat
  BY DEF Engines
<1> HIDE DEF n
<1>2. /\ r \in Engines /\ r.machine = machine /\ r.frame = n
      /\ r.mode = e.mode /\ r.movie = e.movie /\ r.recording = e.recording
      /\ r.name = e.name /\ r.disk = e.disk /\ r.trusted = e.trusted
  BY <1>1 DEF Engines
<1> QED BY <1>2 DEF n

LEMMA FinishedEngine ==
  ASSUME NEW e \in Engines
  PROVE  LET r == Finished(e)
         IN /\ r \in Engines /\ r.mode \in {"inactive", "finished"}
            /\ r.machine = e.machine /\ r.frame = e.frame
            /\ r.movie = e.movie /\ r.recording = e.recording
            /\ r.name = e.name /\ r.disk = e.disk /\ r.trusted = e.trusted
BY DEF Finished, Engines

\* A frame is run by a machine that may wait for a command.
LEMMA RanMachine ==
  ASSUME NEW machine \in Machines, NEW frame \in Frames
  PROVE  LET r == Ran(machine, frame)
             played == [command |-> frame.command \/ machine.command, input |-> frame.input]
         IN /\ r \in Machines /\ r.command = FALSE
            /\ played \in Frames
            /\ r.played = Append(machine.played, played)
<1> DEFINE played == [command |-> frame.command \/ machine.command, input |-> frame.input]
<1>1. played \in Frames
  BY DEF Frames, Machines
<1>2. [frame EXCEPT !.command = @ \/ machine.command] = played
  BY DEF Frames
<1>3. Ran(machine, frame).played = Append(machine.played, played)
      /\ Ran(machine, frame).command = FALSE
  BY <1>2 DEF Ran
<1>4. Append(machine.played, played) \in Seq(Frames)
  BY <1>1, AppendProperties DEF Machines
<1>5. Ran(machine, frame) \in Machines
  BY <1>2, <1>4 DEF Ran, Machines
<1> QED BY <1>1, <1>3, <1>5

\* FCEUI_LoadMovie: the movie of a file is played from its start.
LEMMA LoadedKeeps ==
  ASSUME NEW e, NEW starts, NEW last, NEW command, NEW full, NEW f \in Files,
         Shape(e, starts, last, full)
  PROVE  /\ Shape(Loaded(e, f), starts, last, full)
         /\ Synced(Loaded(e, f), command, full)
<1>1. /\ e \in Engines /\ e.disk[f] \in Movies \cup {NoMovie} /\ f # NoFile
      /\ Known(e.disk[f], starts, last)
  BY MovieAssumption DEF Shape, Engines
<1> DEFINE l == Loaded(e, f)
<1>2. CASE e.disk[f] = NoMovie
  <2>1. l \in Engines /\ l.mode = "inactive" /\ l.movie = NoMovie /\ l.disk = e.disk
    BY <1>1, <1>2 DEF Loaded, Engines
  <2> QED BY <2>1 DEF Shape, Synced, Known
<1>3. CASE e.disk[f] # NoMovie
  <2> DEFINE movie == e.disk[f]
  <2>1. movie \in Movies /\ movie.start \in Machines /\ Len(movie.records) \in Nat
    BY <1>1, <1>3, LenProperties DEF Movies
  <2>2. movie.start.command \in BOOLEAN
    BY <2>1 DEF Machines
  <2>3. /\ l \in Engines /\ l.mode = "play" /\ l.movie = movie /\ l.disk = e.disk
        /\ l.name = f /\ l.frame = 0 /\ l.machine = movie.start
        /\ l.trusted = ~movie.start.command
    BY <1>1, <1>3, <2>1, <2>2 DEF Loaded, Engines
  <2>4. Shape(l, starts, last, full)
    BY <1>1, <1>3, <2>3 DEF Shape
  <2>5. Replays(movie.start, movie, 0)
    BY <2>1, ReplaysNothing
  <2> HIDE DEF l, movie
  <2>6. Replays(l.machine, l.movie, l.frame) /\ 0 <= Len(l.movie.records)
    BY <2>1, <2>3, <2>5
  <2>7. l.trusted => ~l.machine.command
    BY <2>3
  <2>8. Synced(l, command, full)
    BY <2>3, <2>6, <2>7 DEF Synced
  <2> QED BY <2>4, <2>8 DEF l
<1> QED BY <1>2, <1>3

LEMMA PlayFreeKeeps ==
  ASSUME options \in Options, NEW input \in Inputs, NEW starts,
         Shape(emu, starts, guid, options.fullSaveStateLoads),
         Synced(emu, currCommand, options.fullSaveStateLoads), PlayFree(input)
  PROVE  /\ Shape(emu', starts, guid, options.fullSaveStateLoads)
         /\ Synced(emu', currCommand, options.fullSaveStateLoads)
<1> DEFINE full == options.fullSaveStateLoads
           frame == [command |-> FALSE, input |-> input]
           ran == Ran(emu.machine, frame)
<1>1. emu \in Engines /\ emu.machine \in Machines /\ frame \in Frames
      /\ emu.frame \in Nat /\ emu.trusted \in BOOLEAN
  BY DEF Shape, Engines, Frames
<1>2. ran \in Machines
  BY <1>1, RanMachine
<1> HIDE DEF ran
<1> DEFINE e == IF emu.mode = "play" THEN Finished(emu) ELSE emu
<1>0. /\ e \in Engines /\ e.mode \in {"inactive", "finished"}
      /\ e.mode # "inactive" => emu.mode # "inactive"
      /\ e.machine = emu.machine /\ e.frame = emu.frame /\ e.movie = emu.movie
      /\ e.name = emu.name /\ e.disk = emu.disk /\ e.trusted = emu.trusted
  <2>1. CASE emu.mode = "play"
    BY <1>1, <2>1, FinishedEngine
  <2>2. CASE emu.mode # "play"
    BY <1>1, <2>2 DEF PlayFree
  <2> QED BY <2>1, <2>2
<1>7. emu' = [e EXCEPT !.machine = Ran(@, frame), !.frame = @ + 1]
  BY DEF PlayFree
<1> HIDE DEF e
<1>8. emu' = [e EXCEPT !.machine = ran, !.frame = @ + 1]
  BY <1>0, <1>7 DEF ran
<1>3. /\ emu' \in Engines /\ emu'.mode \in {"inactive", "finished"}
      /\ emu'.mode # "inactive" => emu.mode # "inactive"
      /\ emu'.movie = emu.movie /\ emu'.name = emu.name /\ emu'.disk = emu.disk
      /\ emu'.frame = emu.frame + 1 /\ emu'.trusted = emu.trusted
  <2> DEFINE r == [e EXCEPT !.machine = ran, !.frame = @ + 1]
  <2>1. /\ r \in Engines /\ r.machine = ran /\ r.frame = e.frame + 1
        /\ r.mode = e.mode /\ r.movie = e.movie
        /\ r.name = e.name /\ r.disk = e.disk /\ r.trusted = e.trusted
    BY <1>0, <1>2, SteppedEngine
  <2> HIDE DEF r
  <2>2. emu' = r
    BY <1>8 DEF r
  <2> QED BY <1>0, <2>1, <2>2
<1>4. emu'.trusted /\ emu.mode # "inactive" => emu'.frame > Len(emu.movie.records)
  <2>1. ASSUME emu.mode # "inactive", emu.trusted
        PROVE  emu.frame >= Len(emu.movie.records) /\ Len(emu.movie.records) \in Nat
    <3>1. emu.movie \in Movies
      BY <1>1, <2>1 DEF Shape, Engines
    <3> QED BY <2>1, <3>1, LenProperties DEF PlayFree, Synced, Movies
  <2> QED BY <1>1, <1>3, <2>1
<1>5. Shape(emu', starts, guid, full)
  BY <1>3 DEF Shape
<1>6. Synced(emu', currCommand, full)
  <2>1. emu'.mode # "inactive" => Len(emu.movie.records) \in Nat
    <3>1. emu'.mode # "inactive" => emu.movie \in Movies
      BY <1>1, <1>3 DEF Shape, Engines
    <3> QED BY <3>1, LenProperties DEF Movies
  <2> QED BY <1>1, <1>3, <1>4, <2>1 DEF Synced
<1> QED BY <1>5, <1>6

LEMMA PlayRecordKeeps ==
  ASSUME options \in Options, NEW starts,
         Shape(emu, starts, guid, options.fullSaveStateLoads),
         Synced(emu, currCommand, options.fullSaveStateLoads), PlayRecord
  PROVE  /\ Shape(emu', starts, guid, options.fullSaveStateLoads)
         /\ Synced(emu', currCommand, options.fullSaveStateLoads)
<1> DEFINE full == options.fullSaveStateLoads
           movie == emu.movie
           frame == movie.records[emu.frame + 1]
           ran == Ran(emu.machine, frame)
<1>1. /\ emu \in Engines /\ emu.machine \in Machines /\ movie \in Movies
      /\ emu.frame \in Nat /\ emu.trusted \in BOOLEAN
      /\ emu.mode = "play" /\ emu.frame < Len(movie.records)
  BY DEF Shape, Engines, PlayRecord
<1>2. /\ movie.records \in Seq(Frames) /\ Len(movie.records) \in Nat
      /\ movie.start.played \in Seq(Frames)
  BY <1>1, LenProperties DEF Movies, Machines
<1>3. /\ frame \in Frames
      /\ Append(movie.start.played \o SubSeq(movie.records, 1, emu.frame), frame)
           = movie.start.played \o SubSeq(movie.records, 1, emu.frame + 1)
  BY <1>1, <1>2, NextRecord
<1> HIDE DEF frame
<1>4. /\ ran \in Machines /\ ran.command = FALSE
      /\ ran.played = Append(emu.machine.played,
           [command |-> frame.command \/ emu.machine.command, input |-> frame.input])
  BY <1>1, <1>3, RanMachine
<1>5. emu' = [emu EXCEPT !.machine = ran, !.frame = @ + 1]
  BY DEF PlayRecord, frame, ran
<1> HIDE DEF ran
<1>6. /\ emu' \in Engines /\ emu'.mode = "play" /\ emu'.machine = ran
      /\ emu'.movie = movie /\ emu'.name = emu.name /\ emu'.disk = emu.disk
      /\ emu'.frame = emu.frame + 1 /\ emu'.trusted = emu.trusted
  BY <1>1, <1>4, <1>5, SteppedEngine
<1>7. Shape(emu', starts, guid, full)
  BY <1>1, <1>6 DEF Shape
<1>8. ASSUME emu.trusted
      PROVE  Replays(ran, movie, emu.frame + 1)
  <2>1. ~emu.machine.command /\ Replays(emu.machine, movie, emu.frame)
    BY <1>1, <1>2, <1>8 DEF Synced
  <2>2. [command |-> frame.command \/ emu.machine.command, input |-> frame.input] = frame
    BY <1>3, <2>1 DEF Frames
  <2>3. ran.played = movie.start.played \o SubSeq(movie.records, 1, emu.frame + 1)
    BY <1>3, <1>4, <2>1, <2>2 DEF Replays
  <2> QED BY <1>1, <1>2, <2>3 DEF Replays
<1>9. Synced(emu', currCommand, full)
  BY <1>1, <1>2, <1>4, <1>6, <1>8 DEF Synced
<1> QED BY <1>7, <1>9

LEMMA RecordFrameKeeps ==
  ASSUME options \in Options, currCommand \in BOOLEAN, NEW input \in Inputs, NEW starts,
         Shape(emu, starts, guid, options.fullSaveStateLoads),
         Synced(emu, currCommand, options.fullSaveStateLoads), RecordFrame(input)
  PROVE  /\ Shape(emu', starts, guid, options.fullSaveStateLoads)
         /\ Synced(emu', currCommand', options.fullSaveStateLoads)
<1> DEFINE full == options.fullSaveStateLoads
           frame == [command |-> currCommand, input |-> input]
           kept == IF full /\ emu.frame < Len(emu.movie.records)
                   THEN Truncated(emu.movie, emu.frame) ELSE emu.movie
           movie == [kept EXCEPT !.records = Append(@, frame)]
           copy == [emu.disk[emu.name] EXCEPT !.records = Append(@, frame)]
           bare == [frame EXCEPT !.command = FALSE]
           ran == Ran(emu.machine, bare)
<1>1. /\ emu \in Engines /\ emu.machine \in Machines /\ emu.movie \in Movies
      /\ emu.frame \in Nat /\ emu.trusted \in BOOLEAN /\ emu.mode = "record"
      /\ emu.recording = emu.name /\ emu.name \in Files /\ emu.disk[emu.name] \in Movies
      /\ ~full => emu.disk[emu.name] = emu.movie
      /\ full \in BOOLEAN /\ currCommand' = FALSE
  BY OptionsAreBoolean DEF Shape, Engines, RecordFrame
<1>2. /\ emu.movie.records \in Seq(Frames) /\ Len(emu.movie.records) \in Nat
      /\ frame \in Frames /\ bare \in Frames
      /\ bare.command = FALSE /\ bare.input = input
  BY <1>1, LenProperties DEF Movies, Frames
<1>3. /\ kept \in Movies /\ kept.guid = emu.movie.guid /\ kept.start = emu.movie.start
      /\ ~full => kept = emu.movie
  BY <1>1, <1>2, CutMovie
<1> HIDE DEF frame, bare, kept
<1>4. /\ movie \in Movies /\ movie # NoMovie
      /\ movie.guid = emu.movie.guid /\ movie.start = emu.movie.start
      /\ movie.records = Append(kept.records, frame)
  BY <1>2, <1>3, AppendedMovie
<1>5. /\ copy \in Movies /\ copy # NoMovie
      /\ copy.guid = emu.disk[emu.name].guid /\ copy.start = emu.disk[emu.name].start
      /\ ~full => copy = movie
  <2>1. ~full => emu.disk[emu.name] = kept
    BY <1>1, <1>3
  <2>2. ~full => copy = movie
    BY <2>1
  <2> QED BY <1>1, <1>2, <2>2, AppendedMovie
<1>6. /\ ran \in Machines /\ ran.command = FALSE
      /\ ran.played = Append(emu.machine.played,
           [command |-> bare.command \/ emu.machine.command, input |-> bare.input])
  BY <1>1, <1>2, RanMachine
<1> DEFINE disk == [emu.disk EXCEPT ![emu.name] = copy]
           n == emu.frame + 1
           r == [emu EXCEPT !.movie = movie, !.disk = disk, !.machine = ran, !.frame = n]
<1>7. emu' = r
  BY <1>1 DEF RecordFrame, frame, bare, kept
<1> HIDE DEF movie, copy, ran
<1>14. /\ disk \in [Files -> Movies \cup {NoMovie}] /\ n \in Nat
       /\ \A f \in Files : disk[f] = IF f = emu.name THEN copy ELSE emu.disk[f]
  BY <1>1, <1>5 DEF Engines
<1> HIDE DEF disk, n
<1>13. /\ r \in Engines /\ r.machine = ran /\ r.frame = n
       /\ r.mode = emu.mode /\ r.movie = movie /\ r.recording = emu.recording
       /\ r.name = emu.name /\ r.trusted = emu.trusted /\ r.disk = disk
  BY <1>1, <1>4, <1>6, <1>14 DEF Engines
<1> HIDE DEF r
<1>8. r.mode = "record" /\ r.recording = emu.name
  BY <1>1, <1>13
<1>9. Known(movie, starts, guid) /\ Known(copy, starts, guid)
  BY <1>1, <1>4, <1>5, NoMovieAssumption DEF Known, Shape
<1>10. Shape(r, starts, guid, full)
  <2>1. \A f \in Files : Known(r.disk[f], starts, guid)
    BY <1>8, <1>9, <1>13, <1>14 DEF Shape
  <2>2. /\ r.disk[r.name] # NoMovie
        /\ ~full => r.disk[r.name] = r.movie
    BY <1>1, <1>5, <1>13, <1>14
  <2>3. r.name # NoFile
    BY <1>1, <1>13, MovieAssumption
  <2> QED BY <1>4, <1>8, <1>9, <1>13, <2>1, <2>2, <2>3 DEF Shape
<1>11. ASSUME emu.trusted
       PROVE  /\ Replays(ran, movie, emu.frame + 1)
              /\ Len(movie.records) = emu.frame + 1
  <2>1. /\ Replays(emu.machine, emu.movie, emu.frame)
        /\ emu.frame <= Len(emu.movie.records)
        /\ emu.machine.command = currCommand
        /\ ~full => emu.frame = Len(emu.movie.records)
    BY <1>1, <1>2, <1>11 DEF Synced
  <2>2. /\ Len(kept.records) = emu.frame /\ kept.records \in Seq(Frames)
        /\ Replays(emu.machine, kept, emu.frame)
    <3>1. CASE full /\ emu.frame < Len(emu.movie.records)
      BY <1>1, <1>3, <2>1, <3>1, CutMovie DEF kept, Movies
    <3>2. CASE ~(full /\ emu.frame < Len(emu.movie.records))
      BY <1>1, <1>2, <2>1, <3>2 DEF kept
    <3> QED BY <3>1, <3>2
  <2>3. [command |-> bare.command \/ emu.machine.command, input |-> bare.input] = frame
    BY <1>2, <2>1 DEF frame
  <2>4. ran.played = Append(kept.start.played \o SubSeq(kept.records, 1, Len(kept.records)),
                            frame)
    BY <1>6, <2>2, <2>3 DEF Replays
  <2>5. kept.start.played \in Seq(Frames)
    BY <1>3 DEF Movies, Machines
  <2>6. /\ Len(Append(kept.records, frame)) = Len(kept.records) + 1
        /\ ran.played = kept.start.played
                          \o SubSeq(Append(kept.records, frame), 1, Len(kept.records) + 1)
    BY <1>2, <2>2, <2>4, <2>5, RecordedAtEnd
  <2>7. ran.played = movie.start.played \o SubSeq(movie.records, 1, emu.frame + 1)
        /\ Len(movie.records) = emu.frame + 1
    BY <1>3, <1>4, <2>2, <2>6
  <2> QED BY <1>1, <2>7 DEF Replays
<1>12. Synced(r, FALSE, full)
  BY <1>1, <1>6, <1>8, <1>11, <1>13 DEF Synced, n
<1> QED BY <1>1, <1>7, <1>10, <1>12

LEMMA PowerNESKeeps ==
  ASSUME currCommand \in BOOLEAN, NEW starts, NEW full,
         Shape(emu, starts, guid, full), Synced(emu, currCommand, full), PowerNES
  PROVE  /\ Shape(emu', starts, guid, full)
         /\ Synced(emu', currCommand', full)
<1>1. emu \in Engines /\ emu.machine \in Machines /\ emu.machine.played \in Seq(Frames)
  BY DEF Shape, Engines, Machines
<1>2. CASE emu.mode = "record"
  <2> DEFINE machine == [emu.machine EXCEPT !.command = TRUE]
             r == [emu EXCEPT !.machine = machine]
  <2>1. emu' = r /\ currCommand' = TRUE
    BY <1>2 DEF PowerNES
  <2>2. machine \in Machines /\ machine.command = TRUE
        /\ machine.played = emu.machine.played
    BY <1>1 DEF Machines
  <2> HIDE DEF machine
  <2>3. /\ r \in Engines /\ r.machine = machine /\ r.frame = emu.frame
        /\ r.mode = emu.mode /\ r.movie = emu.movie /\ r.recording = emu.recording
        /\ r.name = emu.name /\ r.trusted = emu.trusted /\ r.disk = emu.disk
    BY <1>1, <2>2 DEF Engines
  <2> HIDE DEF r
  <2>4. Shape(r, starts, guid, full)
    BY <2>3 DEF Shape
  <2>5. Synced(r, TRUE, full)
    BY <1>2, <2>2, <2>3 DEF Synced, Replays
  <2> QED BY <2>1, <2>4, <2>5
<1>3. CASE emu.mode # "record"
  <2> DEFINE r == [emu EXCEPT !.machine = PoweredOn, !.frame = 0]
  <2>1. emu' = r /\ emu.mode = "inactive"
    BY <1>3 DEF PowerNES
  <2>2. PoweredOn \in Machines
    BY EmptySeq DEF PoweredOn, Machines
  <2>3. /\ r \in Engines /\ r.mode = emu.mode /\ r.movie = emu.movie
        /\ r.recording = emu.recording
        /\ r.name = emu.name /\ r.disk = emu.disk
    BY <1>1, <2>2 DEF Engines
  <2> HIDE DEF r
  <2>4. Shape(r, starts, guid, full)
    BY <2>1, <2>3 DEF Shape
  <2>5. Synced(r, currCommand', full)
    BY <2>1, <2>3 DEF Synced
  <2> QED BY <2>1, <2>4, <2>5
<1> QED BY <1>2, <1>3

LEMMA PlayFromBeginningKeeps ==
  ASSUME NEW starts, NEW full, NEW command,
         Shape(emu, starts, guid, full), PlayFromBeginning
  PROVE  /\ Shape(emu', starts, guid, full)
         /\ Synced(emu', command, full)
<1>1. /\ emu \in Engines /\ emu.mode # "inactive" /\ emu.movie \in Movies
      /\ emu.name \in Files /\ Len(emu.movie.records) \in Nat
  BY LenProperties DEF Shape, Engines, PlayFromBeginning, Movies
<1>2. CASE emu.movie.start = PoweredOn
  <2> DEFINE r == [emu EXCEPT !.mode = "play", !.machine = PoweredOn, !.frame = 0,
                              !.trusted = TRUE]
  <2>1. emu' = r
    BY <1>2 DEF PlayFromBeginning
  <2>2. PoweredOn \in Machines /\ PoweredOn.command = FALSE
    BY EmptySeq DEF PoweredOn, Machines
  <2>3. /\ r \in Engines /\ r.mode = "play" /\ r.movie = emu.movie
        /\ r.machine = PoweredOn /\ r.frame = 0 /\ r.name = emu.name /\ r.disk = emu.disk
    BY <1>1, <2>2 DEF Engines
  <2>4. Replays(PoweredOn, emu.movie, 0)
    BY <1>1, <1>2, ReplaysNothing
  <2> HIDE DEF r
  <2>5. Shape(r, starts, guid, full)
    BY <1>1, <2>3 DEF Shape
  <2>6. Synced(r, command, full)
    BY <1>1, <2>2, <2>3, <2>4 DEF Synced
  <2> QED BY <2>1, <2>5, <2>6
<1>3. CASE emu.movie.start # PoweredOn
  <2>1. emu' = Loaded(Stopped(emu), emu.name)
    BY <1>3 DEF PlayFromBeginning
  <2>2. Shape(Stopped(emu), starts, guid, full)
    BY StoppedKeeps
  <2> QED BY <1>1, <2>1, <2>2, LoadedKeeps
<1> QED BY <1>2, <1>3

\* One more movie, with a guid of its own, leaves the others known.
LEMMA KnownStill ==
  ASSUME NEW starts, NEW last \in Nat, NEW more, NEW movie,
         \A g \in 1..last : more[g] = starts[g], Known(movie, starts, last)
  PROVE  Known(movie, more, last + 1)
<1> SUFFICES ASSUME movie # NoMovie
             PROVE  movie \in Movies /\ movie.guid <= last + 1
                    /\ movie.start = more[movie.guid]
  BY DEF Known
<1>1. movie \in Movies /\ movie.guid <= last /\ movie.start = starts[movie.guid]
  BY DEF Known
<1>2. movie.guid \in 1..MaxGuid
  BY <1>1 DEF Movies
<1> QED BY <1>1, <1>2, MovieAssumption

LEMMA ShapeStill ==
  ASSUME NEW starts, NEW last \in Nat, NEW more, NEW e, NEW full,
         \A g \in 1..last : more[g] = starts[g], Shape(e, starts, last, full)
  PROVE  Shape(e, more, last + 1, full)
BY KnownStill DEF Shape

LEMMA RestorableStill ==
  ASSUME NEW starts, NEW last \in Nat, NEW more, NEW s,
         \A g \in 1..last : more[g] = starts[g], Restorable(s, starts, last)
  PROVE  Restorable(s, more, last + 1)
BY KnownStill DEF Restorable

LEMMA SaveMovieKeeps ==
  ASSUME options \in Options, guid \in 0..MaxGuid,
         NEW starts \in [1..MaxGuid -> Machines], NEW full,
         NEW file \in Files, NEW fromPoweron \in BOOLEAN,
         Shape(emu, starts, guid, full), SaveMovie(file, fromPoweron)
  PROVE  \E more \in [1..MaxGuid -> Machines] :
           /\ \A g \in 1..guid : more[g] = starts[g]
           /\ Shape(emu', more, guid', full)
           /\ Synced(emu', currCommand', full)
<1> DEFINE e == Stopped(emu)
           start == IF fromPoweron THEN PoweredOn ELSE e.machine
           movie == [guid |-> guid + 1, start |-> start, records |-> <<>>]
           more == [starts EXCEPT ![guid + 1] = start]
           named == [e EXCEPT !.name = file]
           r == Rewritten(named, movie)
           w == [r EXCEPT !.mode = "record", !.frame = 0, !.machine = start,
                          !.trusted = ~start.command]
<1>1. /\ guid \in Nat /\ guid + 1 \in 1..MaxGuid /\ guid' = guid + 1
      /\ emu' = w /\ currCommand' = FALSE
  BY MovieAssumption DEF SaveMovie
<1>2. e \in Engines /\ Shape(e, starts, guid, full)
  BY StoppedKeeps
<1>3. start \in Machines
  <2>1. PoweredOn \in Machines
    BY EmptySeq DEF PoweredOn, Machines
  <2> QED BY <1>2, <2>1 DEF Engines
<1> HIDE DEF e, start
<1>4. /\ movie \in Movies /\ movie.guid = guid + 1 /\ movie.start = start
      /\ movie.records = <<>>
  BY <1>1, <1>3, EmptySeq DEF Movies
<1>5. /\ more \in [1..MaxGuid -> Machines] /\ more[guid + 1] = start
      /\ \A g \in 1..guid : more[g] = starts[g]
  BY <1>1, <1>3
<1> HIDE DEF movie, more
<1>6. Known(movie, more, guid + 1)
  BY <1>1, <1>4, <1>5 DEF Known
<1>7. Shape(e, more, guid + 1, full)
  BY <1>1, <1>2, <1>5, ShapeStill
<1>8. named \in Engines /\ named.name = file /\ named.disk = e.disk
  BY <1>2 DEF Engines
<1>9. \A f \in Files : Known(named.disk[f], more, guid + 1)
  BY <1>7, <1>8 DEF Shape
<1> HIDE DEF named
<1>10. /\ r \in Engines /\ r.movie = movie /\ r.recording = file /\ r.disk[file] = movie
       /\ r.name = file
       /\ \A f \in Files : Known(r.disk[f], more, guid + 1)
  BY <1>4, <1>6, <1>8, <1>9, RewrittenEngine
<1> HIDE DEF r
<1>11. start.command \in BOOLEAN
  BY <1>3 DEF Machines
<1>12. /\ w \in Engines /\ w.mode = "record" /\ w.frame = 0 /\ w.machine = start
       /\ w.trusted = ~start.command /\ w.movie = r.movie /\ w.recording = r.recording
       /\ w.disk = r.disk /\ w.name = r.name
  BY <1>3, <1>10, <1>11 DEF Engines
<1> HIDE DEF w
<1>13. movie # NoMovie /\ file # NoFile
  BY <1>4, MovieAssumption, NoMovieAssumption
<1>14. Shape(w, more, guid + 1, full)
  BY <1>6, <1>10, <1>12, <1>13 DEF Shape
<1>15. Replays(start, movie, 0)
  BY <1>4, ReplaysNothing
<1>16. Len(movie.records) = 0
  BY <1>4, EmptySeq
<1>17. Synced(w, FALSE, full)
  <2>1. w.movie = movie /\ w.recording = w.name /\ Len(w.movie.records) = 0
    BY <1>10, <1>12, <1>16
  <2>2. Replays(w.machine, w.movie, w.frame)
    BY <1>12, <1>15, <2>1
  <2>3. w.trusted => w.machine.command = FALSE
    BY <1>11, <1>12
  <2> QED BY <1>12, <2>1, <2>2, <2>3 DEF Synced
<1> QED BY <1>1, <1>5, <1>14, <1>17

-----------------------------------------------------------------------------
(* The invariant. *)

LEMMA InitSound ==
  ASSUME Init
  PROVE  MovieInv
<1> DEFINE starts == [g \in 1..MaxGuid |-> PoweredOn]
           full == options.fullSaveStateLoads
<1>1. PoweredOn \in Machines /\ PoweredOn.command = FALSE
  BY EmptySeq DEF PoweredOn, Machines
<1>2. starts \in [1..MaxGuid -> Machines]
  BY <1>1
<1> HIDE DEF starts
<1>3. /\ emu \in Engines /\ emu.mode = "inactive" /\ emu.movie = NoMovie
      /\ \A f \in Files : emu.disk[f] = NoMovie
  BY <1>1 DEF Init, Engines
<1>4. Shape(emu, starts, guid, full)
  BY <1>3 DEF Shape, Known
<1>5. Synced(emu, currCommand, full)
  BY <1>3 DEF Synced
<1>6. Restorable(SavedState(emu), starts, guid)
  BY <1>4, <1>5, SavedStateKeeps
<1>7. saved \in [Slots -> SavedStates] /\ \A s \in Slots : saved[s] = SavedState(emu)
  <2>1. SavedState(emu) \in SavedStates
    BY <1>6 DEF Restorable
  <2> QED BY <2>1 DEF Init
<1>8. Sound(starts)
  BY <1>4, <1>5, <1>6, <1>7 DEF Sound
<1>9. /\ movie_readonly \in BOOLEAN /\ currCommand \in BOOLEAN
      /\ options \in Options /\ guid \in 0..MaxGuid
  <2>1. movie_readonly = TRUE /\ currCommand = FALSE /\ options \in Options /\ guid = 0
    BY DEF Init
  <2>2. guid \in 0..MaxGuid
    BY <2>1, MovieAssumption
  <2> QED BY <2>1, <2>2
<1> QED BY <1>2, <1>8, <1>9 DEF MovieInv

\* What an action does to the engine, with the savestates left alone.
LEMMA EngineStep ==
  ASSUME NEW starts, Sound(starts),
         Shape(emu', starts, guid, options.fullSaveStateLoads),
         Synced(emu', currCommand', options.fullSaveStateLoads),
         UNCHANGED <<saved, options, guid>>
  PROVE  Sound(starts)'
BY DEF Sound

LEMMA NextKeeps ==
  ASSUME MovieInv, [Next]_vars
  PROVE  MovieInv'
<1> DEFINE full == options.fullSaveStateLoads
<1>0. PICK starts \in [1..MaxGuid -> Machines] : Sound(starts)
  BY DEF MovieInv
<1>1. /\ Shape(emu, starts, guid, full) /\ Synced(emu, currCommand, full)
      /\ saved \in [Slots -> SavedStates]
      /\ \A s \in Slots : Restorable(saved[s], starts, guid)
      /\ movie_readonly \in BOOLEAN /\ currCommand \in BOOLEAN
      /\ options \in Options /\ guid \in 0..MaxGuid
  BY <1>0 DEF Sound, MovieInv
<1> USE <1>1
<1>2. ASSUME NEW input \in Inputs, Frame(input)
      PROVE  MovieInv'
  <2>1. UNCHANGED <<saved, movie_readonly, options, guid>>
    BY <1>2 DEF Frame
  <2>2. /\ Shape(emu', starts, guid, full) /\ Synced(emu', currCommand', full)
        /\ currCommand' \in BOOLEAN
    <3>1. CASE PlayFree(input)
      <4>1. currCommand' = currCommand
        BY <3>1 DEF PlayFree
      <4> QED BY <3>1, <4>1, PlayFreeKeeps
    <3>2. CASE PlayRecord
      <4>1. currCommand' = currCommand
        BY <3>2 DEF PlayRecord
      <4> QED BY <3>2, <4>1, PlayRecordKeeps
    <3>3. CASE RecordFrame(input)
      <4>1. currCommand' = FALSE
        BY <3>3 DEF RecordFrame
      <4> QED BY <3>3, <4>1, RecordFrameKeeps
    <3> QED BY <1>2, <3>1, <3>2, <3>3 DEF Frame
  <2>3. Sound(starts)'
    BY <1>0, <2>1, <2>2, EngineStep
  <2> QED BY <2>1, <2>2, <2>3 DEF MovieInv
<1>3. CASE PowerNES
  <2>1. UNCHANGED <<saved, movie_readonly, options, guid>> /\ currCommand' \in BOOLEAN
    BY <1>3 DEF PowerNES
  <2>2. Shape(emu', starts, guid, full) /\ Synced(emu', currCommand', full)
    BY <1>3, PowerNESKeeps
  <2>3. Sound(starts)'
    BY <1>0, <2>1, <2>2, EngineStep
  <2> QED BY <2>1, <2>3 DEF MovieInv
<1>4. ASSUME NEW file \in Files, NEW fromPoweron \in BOOLEAN, SaveMovie(file, fromPoweron)
      PROVE  MovieInv'
  <2>1. /\ UNCHANGED <<saved, options>> /\ currCommand' = FALSE /\ movie_readonly' = FALSE
        /\ guid' = guid + 1 /\ guid < MaxGuid
    BY <1>4 DEF SaveMovie
  <2>2. PICK more \in [1..MaxGuid -> Machines] :
          /\ \A g \in 1..guid : more[g] = starts[g]
          /\ Shape(emu', more, guid', full) /\ Synced(emu', currCommand', full)
    BY <1>4, SaveMovieKeeps
  <2>3. guid \in Nat /\ guid' \in 0..MaxGuid
    BY <2>1, MovieAssumption
  <2>4. \A s \in Slots : Restorable(saved[s], more, guid + 1)
    BY <2>2, <2>3, RestorableStill
  <2>5. Sound(more)'
    BY <2>1, <2>2, <2>4 DEF Sound
  <2> QED BY <2>1, <2>2, <2>3, <2>5 DEF MovieInv
<1>5. ASSUME NEW file \in Files, NEW readonly \in BOOLEAN, LoadMovie(file, readonly)
      PROVE  MovieInv'
  <2>1. /\ UNCHANGED <<saved, currCommand, options, guid>> /\ movie_readonly' \in BOOLEAN
        /\ emu' = Loaded(emu, file)
    BY <1>5 DEF LoadMovie
  <2>2. Shape(emu', starts, guid, full) /\ Synced(emu', currCommand', full)
    BY <2>1, LoadedKeeps
  <2>3. Sound(starts)'
    BY <1>0, <2>1, <2>2, EngineStep
  <2> QED BY <2>1, <2>3 DEF MovieInv
<1>6. CASE StopMovie
  <2>1. /\ UNCHANGED <<saved, movie_readonly, currCommand, options, guid>>
        /\ emu' = Stopped(emu)
    BY <1>6 DEF StopMovie
  <2>2. Shape(emu', starts, guid, full) /\ Synced(emu', currCommand', full)
    BY <2>1, StoppedKeeps
  <2>3. Sound(starts)'
    BY <1>0, <2>1, <2>2, EngineStep
  <2> QED BY <2>1, <2>3 DEF MovieInv
<1>7. CASE ToggleReadOnly
  <2>1. UNCHANGED <<emu, saved, currCommand, options, guid>> /\ movie_readonly' \in BOOLEAN
    BY <1>7 DEF ToggleReadOnly
  <2>2. Sound(starts)'
    BY <1>0, <2>1, EngineStep
  <2> QED BY <2>1, <2>2 DEF MovieInv
<1>8. CASE PlayFromBeginning
  <2>1. UNCHANGED <<saved, currCommand, options, guid>> /\ movie_readonly' = TRUE
    BY <1>8 DEF PlayFromBeginning
  <2>2. Shape(emu', starts, guid, full) /\ Synced(emu', currCommand', full)
    BY <1>8, PlayFromBeginningKeeps
  <2>3. Sound(starts)'
    BY <1>0, <2>1, <2>2, EngineStep
  <2> QED BY <2>1, <2>3 DEF MovieInv
<1>9. ASSUME NEW s \in Slots, SaveState(s)
      PROVE  MovieInv'
  <2>1. /\ UNCHANGED <<emu, movie_readonly, currCommand, options, guid>>
        /\ saved' = [saved EXCEPT ![s] = SavedState(emu)]
    BY <1>9 DEF SaveState
  <2>2. Restorable(SavedState(emu), starts, guid)
    BY SavedStateKeeps
  <2>3. /\ saved' \in [Slots -> SavedStates]
        /\ \A t \in Slots : Restorable(saved'[t], starts, guid)
    BY <2>1, <2>2 DEF Restorable
  <2>4. Sound(starts)'
    BY <2>1, <2>3 DEF Sound
  <2> QED BY <2>1, <2>4 DEF MovieInv
<1>10. ASSUME NEW s \in Slots, LoadState(s)
       PROVE  MovieInv'
  <2>1. /\ UNCHANGED <<saved, movie_readonly, currCommand, options, guid>>
        /\ emu' = LoadFP(emu, saved[s]).emu
    BY <1>10 DEF LoadState
  <2>2. Shape(emu', starts, guid, full) /\ Synced(emu', currCommand', full)
    BY <2>1, LoadFPKeeps
  <2>3. Sound(starts)'
    BY <1>0, <2>1, <2>2, EngineStep
  <2> QED BY <2>1, <2>3 DEF MovieInv
<1>11. CASE UNCHANGED vars
  <2>1. UNCHANGED <<emu, saved, movie_readonly, currCommand, options, guid>>
    BY <1>11 DEF vars
  <2>2. Sound(starts)'
    BY <1>0, <2>1, EngineStep
  <2> QED BY <2>1, <2>2 DEF MovieInv
<1> QED BY <1>2, <1>3, <1>4, <1>5, <1>6, <1>7, <1>8, <1>9, <1>10, <1>11 DEF Next

\* The invariant, of every behaviour of the specification.
THEOREM MovieInvariant == Spec => []MovieInv
<1>1. Init => MovieInv
  BY InitSound
<1>2. MovieInv /\ [Next]_vars => MovieInv'
  BY NextKeeps
<1> QED BY <1>1, <1>2, PTL DEF Spec

LEMMA MovieInvImplies ==
  ASSUME MovieInv
  PROVE  TypeOK /\ InSync /\ RecordingHasFile /\ FileIsMovie
<1> DEFINE full == options.fullSaveStateLoads
<1>0. PICK starts \in [1..MaxGuid -> Machines] : Sound(starts)
  BY DEF MovieInv
<1>1. /\ Shape(emu, starts, guid, full) /\ Synced(emu, currCommand, full)
      /\ saved \in [Slots -> SavedStates]
      /\ movie_readonly \in BOOLEAN /\ currCommand \in BOOLEAN
      /\ options \in Options /\ guid \in 0..MaxGuid
  BY <1>0 DEF Sound, MovieInv
<1>2. TypeOK
  BY <1>1 DEF TypeOK, Shape
<1>3. InSync
  BY <1>1 DEF InSync, Synced, Shape
<1>4. RecordingHasFile
  BY <1>1 DEF RecordingHasFile, Synced, Shape
<1>5. FileIsMovie
  BY <1>1 DEF FileIsMovie, Shape
<1> QED BY <1>2, <1>3, <1>4, <1>5

\* The variables keep their types, whatever the bounds.
THEOREM MovieTypeCorrect == Spec => []TypeOK
BY MovieInvariant, MovieInvImplies, PTL

\* A movie played or recorded is in step with the machine, whatever states
\* were loaded into it, accepted, refused and undone (FCEUMOV_AddInputState,
\* FCEUMOV_ReadState, FCEUSS_LoadFP).
THEOREM MovieInStep == Spec => []InSync
BY MovieInvariant, MovieInvImplies, PTL

\* The frame that FCEUMOV_AddInputState records is written to an open file.
THEOREM RecordingKeepsFile == Spec => []RecordingHasFile
BY MovieInvariant, MovieInvImplies, PTL

\* What is in the file of a movie being recorded is the movie.
THEOREM FileHoldsMovie == Spec => []FileIsMovie
BY MovieInvariant, MovieInvImplies, PTL

-----------------------------------------------------------------------------
(* Read-only. *)

\* What a step may do to a movie that is read-only: stop it.
Protected(e, r) ==
  /\ r \in Engines /\ r.disk = e.disk
  /\ r.mode # "inactive" => e.mode # "inactive" /\ r.movie = e.movie

LEMMA ReadStateProtects ==
  ASSUME movie_readonly, NEW e \in Engines, e.mode # "inactive", NEW movie \in Movies
  PROVE  Protected(e, ReadState(e, movie).emu)
<1> DEFINE c == [e EXCEPT !.recording = NoFile]
           p == [c EXCEPT !.mode = "play"]
           r == ReadState(e, movie)
<1>1. c \in Engines /\ c.disk = e.disk /\ c.movie = e.movie /\ c.mode = e.mode
  BY DEF Engines
<1>2. Protected(e, c)
  BY <1>1 DEF Protected
<1>3. p \in Engines /\ p.disk = e.disk /\ p.movie = e.movie
  BY <1>1 DEF Engines
<1>4. Protected(e, p)
  BY <1>3 DEF Protected
<1>5. ASSUME NEW x \in {e, c}
      PROVE  Protected(e, Stopped(x))
  <2>1. x \in Engines /\ x.disk = e.disk
    BY <1>1, <1>5
  <2>2. Stopped(x) \in Engines /\ Stopped(x).disk = x.disk /\ Stopped(x).mode = "inactive"
    BY <2>1 DEF Stopped, Engines
  <2> QED BY <2>1, <2>2 DEF Protected
<1>6. Protected(e, e)
  BY DEF Protected
<1>7. r.emu \in {e, c, p, Stopped(e), Stopped(c)}
  BY DEF ReadState, Refused, Accepted
<1> HIDE DEF c, p, r
<1> QED BY <1>2, <1>4, <1>5, <1>6, <1>7 DEF r

LEMMA ChunksProtect ==
  ASSUME movie_readonly, NEW e \in Engines, NEW s \in SavedStates
  PROVE  Protected(e, Chunks(e, s).emu)
<1> DEFINE read == [e EXCEPT !.machine = s.machine, !.frame = s.frame,
                             !.trusted = s.trusted /\ s.movie # NoMovie /\ ~currCommand]
<1>1. /\ s.machine \in Machines /\ s.frame \in Nat /\ s.trusted \in BOOLEAN
      /\ s.movie \in Movies \cup {NoMovie}
  BY DEF SavedStates
<1>2. /\ read \in Engines /\ read.mode = e.mode /\ read.movie = e.movie
      /\ read.disk = e.disk
  BY <1>1 DEF Engines
<1>3. Chunks(e, s) = IF e.mode = "inactive" \/ s.movie = NoMovie THEN Accepted(read)
                     ELSE ReadState(read, s.movie)
  BY DEF Chunks
<1> HIDE DEF read
<1>4. CASE e.mode = "inactive" \/ s.movie = NoMovie
  <2>1. Chunks(e, s).emu = read
    BY <1>3, <1>4 DEF Accepted
  <2> QED BY <1>2, <2>1 DEF Protected
<1>5. CASE e.mode # "inactive" /\ s.movie # NoMovie
  <2>1. Protected(read, ReadState(read, s.movie).emu)
    BY <1>1, <1>2, <1>5, ReadStateProtects
  <2>2. Chunks(e, s).emu = ReadState(read, s.movie).emu
    BY <1>3, <1>5
  <2> QED BY <1>2, <2>1, <2>2 DEF Protected
<1> QED BY <1>4, <1>5

LEMMA LoadFPProtects ==
  ASSUME movie_readonly, NEW e \in Engines, NEW s \in SavedStates,
         SavedState(e) \in SavedStates
  PROVE  Protected(e, LoadFP(e, s).emu)
<1> DEFINE chunks == Chunks(e, s).emu
           undone == Chunks(chunks, SavedState(e)).emu
<1>1. Protected(e, chunks)
  BY ChunksProtect
<1>2. chunks \in Engines
  BY <1>1 DEF Protected
<1>3. Protected(chunks, undone)
  BY <1>2, ChunksProtect
<1>4. LoadFP(e, s).emu \in {chunks, undone}
  BY DEF LoadFP
<1> HIDE DEF chunks, undone
<1>5. Protected(e, undone)
  BY <1>1, <1>3 DEF Protected
<1> QED BY <1>1, <1>4, <1>5

\* Read-only protects the movie and its file from any frame and any savestate
\* (FCEUMOV_AddInputState, FCEUSS_LoadFP).
THEOREM ReadOnlyProtects == Spec => ReadOnlyKeepsMovie
<1> DEFINE Keeps == /\ emu'.mode # "inactive" => emu'.movie = emu.movie
                    /\ emu'.disk = emu.disk
<1>1. ASSUME MovieInv, movie_readonly, emu.mode \in {"play", "finished"},
             NEW input \in Inputs, Frame(input)
      PROVE  Keeps
  <2>1. emu \in Engines
    BY <1>1, MovieInvImplies DEF TypeOK
  <2>2. CASE PlayFree(input)
    <3> DEFINE e == IF emu.mode = "play" THEN Finished(emu) ELSE emu
    <3>1. e \in Engines /\ e.disk = emu.disk /\ e.movie = emu.movie
      BY <2>1, FinishedEngine
    <3>2. emu' = [e EXCEPT !.machine = Ran(@, [command |-> FALSE, input |-> input]),
                           !.frame = @ + 1]
      BY <2>2 DEF PlayFree
    <3> HIDE DEF e
    <3>3. emu'.disk = e.disk /\ emu'.movie = e.movie
      BY <3>1, <3>2 DEF Engines
    <3> QED BY <3>1, <3>3
  <2>3. CASE PlayRecord
    BY <2>1, <2>3 DEF PlayRecord, Engines
  <2>4. ~RecordFrame(input)
    BY <1>1 DEF RecordFrame
  <2> QED BY <1>1, <2>2, <2>3, <2>4 DEF Frame
<1>2. ASSUME MovieInv, movie_readonly, NEW s \in Slots, LoadState(s)
      PROVE  Keeps
  <2>1. emu \in Engines /\ saved[s] \in SavedStates
    BY <1>2, MovieInvImplies DEF TypeOK
  <2>2. SavedState(emu) \in SavedStates
    <3>1. PICK starts : Sound(starts)
      BY <1>2 DEF MovieInv
    <3> QED BY <3>1, SavedStateKeeps DEF Sound, Restorable
  <2>3. Protected(emu, LoadFP(emu, saved[s]).emu)
    BY <1>2, <2>1, <2>2, LoadFPProtects
  <2> QED BY <1>2, <2>3 DEF LoadState, Protected
<1>3. MovieInv /\ [Next]_vars =>
        [movie_readonly /\ emu.mode \in {"play", "finished"}
           /\ ((\E input \in Inputs : Frame(input)) \/ (\E s \in Slots : LoadState(s)))
         => Keeps]_vars
  BY <1>1, <1>2
<1> QED BY <1>3, MovieInvariant, PTL DEF Spec, ReadOnlyKeepsMovie

=============================================================================
