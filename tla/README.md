# Verification of tastiness

tastiness is a web page for editing NES speed-run movies on top of the fceux
emulator.  A C++ server holds the movie and a savestate for each of its frames,
plays any frame on request, and searches for good inputs with A*.  This
directory holds TLA+ models of its own code and of the parts of the fceux tree
that keep movies and savestates together, the TLC runs that check them, and
proofs TLAPS checks about them.

## The system

| Part | Source | State | Operations | Talks to |
|---|---|---|---|---|
| Movie timeline server | `tastiness-main.cc` | `gInputTimeline`, `gEmuInitialState`, `gEmuStateTimeline`, the live emulator | `openRom`, `setFrameInputs`, `setRamBlackoutBytes`, `getFrame`, `initAStar` (emulates to its frame) | emulator library; page through commands |
| A* search | `struct AStar` and `cmd_initAStar`, `cmd_workAStar` in `tastiness-main.cc` | `gAStar`: nodes by RAM hash, priority queue, open and closed sets, parents, start state | `initFromCurrentEmulatorState`, `work1`, `getStatus` | shares `gRamBlackoutBytes`, the ROM and the Lua heuristic with the commands |
| Emulator library | `emulator.cc`, `emulator.h` | the singleton emulator, `initialized`, the step cache | `Initialize`, `Shutdown`, `Step`, `Save/LoadUncompressed`, `SaveEx/LoadEx`, `ResetCache`, `CachingStep` | fceux, linked in |
| Web page | `html_ui/main.coffee` | its own copy of the movie and the blackout bytes, changed flags, current frame, a 100 ms timeout, the frame a search began at | piano roll, FM2 and ROM files, frame boxes, RAM view, A* buttons | websocket to the server |
| Connections and dispatch | `websocket_*_handler` in `tastiness-main.cc`, `class Connection` in `main.coffee` | `gConn`, the open socket | ready, data, reconnect on close | one server thread per connection, serialised by `gMutex` |
| Lua heuristic | `tastiness-main.cc` | the program, its load error | `setLuaSource`, run on a state | A*, `getFrame` |
| Savestate slots | `fceux/src/state.cpp`, keys in `input.cpp` | a file and a backup for each slot, one backup of the place left by a load, the flags of two undo commands | select, save, load, undo and redo of either | movie engine, file system |
| Movie engine | `fceux/src/movie.cpp`, the movie chunk in `state.cpp` | mode, movie, frame counter, the stream a recording is written to, read-only | record, play, stop, play from the beginning, a frame, power, save and load a state | savestates, movie files |
| Network server | `fceux/fceux-server/server.cpp` | a table of clients and a table of games with seats | accept, login, buttons, commands, the broadcast of each game, removal | one TCP connection per client |
| TAS editor | `fceux/src/drivers/win/taseditor/` | movie, Greenzone, LagLog, a ring of history items, bookmarks | edits, a frame and the update after it, undo and redo, set and deploy a bookmark | movie engine, emulator |
| Netplay client, CPU, PPU, sound, boards, drivers | `fceux/` | | | in-tree emulator |
| cityhash, mongoose | vendored, submodule | | | RAM hash, web server |

What is hard about it, and so what the properties are about:

- **A cache that must not be seen.**  A frame is played from the savestate cached
  for the frame before.  Editing, cutting and extending the movie, changing the
  ROM and asking for frames in any order must never build on a state that was
  recorded under other inputs.
- **A search that identifies states by a hash of part of them.**  Different
  states share a node, the path is read back from hashes alone, and the hash
  function, the ROM and the heuristic can all change while the search is kept.
- **Two copies of one movie.**  Page and server each hold the movie; edits are
  sent late, and not at all while the socket is closed; a new connection sends
  the server's copy back; commands of an old connection can still arrive.
- **Answers to a question that was dropped.**  A status of a search is written
  into the movie behind the frame the page has in mind when it arrives.
- **Hand-kept counts and sequence numbers** in the step cache, with a boundary
  at limit + slop and another at limit 0.
- **Undo commands made of renamed files and flags.**  Which file an undo restores
  depends on what was saved, loaded, undone or failed to be written in between.
- **Savestates with a movie inside.**  Loading one may keep, cut, replace, stop or
  refuse the movie that is open, and is undone after it has changed half of it.
- **Tables changed while they are walked.**  A peer that dies is removed in the
  middle of the broadcast that found it dead, or of its own login.
- **An editor over a machine that has already run.**  Every edit must throw away
  exactly the savestates it contradicts, and undo must find the movie it left.
- **CHECKs and aborts** that end the server, and with it the movie.

`PROJECT.json` lists these, line by line, under `hazards`.

## The modules

`Emulator` is the machine everything of tastiness runs on: a deterministic `Step`
over savestates, with the ROM as an argument since a savestate does not contain
the cartridge.  States, inputs and the step function are constants, so what is
proved holds of every machine.  That a savestate loads back to itself is
assumed (`FCEUSS_SaveRAW`, `FCEUSS_LoadRAW`).  A file that is no game is a
member of `Roms` like any other: `cmd_openRom` ignores the failure.  `Movie` and
`TasEditor`, whose machine has no cartridge to change, take the machine to be
the list of what it was given: equal lists, equal machines.

| Module | Models | Correspondence |
|---|---|---|
| `Timeline` | the server's movie and cache | one action per command; `FilledTo` and `SteppedInto` are the two halves of `emulateToFrame`; `InvalidatesFrom` is the loop of `cmd_setFrameInputs` |
| `TasPlayer` | what the server promises: playing a movie, no cache | abstract specification; `Timeline` implements it with `movie <- inputs`, `machine <- initialState`, `screen <- shown` |
| `AStar` | the search | `InitAStar`, then a `workAStar` command as `BeginWork`, `Rounds` times `Work1` and a `Report`; every CHECK is an action of its own that ends the process |
| `StateCache` | emulator library and step cache | one action per function; `CachingStep` is split into hit, miss and failed CHECK |
| `LruCache` | what the step cache promises: a list in order of use | abstract specification; refinement mapping `Recency` sorts the keys by sequence number |
| `Session` | page, connections, ready and data handlers | one action per user gesture, browser event and handler; `FrameChanged` and `FrameCountChanged` are the two mutually recursive functions of the page |
| `SearchPage` | the A* buttons, the status that writes a path, the commands behind them | one action per click, per message taken by the page and per command handled; the search answers with any path from the machine `cmd_initAStar` left it in.  `PageInit`, `PageNext` and `PageSpec`, so that the module can stand beside `AStar` |
| `SaveSlots` | fceux's savestate slots and their undo | one action per hot key or menu command: `SaveState` and `LoadState` select the slot, do the work and select again as the key does; `RedoLoadState` and `LoadBackup` are the two branches of the menu's Undo loadstate |
| `Movie` | fceux's movie engine | one action per command and one for a frame (`FCEUMOV_AddInputState`, then the machine); `LoadState` is all of `FCEUSS_LoadFP`: the chunks, the movie's verdict, the backup loaded when it refuses |
| `NetServer` | the network play server | one action for what the loop does with one client or one game; `KillClient` and `SendToAll` are operators on the two tables, since the code calls them in the middle of a broadcast, of a login and of each other |
| `TasEditor` | Greenzone, LagLog, History, Bookmarks | one action per edit or command and one for an emulated frame with the update after it; the operators on the record `ed` are the classes' methods |

`MCEmulator` gives the machine of the small instances of `Timeline`, `AStar` and
`StateCache`, and the inputs of `SearchPage`.  A state of it is the list of all steps made, so no two different
plays end in one state: nothing can be right by coincidence.  The other `MC...`
modules add bounds, movies and symmetry.  The `...Proofs` modules hold the
theorems, `AStarProofs` those of `SearchPage` too.

`gMutex` is held from the first line of a handler to its last, which makes a
handler one action.  The exception is `workAStar`, whose 100 rounds are steps
of their own: nothing else can happen in between, and each round is checked.
The network server is one thread that never blocks, and the editor's window is
one thread.

A definition whose name ends in what is wrong with it (`FilledToOversized`,
`WithPathAtStart`, ...) is a plausible bug, used only to see that the property it
is listed with in `PROJECT.json` would notice it.

### Abstractions

- **Timeline.** A frame sent to the page is the state it was drawn from; what
  the Lua program prints is left out.  `getFrame` leaves the emulator one step
  further under input 255, as the loop of
  `getDistinctNextNodesFromCurrentEmulatorState` does.  Frame numbers are
  naturals: the page never asks for another.
- **AStar.** The heap decides between nodes of equal cost: any of them may be
  on top.  The hash 0, which the code uses for "no hash" too, is no RAM's hash.
  A search starts from any state of `StartStates`, the frames `emulateToFrame`
  can reach.  A Lua program is the heuristic it computes; heuristics are
  integers.
- **StateCache.** `MaxSequence` bounds the sequence numbers (64 bits in the
  code).  Hits and misses are not counted.
- **Session.** A `FileReader` finishes in the order it was started.  A reply to
  a closed `gConn` is lost.  One page is open at a time.  A frame that is
  answered is the list of inputs it was played with, and a recorded state of the
  server's cache the input it was stepped with: what it was stepped from is the
  state before it (`CachedByPlay` of `Timeline`).  So states that survive a
  shortening are in the model with the inputs that were cut off.
  Editing past the end appends `Padding` bytes, 100 in the page and 1 in the run.
  A crash and the restart after it are one action.
- **SearchPage.** The connection stays up and movies give every frame an input.
  A click while the socket is not open is left out: `Connection.send` drops it,
  and the next click makes the server work on a search it does not have.
- **SaveSlots.** A file is the place it was saved in, or missing, or unreadable in
  one of four ways that the code treats differently: cut short (`Broken`, nothing of
  it is loaded), unreadable half way in the current or in FCEU's format (`Foreign`,
  `OldState`), or beginning like neither (`Headless`).  For the last two the backup
  in memory is loaded without being rewound (`state.cpp:706`, against `:757`): its
  header is read at its end, is left uninitialised, and the backup then goes through
  `FCEUSS_LoadFP_old` as of version 8800, which clears a due interrupt (`:650-653`)
  and, in a game on disks, leaves the sides as the differences a savestate holds
  (`fds.cpp:103`).  `Reread` is what that makes of a place.  If the uninitialised
  bytes happen to be the header `FCEUSS_SaveMS` just wrote, the place is restored
  exactly; both outcomes are in the model.  The header of an empty file, which is
  uninitialised too, is taken to begin like neither.  States of FCEU that do load are
  left out.  Opening a file for writing may be refused, and a write
  may end early or at once, unnoticed; renames inside the directory succeed.  Savestates are
  compressed, the default outside movies, so what was cut short does not load.
  Files under names of the user's hold anything of `UserFiles`: nothing in the
  code protects them.  No movie is open; `bindSavestate` then changes no name.
  `overwritten` is a history variable: what the last save with a backup replaced,
  and by what.  After Play, Power or OpenGame the game is anywhere.
- **Movie.** Savestates and movie files read back as they were written.  A file is
  what was written to it, the buffer of its stream included: frames go through stdio
  unflushed (`movie.cpp:1078`, `:1382`), when they reach the disk is not modelled, and
  nothing is claimed of a crash before they do, or of a stream that is replaced with
  something still in it.  No archives, no project of the TAS editor;
  the options are set before the run.  Rerecord counts, lag, subtitles, pausing
  and the copy of a movie before it is altered are left out.  `trusted` is a
  history variable: the states loaded were made in a movie, and neither saved nor
  loaded between a power command and its frame.
- **NetServer.** A message arrives in pieces; only the pieces that change the
  tables are actions.  What the peers run is decided by the order of what is sent
  and a connection keeps that order, so `lag` counts what is sent instead of
  listing it: that everybody is sent the same is checked, the order is by
  construction.  A closed connection is not noticed by reading; sending to it fails.
- **TasEditor.** Edits are of one frame, of all joypads at once; no patterns, no
  superimposed input, no clipboard, no Lua edits; collecting savestates is on.
  Seeking and pausing only decide whether frames are emulated, which they may be
  at any time.  Which edits are combined into one item of the history is over-
  approximated, but recorded frames that follow each other always are; the
  item of its own they get otherwise (`history.cpp:804-807`) is `AddItem`.  A
  bookmark is set or deployed after the update that follows an edit: the edits that
  recorder, piano roll and playback make between the updates of Greenzone and
  bookmarks (`taseditor.cpp:211-217`) come after it.  `past` is a history variable, what undoing should lead back to;
  it is reset where a bookmark lands in a full log (`tas_bookmark`, below).

## The runs

| Run | Shows | Bounds, and why they are enough |
|---|---|---|
| `timeline` | the cache is faithful and is never seen; `Timeline` implements `TasPlayer` | 2 ROMs, 2 buttons, movies of 0 to 2 frames, frames 0 to 3. Every relation of movie length, cache length and frame asked for occurs, past the end included |
| `astar` | the search's structure; its CHECKs on the path fail only after a change under it; the path reported leads to the best open node's state; a command ends | 2 ROMs, 2 blackouts, 3 programs (none, one that prefers presses, one with a goal), 3 rounds from depth 1 of a machine of depth 4: two states of one hash lie on the way |
| `state_cache` | count, bound, order of eviction; implements `LruCache` | limits 0 to 2, slops 0 to 2, four keys, 8 sequence numbers: several evictions in one run |
| `session` | page and server agree once everything is handled, the screen shows the current frame, the page comes to rest | 2 user actions, 2 connections, movies up to 4 bytes: an edit on either side of a break, a reload or a restart. The run begins with nothing or after a movie was loaded and looked at (`Visited`), from where two actions cut the movie and go to a frame behind its end |
| `search_page` | the path of a status of the page's own search continues the movie that search began with | 2 searches, standing on frame 0 or 1, movies of 4 frames, 3 paths (one empty), 2 messages under way. A third message under way was checked too (13 million states) and is left out for time |
| `save_slots` | an offered undo of a savestate finds the two files it is about, a slot's content is kept through a failed save, an unreadable file costs the place no more than a reread backup does | 2 slots, of which the undo's and another one are saved to in every order; one place and the garbled machine, which is saved and loaded like another and is what a reread backup leaves (a game on disks); files that cannot be opened, foreign and headless files, the option on and off. Short writes, broken files and FCEU's are left to the proofs; what a write that ended at once leaves behind is in `LeftOver` |
| `movie` | a movie is in step with the machine, recording has its file, the file is the movie, read-only protects both | 2 frames, 2 movies, one file, one slot; frames differ by their command. A state can be of this movie, of another or of none, before, at and past the frame, with the movie longer or shorter |
| `net_server` | the two tables agree, ids are unique, everybody is sent the same, buttons are in the right seats | 3 clients of up to 2 players, 2 ids, games of 2 seats: a seat is given up and taken again by another client, and a third one dies in the broadcast. A client of two players fills a game here: that its buttons skip the seats of others in between is left to the theorem `InputArrives`. Symmetric in clients and ids |
| `net_server_gone` | a login finds a free entry; a peer that is gone is removed | 2 clients, without symmetry, which liveness does not allow |
| `tas_editor` | no savestate contradicts the movie, the log is current, undoing leads back, bookmarks return | movies up to 3 frames, 2 edits or bookmarks set, 1 deployed, a history of 3 items: full after two edits. The second frame lags if the first holds the button, so edits make lag come and go |
| `movie_refused` | violation | as `movie` |
| `tas_bookmark` | violation | as `tas_editor` |

`CHECK_DEADLOCK FALSE` in `session`: when the user is done and everything is
handled the system really stops.  In the runs of `NetServer`: the server may die.

Type correctness of `Timeline`, `StateCache`, `AStar`, `SaveSlots`, `Session`,
`NetServer` and `Movie`, and `SequencesDistinct` of `StateCache`, are theorems and
need no run of their own.

Two runs expect a violation: they state what a comment says, and TLC shows the
code doing otherwise.

| Run | Says | The code |
|---|---|---|
| `movie_refused` | a state that a movie being played refuses is as if it had not been loaded (`movie.cpp:1252`) | the backup is loaded, whose own movie is then read in read+write as well: the movie is cut at the frame, its file written anew, and recording goes on |
| `tas_bookmark` | a full history only loses its oldest item (`history.cpp:464`) | a bookmark set after an undo moves the cursor to the end of the log; undoing it brings back what had been undone |

### Other comments and docs that do not hold

Met while modelling; each was seen in the model or follows from the lines named.

- Each state of the timeline is the one before it stepped with the movie's input
  ("gEmuStateTimeline[0] + gInputTimeline[1] -> gEmuStateTimeline[1]",
  `tastiness-main.cc:20-22`):
  shortening the movie keeps the states past its new end, recorded under the
  inputs cut off; such a frame is shown until the movie covers it again
  (`CachedByPlay` says what does hold, and `ShownIsCurrent` names it: `LeftOver`).
  Load a movie of two presses, look at frame 2, load one of a single press and go
  to frame 2: the page displays one press and the server shows the frame after two.  `emuState` "is cleared when the node enters
  the closed set" (`:365`), and is kept.  The parent of a node on the path (`:411`)
  and the input of a step on it (`:430`) are not found after `setRamBlackoutBytes`
  or `openRom` under the search; `PathChecksHold` allows just that.
- `CachingStep` is "Equivalent to Step" (`emulator.h:51`), and the step is commented
  out.  Fewer entries are removed than there are (the CHECK of `MaybeResize`,
  `emulator.cc:108`), but with limit 0, as after `Initialize` without
  `ResetCache`, all of them are.
- The user "never loses his data" (`state.cpp:1150-1151`): undo and redo of a load make
  no backup, so load, play on, undo, and the place is gone.  The current slot is
  "set using number keys" (`fceux.6:263`): saving to a slot by its own key selects
  slot 1, since `FCEUSS_CheckStates` overwrites the old slot before
  `FCEUI_SelectState` reads it.  `undoLS` "will be true if a backupstate was made"
  (`state.cpp:77`), and is on the Game Genie's screen, where none is;
  `lastLoadstateMade` is "the last state loaded" (`state.cpp:76`), and may be a slot
  that has no file.  Redo of a load reloads the file tried last (`state.cpp:791`), and
  an undo that has no backup of its own loads that of an earlier load (`:1176`).
  With the option off, a file that does not begin like a savestate leaves the machine
  alone; with it on, the backup is read back although nothing was loaded, and without
  being rewound (`:706`), so the safeguard is what costs a due interrupt.
- "Backup the movie before the contents get altered" (`state.cpp:1013`): a state
  accepted in read-only clears `freshMovie` (`:1045`), and a later read+write load
  alters the file with no backup.  `osRecordingMovie` "should not be set unless we
  are in MOVIEMODE_RECORD!" (`movie.cpp:85`): it is.  A state without a movie fails
  like a foreign one but is not undone, which puts the movie out of step (`trusted`);
  loaded while recording, and followed by a read-only state that is refused, it
  leaves a recording without a stream, which the next frame writes to.  A power
  command that waits for its frame survives a load.  With `fullSaveStateLoads` the
  file keeps its old tail.
- `throw(1); /* Should not happen. */` (`server.cpp:240`) does happen: the sender of a
  command is killed inside its own `SendToAll`.  A login that finds an existing
  player dead goes on to read the entry just removed (`:412`).  Both are ends of
  `NetServer`.  Buttons of a player who left stay pressed until the next one in the
  seat sends some, and who joins late is never sent the state of the game, since
  the client's side of it is commented out.
- "Playback cursor must always be inside the movie" (`greenzone.cpp:497-499`): a
  bookmark at frame 0, playing past the end and deploying it leaves savestates
  past the end, and stepping forward loads one.  If lag then comes to an end there,
  `adjustDown` clones a frame the movie has not (`MovieData::cloneRegion`,
  `movie.cpp:147-155`), which is undefined; `Adjustable` excludes just that.  "Greenzone should be invalidated
  after the frame of Lag changes" (`history.cpp`, at 493-497): the LagLog is compared
  with a shorter or older one, so lag that moved goes unnoticed, and adjusting to it
  later inserts or removes frames.  Adjusting upwards with nothing changed calls `invalidate(-1)`,
  which rewinds nothing.  The history holds one undo level less than
  `maxUndoLevels` asks for; with one level, none.  A bookmark set right after the
  machine was restarted at frame 0 has an empty savestate, which is harmless there
  and which `BookmarksFaithful` names.

### Fairness

`AStar`: weak fairness of `Work`, the steps of a command that already holds the
mutex: its thread keeps running.  `Session`: weak fairness of the expired
timeout, of a finished reader and of reconnecting (the browser's event loop runs
them), and of each connection's ready and data handlers (each has a thread, and
the mutex is released after every handler).  Nothing is assumed of the user, of
breaking connections or of crashes, which are bounded by `Actions` and
`Connections`; the last connection does not break, or nothing could come to rest.
`NetServer`: weak fairness of each game's `Update` and each client's
`LoginTimeout`, since the loop of `main` comes round to every game and looks at
every client that has not logged in; nothing is assumed of what arrives.  A client
that sends faster than `CheckNBTCPReceive` reads would keep its loop from ending;
such a client is not covered.

### Three exceptions of `Session`

`InStep` and `ShownIsCurrent` exclude, by history variables, three ways in which
page and server really disagree until the next edit:

- `dropped`: the frame count box passes jQuery's event to `frameCountChanged`,
  which cuts the movie to one frame and does not mark it changed; loading an
  empty FM2 file does the same.
- `crossed`: the page sends its edited movie before it has taken the copy the
  server sent on the new connection.  It then shows the old movie.
- `overtaken`: a thread of an older connection gets the mutex after a newer
  connection was served.

Each is cleared as soon as a movie goes through again, so the exclusion is no
wider than the disagreement.  Nothing else is missing from `InStep`: with them
excluded the agreement is a theorem.  `ShownIsCurrent` needs a fourth, for frames only:
behind the end of the server's movie, a press recorded before the movie was shortened
may still be in the state a frame is played from (`LeftOver`).  It goes at the next
edit the server is sent that changes an input or makes the movie longer.

`SearchPage` has one of its own, `strayed`: a search is begun at once, with the
inputs the server has, and edits of the last 100 ms are not among them.  What it
does not speak of, statuses of a search that is no longer the page's, is in the
model: one that arrives after a cancel is written from frame 1 on (`null+i+1`), one
that arrives after a restart behind the new frame.  A search begun at frame 0 is
never worked on, for 0 is as false as `null` and every click begins it anew.

## The proofs

All proofs are for every value of the constants, under the named assumptions of
the modules (types of the constants, and that tables are finite).
A proof module starts with the lemmas about numbers and sequences its arguments
rest on.  Induction is over sets (`SetInduction`: a set with 0 and closed under
successor holds every natural), derived from least elements, since the induction
theorems of the library are out of the provers' reach.

- **Timeline.** A sequence of inputs has one course (`PlayedUnique`).  The inductive invariant is `TypeOK`, `RecordedPrefixFaithful` and
  `CachedByPlay`.  The first is needed for the second (a state is cached only
  with a ROM open); faithfulness of the recorded prefix is inductive because
  `InvalidatesFrom` keeps exactly the entries whose inputs did not change, and
  `FilledTo` extends it by `PlayedUnique`.  `MovieShown` follows: a faithful
  prefix is the course of the movie, and the frame after it one step more.
  `TimelineImplementsPlayer` builds the inputs that were played out of the movie
  and, past its end, the witnesses of `CachedByPlay`.
- **StateCache.** `TypeOK`, `CountExact`, `SequencesDistinct` and `WithinSlop` are
  inductive together: that no two sequence numbers are equal makes "everything
  below the n-th sequence" n entries, and so the count exact and the bound kept.
  `CacheChecks` follows.  The refinement of `LruCache` maps the table to `InOrder`,
  a sequence chosen for what it is and not computed.  `SortedOnce` says that there is
  one such sequence at most, because a key's place in it is one more than the number
  of keys used before it (`RankUnique`); so it is enough to show, call by call, that
  what the list does to the old order sorts the new table: evicting everything below
  a sequence number cuts the front (`CutSorts`), a hit moves a key to the end
  (`TouchedSorts`, `MovedSorts`), a miss appends one (`WithSorts`).
- **AStar.** `TypeOK`, `NeverRunsDry`, `OpenOrClosed`, `ParentsLeadToStart` and
  `NodesAreSteps` are inductive together.  A round cannot empty the queue: a node
  whose inputs lead to nothing open leads to something new, or to something closed,
  and then the round ended in a CHECK.  From "one step nearer to the start" the walk
  up has as many steps as `g`, which gives `PathChecks`; and because both `work1` and
  `getInputStatePath` take the first input that leads to a hash, going down again
  visits the very states of the nodes (`BestPathReached`), although hashes collide.
- **SearchPage** (in `AStarProofs`).  `PathContinuesMovie` is proved from `PageInv`.
  `Numbered`: nothing on its way has a number above the last search begun, so beginning
  one makes all of it somebody else's.  `Sent`: a page without edits has sent its movie,
  whatever else is still to be handled (`Gets` says it of the last `setFrameInputs` of a
  queue, or of the server's movie when there is none).  `OfThisMovie`: while the search
  has not strayed, what the server will have when it comes to `initAStar`, the inputs the
  machine then plays and those of every status under way are the page's movie up to the
  frame of the search.  A path is written behind that frame only, which is why one
  status does not spoil the next.
- **SaveSlots.** `UndoFindsBoth` is inductive with `TypeOK`.  It speaks of
  `undoSS \/ redoSS`, what the menus ask, and not of `undoSS` alone: a save that
  clears `undoSS` but cannot open its file leaves `redoSS`, and the pair of files
  must survive that (`SaveKeepsPair`: such a save writes nothing).  `SlotsAreKept`
  and `UnreadableIsHarmless` are action properties proved from `TypeOK`; the latter
  rests on `LoadedPlace`, one file, and `LoadsReadHeld`, which file a command reads.
- **Session.** `SessionInv` types the page, the queues and every command and message
  in them, with `Displayed`: nothing is pressed behind the end of the page's movie,
  without which lengthening it would bring presses back.  `AgreeInv` follows the movie
  along its way (`MovieHeld`): before the connection is served the page's movie has
  crossed or is not on its way; after, the server's is the last on its way to the
  page with no other coming against it, or the page has one to send, or the server
  ends up with the page's when its queue is handled.  `BlackoutHeld` is the same for
  the blackout bytes, which the page echoes instead of crossing.  `None` and `Last`
  say of a queue what decides its end, and two lemmas say what appending and
  taking do to them; `Alike` compares movies frame by frame, so that padding and
  copying change nothing.  `ShownInv` adds that the last of the commands and messages
  that change the screen is about the frame the page stands on, with `Faithful`: the
  recorded states inside the server's movie were stepped with it, which a command that
  changes the movie keeps because it drops the states from the first new input on.
  A frame asked for again is played with the same inputs (`PlayedAgain`).  `PageAndServerInStep`
  and `ScreenIsCurrent` read these off when the queues are empty.
- **NetServer.** The invariant is stated of any pair of tables, not of the variables:
  a login takes them through a removal, a seating and another removal, a broadcast
  through several, and the lemmas follow one table into the next.  `SeatedAreIn` and
  `InAreSeated` are the two directions of agreement; `SentOnce` marks one seat of each
  client, from which everybody is sent the same; `PlayedOrFree` leaves as many
  free games as there are clients without one, which is why a login finds an entry.
- **Movie.** A guid tells the machine its movie starts from (`Known`, with the starts
  as a witness that grows with each recording).  `Shape` is what the engine always
  is, `Synced` what it is while `trusted`, `Restorable` what a savestate is; loading
  one is followed through the chunks, the verdict and the backup, whose state is a
  state of the very movie that is open.  `ReadOnlyProtects` is an action property
  proved from `Shape`.
- **TasEditor.** All that its run checks is a theorem.  An action is a chain of calls on
  the record `ed`, and in the middle of the chain nothing of what is promised holds:
  the movie is changed, then the log, then the Greenzone, then the cursor moves.
  The lemmas are therefore about any record (`Wide`: `Editors` without the bound on
  what is under way), and say of each method what it needs and what it leaves.
  Three facts are kept apart, since each is broken and mended by a different call:
  `Faithful(e, movie)`, the savestates and the machine are what `movie` leads to,
  where `movie` may be the one before the edit; `Logged(e, movie)`, the current item
  is `movie`; and `GoodLog(e)`, undoing leads back, and every item and bookmark is
  of a movie with a frame and has the state it leads to.  `Invalidate` turns
  `Faithful` for the old movie into `Faithful` for the new one, because the log finds
  the first frame where the two differ; what was played before that frame is the
  same (`Alike` compares movies frame by frame, so that padding with blank frames
  changes nothing).  The inductive invariant `Right` has all three for the movie of `ed`
  (`Sound`), and after an update also `Landed`: the cursor stands on a savestate, or
  at the beginning.  `Landed` is what a bookmark needs, which takes its state out of
  the Greenzone.  `UndoLeadsBack` is inductive only with `cursor < total`; that a ring
  that wraps still has its older items where they were is in `RingStep` and
  `PushedProperties`.

Only model-checked: liveness (`WorkEnds`, `Settles`, `GoneAreRemoved`), which rests on
fairness and `ENABLED`, out of the prover's reach.  Every invariant and action property
of the passing runs and both refinements are theorems.

## Not modelled, and why

- **Hardware emulation, boards, sound, picture; drivers and front ends; vendored
  code.**  This is nearly all of the tree's 190 000 lines, and the reason why the
  lines modelled are a small share of it: tables of opcodes and mappers, window
  procedures, scaling filters and copies of other people's headers keep no
  protocol.  The machine is a parameter of the models instead.
- **Drawing, wording, logging, pixels and the palette; malformed commands**, which
  end a connection and nothing else; the headless stubs; the benchmark, which is not
  built; the Lua text box, which has the protocol of the blackout bytes without the
  echo.
- **Two pages on one server.**  `gConn` answers the connection that was ready last
  (`tastiness-main.cc:95`): with two pages open, one edits and the other one is shown
  the frames, and each overwrites the other's movie.  There is no agreement to
  state; `Session` has one page, with several connections over time.
- **The netplay client.**  With a divisor above 1 it never exchanges inputs again
  after its first frame (`netplay.cpp:198-215`, `:321`), the receiving of states is
  commented out, and the file itself says that netplay "doesnt work right now".
- **`SaveEx`/`LoadEx`** have no caller.  They are zlib over a difference modulo 256.
- **Uncompressed savestates**, which load even when cut short (`state.cpp:735`): the
  rest of what is read is whatever was in memory.
- **In the TAS editor** markers, hot changes, the tree of branches, the clipboard,
  patterns, Lua edits and project files; **in the movie engine** rerecord counts,
  lag, archives and Windows' question whether to load a foreign state all the same.

Covered by the models although not on the list of hazards, which keeps the ones
most worth watching: a frame asked for at, past and far past the end of the cache
(`tastiness-main.cc:509`, `ShowsTheMovie`); `initAStar` before any ROM, which aborts
the server where `getFrame` has a check (`:520`, `InitAStarWithoutRom`); a node of the
search entered twice (`:483`, `OpenOrClosed`); a Lua program replaced under a search
(`:447`), after which the queue orders by estimates of two programs; `Initialize` after
`Shutdown`, which replaces the cache and its limits (`emulator.cc:242`,
`ChecksOnlyUnlimited`); the frame count box (`main.coffee:398`, `dropped`); a power
command recorded with the next frame (`movie.cpp:1064`, `trusted`); recording over
frames that are there (`recorder.cpp:240`, `LogIsCurrent`).

What would come next: the TAS editor's markers and branches, and the search over
connections that break, in one module with `Session`.
