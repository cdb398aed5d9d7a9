------------------------------ MODULE SaveSlots ------------------------------
(***************************************************************************)
(* The savestate slots of fceux and their two undo commands                *)
(* (src/fceux/src/state.cpp), as the hot keys of input.cpp and the menu of *)
(* window.cpp call them.                                                   *)
(*                                                                         *)
(* Saving over a slot renames its file to a backup (game-bak.fc1); Undo    *)
(* savestate swaps the two.  Loading writes the place being left to one    *)
(* backup per game (game.bak.fc0); Undo loadstate loads that one, or       *)
(* reloads the state whose load was undone.  The files outlive the flags,  *)
(* which start again with every game.                                      *)
(*                                                                         *)
(* The content of a file is the place in the game it was saved in.  No     *)
(* movie is open, the TAS editor is not in use, a game is, and savestates  *)
(* are compressed, as they are by default.  SaveStateStatus, StateShow and *)
(* the messages only draw, and are left out.                               *)
(***************************************************************************)
EXTENDS Naturals

CONSTANTS
  Slots,     \* the numbered slots
  FirstSlot, \* slot 1, which FCEUSS_CheckStates leaves selected
  NoSlot,    \* the empty file name
  Places,    \* places in the game
  Garbled,   \* the machine after part of a savestate was read into it
  Reread,    \* a place after its own backup was read as of an old version:
             \* an interrupt that was due is lost, the sides of a disk garbled
  Broken,    \* a file that was cut short: what it holds does not uncompress
  Foreign,   \* a file that begins like a savestate, unreadable half way
  OldState,  \* a file that begins like one of FCEU's, unreadable half way
  Headless,  \* a file that begins like neither, or is empty
  NoFile,    \* the content of a file that does not exist
  GameGenie, \* the option: a game starts behind the Game Genie's screen
  LeftOver,  \* what slots may hold from earlier sessions
  UserFiles, \* what files under names of the user's may hold
  Outcomes   \* how writing a file may end, a subset of Written's four

Machine == Places \cup {Garbled}
Unreadable == {Broken, Foreign, OldState, Headless}
Content == Machine \cup Unreadable \cup {NoFile}

ASSUME SaveSlotsAssumption ==
  /\ FirstSlot \in Slots
  /\ NoSlot \notin Slots
  /\ Garbled \notin Places
  /\ Reread \in [Machine -> Machine]
  /\ (Unreadable \cup {NoFile}) \cap Machine = {}
  /\ NoFile \notin Unreadable
  /\ Broken # Foreign /\ OldState # Headless
  /\ {Broken, Foreign} \cap {OldState, Headless} = {}
  /\ GameGenie \in BOOLEAN
  /\ LeftOver \subseteq Content \ {Garbled}
  /\ UserFiles \subseteq Content \ {Garbled}
  /\ Outcomes \subseteq {"written", "short", "empty", "refused"}

VARIABLES
  slotFile,          \* the file of each slot
  bakFile,           \* the backup of each slot's file
  undoFile,          \* the place left by the last load
  place,             \* where the game is
  geniestage,        \* 0: no Game Genie, 1: its screen, 2: the game behind it
  CurrentState,      \* the selected slot
  backupSavestates,  \* the option that makes the backups
  lastSavestateMade, undoSS, redoSS,
  lastLoadstateMade, undoLS, redoLS,
  overwritten        \* history: what the last save with a backup replaced, and by what

files == <<slotFile, bakFile, undoFile>>
saveFlags == <<lastSavestateMade, undoSS, redoSS, overwritten>>
loadFlags == <<lastLoadstateMade, undoLS, redoLS>>
vars == <<files, place, geniestage, CurrentState, backupSavestates,
          saveFlags, loadFlags>>

-----------------------------------------------------------------------------
(* What the handlers are built from. *)

\* A file that held "old" after "new" was written to it: the open may be
\* refused, and a write that ends early, or at once, is not noticed.
Written(old, new, outcome) ==
  CASE outcome = "written" -> new
    [] outcome = "short"   -> Broken
    [] outcome = "empty"   -> Headless
    [] outcome = "refused" -> old

\* Mutant: the backup in memory is not read back.
LoadedWithoutRestore(content) ==
  CASE content \in Machine -> {content}
    [] content \in {Foreign, OldState} -> {place, Garbled}
    [] OTHER -> {place}

\* FCEUSS_LoadFP: where the game may be after reading a file.  A file that
\* turns out unreadable after some of its chunks were loaded leaves the
\* machine as it was only if a backup was taken in memory first.  For a file
\* that does not begin like a savestate the backup is read from its end, into
\* a header that is not initialised: as a state of an old version, unless the
\* header of the backup is still found there.
Loaded(content) ==
  CASE content \in Machine -> {content}
    [] content = Foreign  -> IF backupSavestates THEN {place} ELSE {place, Garbled}
    [] content = OldState -> {place, IF backupSavestates THEN Reread[place] ELSE Garbled}
    [] content = Headless -> IF backupSavestates THEN {place, Reread[place]} ELSE {place}
    [] OTHER -> {place}

\* The slot a hot key works on is the selected one or its own; a key with a
\* slot of its own selects it first, and afterwards "the old slot", which
\* FCEUSS_CheckStates had by then replaced by slot 1.
SlotKey(s) ==
  \/ s = CurrentState /\ UNCHANGED CurrentState
  \/ CurrentState' = FirstSlot

\* Mutant: the backup that exists already is kept, as rename without the
\* remove before it does on some systems.
BackedUpOnce(s) ==
  /\ bakFile' = [bakFile EXCEPT ![s] = IF @ = NoFile THEN slotFile[s] ELSE @]
  /\ lastSavestateMade' = s
  /\ undoSS' = TRUE

\* CreateBackupSaveState: the file of the slot becomes its backup.
BackedUp(s) ==
  /\ bakFile' = [bakFile EXCEPT ![s] = slotFile[s]]
  /\ lastSavestateMade' = s
  /\ undoSS' = TRUE

-----------------------------------------------------------------------------
Init ==
  /\ slotFile \in [Slots -> LeftOver]
  /\ bakFile = [s \in Slots |-> NoFile]
  /\ undoFile = NoFile
  /\ place \in Places
  /\ geniestage = IF GameGenie THEN 1 ELSE 0
  /\ CurrentState \in Slots
  /\ backupSavestates = TRUE
  /\ lastSavestateMade = NoSlot /\ undoSS = FALSE /\ redoSS = FALSE
  /\ lastLoadstateMade = NoSlot /\ undoLS = FALSE /\ redoLS = FALSE
  /\ overwritten = [old |-> NoFile, new |-> NoFile]

\* The game goes on; from the Game Genie's screen it starts.
Play ==
  /\ place' \in Places
  /\ geniestage' = IF geniestage = 1 THEN 2 ELSE geniestage
  /\ UNCHANGED <<files, CurrentState, backupSavestates, saveFlags, loadFlags>>

\* FCEU_GeniePower, when the console is switched off and on.
Power ==
  /\ place' \in Places
  /\ geniestage' = IF geniestage = 0 THEN 0 ELSE 1
  /\ UNCHANGED <<files, CurrentState, backupSavestates, saveFlags, loadFlags>>

\* FCEU_CloseGame, and the same game opened again.
OpenGame ==
  /\ place' \in Places
  /\ geniestage' = IF GameGenie THEN 1 ELSE 0
  /\ lastSavestateMade' = NoSlot /\ undoSS' = FALSE /\ redoSS' = FALSE
  /\ lastLoadstateMade' = NoSlot /\ undoLS' = FALSE /\ redoLS' = FALSE
  /\ overwritten' = [old |-> NoFile, new |-> NoFile]
  /\ UNCHANGED <<files, CurrentState, backupSavestates>>

ToggleBackups ==
  /\ backupSavestates' = ~backupSavestates
  /\ UNCHANGED <<files, place, geniestage, CurrentState, saveFlags, loadFlags>>

\* FCEUI_SelectState
SelectState(s) ==
  /\ CurrentState' = s
  /\ UNCHANGED <<files, place, geniestage, backupSavestates, saveFlags, loadFlags>>

\* Mutant: a slot that is overwritten without a backup keeps its Undo.
SlotWrittenUndoKept(s, outcome) ==
  \/ /\ slotFile[s] # NoFile /\ backupSavestates
     /\ BackedUp(s)
     /\ slotFile' = [slotFile EXCEPT ![s] = Written(NoFile, place, outcome)]
     /\ overwritten' = [old |-> slotFile[s], new |-> slotFile'[s]]
  \/ /\ slotFile[s] = NoFile \/ ~backupSavestates
     /\ slotFile' = [slotFile EXCEPT ![s] = Written(slotFile[s], place, outcome)]
     /\ UNCHANGED <<bakFile, lastSavestateMade, undoSS, overwritten>>

\* FCEUSS_Save(NULL): with the option on, a file that exists is backed up
\* before it is written; undoSS tells whether one was.
SlotWritten(s, outcome) ==
  \/ /\ slotFile[s] # NoFile /\ backupSavestates
     /\ BackedUp(s)
     /\ slotFile' = [slotFile EXCEPT ![s] = Written(NoFile, place, outcome)]
     /\ overwritten' = [old |-> slotFile[s], new |-> slotFile'[s]]
  \/ /\ slotFile[s] = NoFile \/ ~backupSavestates
     /\ undoSS' = FALSE
     /\ slotFile' = [slotFile EXCEPT ![s] = Written(slotFile[s], place, outcome)]
     /\ UNCHANGED <<bakFile, lastSavestateMade, overwritten>>

\* CommandStateSave: FCEUI_SaveState(0).  Nothing is saved on the Game
\* Genie's screen.  A save that could not open its file returns before it
\* clears redoSS, but after the backup was made.
SaveState(s, outcome) ==
  /\ SlotKey(s)
  /\ \/ /\ geniestage = 1
        /\ UNCHANGED <<slotFile, bakFile, saveFlags>>
     \/ /\ geniestage # 1
        /\ SlotWritten(s, outcome)
        /\ redoSS' = (redoSS /\ outcome = "refused")
  /\ UNCHANGED <<undoFile, place, geniestage, backupSavestates, loadFlags>>

\* FCEUI_SaveState(fname), which writes a file of the user's: nothing is
\* backed up, and the Redo is given up.
SaveStateAs(outcome) ==
  /\ geniestage # 1
  /\ redoSS' = (redoSS /\ outcome = "refused")
  /\ UNCHANGED <<files, place, geniestage, CurrentState, backupSavestates,
                 lastSavestateMade, undoSS, overwritten, loadFlags>>

\* BackupLoadState: undoLS is set whatever became of the file.  On the Game
\* Genie's screen FCEUSS_Save returns before it writes one.
BackupLoadState(outcome) ==
  \/ /\ backupSavestates /\ geniestage # 1
     /\ undoFile' = Written(undoFile, place, outcome)
     /\ redoSS' = (redoSS /\ outcome = "refused")
     /\ undoLS' = TRUE
  \/ /\ backupSavestates /\ geniestage = 1
     /\ undoLS' = TRUE
     /\ UNCHANGED <<undoFile, redoSS>>
  \/ ~backupSavestates /\ UNCHANGED <<undoFile, redoSS, undoLS>>

\* CommandStateLoad: FCEUI_LoadState(0), FCEUSS_Load(NULL).  The file name is
\* remembered before it is known whether the file exists.
LoadState(s, outcome) ==
  /\ SlotKey(s)
  /\ BackupLoadState(outcome)
  /\ \/ geniestage = 1 /\ UNCHANGED <<place, lastLoadstateMade>>
     \/ geniestage # 1 /\ place' \in Loaded(slotFile[s]) /\ lastLoadstateMade' = s
  /\ UNCHANGED <<slotFile, bakFile, geniestage, backupSavestates,
                 lastSavestateMade, undoSS, overwritten, redoLS>>

\* FCEUI_LoadState(fname), of a file with this content.
LoadStateAs(content, outcome) ==
  /\ BackupLoadState(outcome)
  /\ \/ geniestage = 1 /\ UNCHANGED place
     \/ geniestage # 1 /\ place' \in Loaded(content)
  /\ UNCHANGED <<slotFile, bakFile, geniestage, CurrentState, backupSavestates,
                 lastSavestateMade, undoSS, overwritten, lastLoadstateMade, redoLS>>

\* UndoRedoSavestate, SwapSaveState: three renames swap the slot's file and
\* its backup; the second does nothing when the file is missing.
SwapSaveState ==
  /\ undoSS \/ redoSS
  /\ bakFile[lastSavestateMade] # NoFile
  /\ slotFile' = [slotFile EXCEPT ![lastSavestateMade] = bakFile[lastSavestateMade]]
  /\ bakFile' = [bakFile EXCEPT ![lastSavestateMade] = slotFile[lastSavestateMade]]
  /\ undoSS' = TRUE
  /\ redoSS' = ~redoSS
  /\ UNCHANGED <<undoFile, place, geniestage, CurrentState, backupSavestates,
                 lastSavestateMade, overwritten, loadFlags>>

\* FCEUSS_Load of the file "content" is in; on the Game Genie's screen it
\* returns at once.
Reloaded(content) ==
  IF geniestage = 1 THEN UNCHANGED place ELSE place' \in Loaded(content)

\* The menu's Undo loadstate, when there is a load to redo: RedoLoadState.
RedoLoadState ==
  /\ undoFile # NoFile /\ redoLS
  /\ Reloaded(IF lastLoadstateMade = NoSlot THEN NoFile ELSE slotFile[lastLoadstateMade])
  /\ redoLS' = FALSE
  /\ undoLS' = TRUE
  /\ UNCHANGED <<files, geniestage, CurrentState, backupSavestates, saveFlags, lastLoadstateMade>>

\* The menu's Undo loadstate otherwise: LoadBackup.
LoadBackup ==
  /\ undoFile # NoFile /\ ~redoLS /\ undoLS
  /\ Reloaded(undoFile)
  /\ redoLS' = TRUE
  /\ undoLS' = FALSE
  /\ UNCHANGED <<files, geniestage, CurrentState, backupSavestates, saveFlags, lastLoadstateMade>>

Next ==
  \/ Play \/ Power \/ OpenGame \/ ToggleBackups
  \/ \E s \in Slots : SelectState(s)
  \/ \E s \in Slots, outcome \in Outcomes : SaveState(s, outcome)
  \/ \E s \in Slots, outcome \in Outcomes : LoadState(s, outcome)
  \/ \E outcome \in Outcomes : SaveStateAs(outcome)
  \/ \E content \in UserFiles, outcome \in Outcomes : LoadStateAs(content, outcome)
  \/ SwapSaveState \/ RedoLoadState \/ LoadBackup

Spec == Init /\ [][Next]_vars

-----------------------------------------------------------------------------
TypeOK ==
  /\ slotFile \in [Slots -> Content] /\ bakFile \in [Slots -> Content]
  /\ undoFile \in Content
  /\ place \in Machine
  /\ geniestage \in 0..2
  /\ CurrentState \in Slots
  /\ backupSavestates \in BOOLEAN
  /\ undoSS \in BOOLEAN /\ redoSS \in BOOLEAN
  /\ undoLS \in BOOLEAN /\ redoLS \in BOOLEAN
  /\ lastSavestateMade \in Slots \cup {NoSlot}
  /\ lastLoadstateMade \in Slots \cup {NoSlot}
  /\ overwritten \in [old : Content, new : Content]

\* As long as a menu offers to undo or redo a savestate, the two files it
\* swaps are the ones of the last save that made a backup: what that save
\* replaced and what it wrote, one in the slot and one in the backup.  No
\* save to another slot, save that fails, load, change of the option or
\* number of swaps in between changes that (FCEUSS_Save, SwapSaveState).
UndoFindsBoth ==
  undoSS \/ redoSS =>
    /\ lastSavestateMade \in Slots
    /\ \/ /\ bakFile[lastSavestateMade] = overwritten.old
          /\ slotFile[lastSavestateMade] = overwritten.new
       \/ /\ bakFile[lastSavestateMade] = overwritten.new
          /\ slotFile[lastSavestateMade] = overwritten.old

\* With the option on, no command loses what a slot holds: it is in the slot
\* or in its backup afterwards, even if the slot could not be written
\* (CreateBackupSaveState before the open, SwapSaveState).
OverwrittenKept ==
  [][backupSavestates =>
       \A s \in Slots : slotFile[s] # NoFile => slotFile[s] \in {slotFile'[s], bakFile'[s]}]_vars

\* What the files a load may read hold.
Held == {undoFile} \cup {slotFile[s] : s \in Slots} \cup UserFiles

\* The commands that load.
Loads ==
  \/ \E s \in Slots, outcome \in Outcomes : LoadState(s, outcome)
  \/ \E content \in UserFiles, outcome \in Outcomes : LoadStateAs(content, outcome)
  \/ RedoLoadState \/ LoadBackup

\* With the option on, a load takes the game to a place that a file holds or
\* leaves it where it was, never half way (FCEUSS_LoadFP, its backup in
\* memory).  The exception is a file that does not begin like a savestate:
\* the backup is then read as of an old version, which may cost the place its
\* due interrupt although nothing of the file was read.
UnreadableLeavesPlace ==
  [][backupSavestates /\ Loads =>
       \/ place' \in {place} \cup Held
       \/ place' = Reread[place] /\ {Headless, OldState} \cap Held # {}]_vars

=============================================================================
