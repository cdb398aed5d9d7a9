-------------------------- MODULE SaveSlotsProofs --------------------------
(***************************************************************************)
(* Proofs about the savestate slots: what the two undo commands can rely   *)
(* on, for any set of slots, any places in the game and any way of         *)
(* writing to fail.                                                        *)
(***************************************************************************)
EXTENDS SaveSlots, TLAPS

\* Writing a file leaves one of the four contents it may hold afterwards.
LEMMA WrittenIsContent ==
  ASSUME NEW old \in Content, NEW outcome \in Outcomes
  PROVE  /\ Written(old, place, outcome) \in {old, place, Broken, Headless}
         /\ outcome = "refused" => Written(old, place, outcome) = old
<1>1. outcome \in {"written", "short", "empty", "refused"}
  BY SaveSlotsAssumption
<1> QED
  BY <1>1 DEF Written

\* Loading a file leaves the machine in some state.
LEMMA LoadedIsMachine ==
  ASSUME TypeOK, NEW content, NEW p \in Loaded(content)
  PROVE  p \in Machine
<1>1. place \in Machine /\ Garbled \in Machine
  BY DEF TypeOK, Machine
<1>2. Reread[place] \in Machine
  BY <1>1, SaveSlotsAssumption
<1>3. CASE content \in Machine
  BY <1>3, SaveSlotsAssumption DEF Loaded, Unreadable
<1>4. CASE content \notin Machine
  BY <1>1, <1>2, <1>4 DEF Loaded
<1> QED
  BY <1>3, <1>4

\* The backup made before a load keeps the types.
LEMMA BackupLoadStateTypes ==
  ASSUME TypeOK, NEW outcome \in Outcomes, BackupLoadState(outcome)
  PROVE  /\ undoFile' \in Content
         /\ redoSS' \in BOOLEAN
         /\ undoLS' \in BOOLEAN
<1>1. undoFile \in Content /\ place \in Content
  BY DEF TypeOK, Content
<1>2. redoSS \in BOOLEAN /\ undoLS \in BOOLEAN
  BY DEF TypeOK
<1>3. Written(undoFile, place, outcome) \in Content
  BY <1>1, WrittenIsContent DEF Content, Unreadable
<1>4. redoSS' \in BOOLEAN
  BY <1>2, Zenon DEF BackupLoadState
<1>5. undoLS' \in BOOLEAN
  BY <1>2, Zenon DEF BackupLoadState
<1>6. undoFile' \in Content
  BY <1>1, <1>3 DEF BackupLoadState
<1> QED
  BY <1>4, <1>5, <1>6

\* A backup made before a load does not set redoSS.
LEMMA BackupLoadStateRedo ==
  ASSUME NEW outcome, BackupLoadState(outcome), redoSS \in BOOLEAN, redoSS'
  PROVE  redoSS
BY DEF BackupLoadState

\* What overwriting a slot leaves behind has the right types.
LEMMA SlotWrittenTypes ==
  ASSUME TypeOK, NEW s \in Slots, NEW outcome \in Outcomes, SlotWritten(s, outcome)
  PROVE  /\ slotFile' \in [Slots -> Content]
         /\ bakFile' \in [Slots -> Content]
         /\ undoSS' \in BOOLEAN
         /\ lastSavestateMade' \in Slots \cup {NoSlot}
         /\ overwritten' \in [old : Content, new : Content]
<1>1. Written(NoFile, place, outcome) \in Content
  BY WrittenIsContent DEF TypeOK, Content, Unreadable
<1>2. Written(slotFile[s], place, outcome) \in Content
  BY WrittenIsContent DEF TypeOK, Content, Unreadable
<1>3. CASE slotFile[s] # NoFile /\ backupSavestates
  <2>1. /\ bakFile' = [bakFile EXCEPT ![s] = slotFile[s]]
        /\ lastSavestateMade' = s /\ undoSS' = TRUE
        /\ slotFile' = [slotFile EXCEPT ![s] = Written(NoFile, place, outcome)]
        /\ overwritten' = [old |-> slotFile[s], new |-> slotFile'[s]]
    BY <1>3 DEF SlotWritten, BackedUp
  <2>2. slotFile' \in [Slots -> Content] /\ bakFile' \in [Slots -> Content]
    BY <2>1, <1>1 DEF TypeOK
  <2> QED
    BY <2>1, <2>2 DEF TypeOK
<1>4. CASE slotFile[s] = NoFile \/ ~backupSavestates
  BY <1>2, <1>4 DEF SlotWritten, TypeOK
<1> QED
  BY <1>3, <1>4

-----------------------------------------------------------------------------
\* The initial states are well typed.
LEMMA InitTypeOK == Init => TypeOK
<1> SUFFICES ASSUME Init PROVE TypeOK
  OBVIOUS
<1>1. slotFile \in [Slots -> Content]
  <2>1. slotFile \in [Slots -> LeftOver] /\ LeftOver \subseteq Content
    BY SaveSlotsAssumption DEF Init, Content, Machine
  <2> QED
    BY <2>1
<1>2. bakFile \in [Slots -> Content] /\ undoFile \in Content
  BY DEF Init, Content
<1>3. overwritten \in [old : Content, new : Content]
  BY DEF Init, Content
<1>4. /\ backupSavestates \in BOOLEAN
      /\ undoSS \in BOOLEAN /\ redoSS \in BOOLEAN
      /\ undoLS \in BOOLEAN /\ redoLS \in BOOLEAN
  BY DEF Init
<1>5. place \in Machine /\ geniestage \in 0..2 /\ CurrentState \in Slots
  BY DEF Init, Machine
<1>6. /\ lastSavestateMade \in Slots \cup {NoSlot}
      /\ lastLoadstateMade \in Slots \cup {NoSlot}
  BY DEF Init
<1> QED
  BY <1>1, <1>2, <1>3, <1>4, <1>5, <1>6 DEF TypeOK

\* Every command keeps the types.
LEMMA NextTypeOK == TypeOK /\ [Next]_vars => TypeOK'
<1> SUFFICES ASSUME TypeOK, [Next]_vars PROVE TypeOK'
  OBVIOUS
<1> USE DEF vars, files, saveFlags, loadFlags
<1>1. CASE Play \/ Power \/ ToggleBackups
  <2>1. place' \in Machine /\ geniestage' \in 0..2
    BY <1>1 DEF Play, Power, ToggleBackups, TypeOK, Machine
  <2>2. backupSavestates' \in BOOLEAN
    BY <1>1 DEF Play, Power, ToggleBackups, TypeOK
  <2> QED
    BY <1>1, <2>1, <2>2 DEF Play, Power, ToggleBackups, TypeOK
<1>10. CASE OpenGame
  <2>1. place' \in Machine /\ geniestage' \in 0..2
    BY <1>10 DEF OpenGame, Machine
  <2>2. overwritten' \in [old : Content, new : Content]
    BY <1>10 DEF OpenGame, Content
  <2>3. /\ undoSS' \in BOOLEAN /\ redoSS' \in BOOLEAN
        /\ undoLS' \in BOOLEAN /\ redoLS' \in BOOLEAN
        /\ lastSavestateMade' \in Slots \cup {NoSlot}
        /\ lastLoadstateMade' \in Slots \cup {NoSlot}
    BY <1>10 DEF OpenGame
  <2>4. UNCHANGED <<slotFile, bakFile, undoFile, CurrentState, backupSavestates>>
    BY <1>10 DEF OpenGame
  <2> QED
    BY <2>1, <2>2, <2>3, <2>4 DEF TypeOK
<1>2. ASSUME NEW s \in Slots, SelectState(s) PROVE TypeOK'
  BY <1>2 DEF SelectState, TypeOK
<1>3. ASSUME NEW s \in Slots, NEW outcome \in Outcomes, SaveState(s, outcome)
      PROVE  TypeOK'
  <2>1. CurrentState' \in Slots
    BY <1>3, SaveSlotsAssumption DEF SaveState, SlotKey, TypeOK
  <2>2. CASE geniestage = 1
    BY <1>3, <2>1, <2>2 DEF SaveState, TypeOK
  <2>3. CASE geniestage # 1
    <3>1. SlotWritten(s, outcome) /\ redoSS' \in BOOLEAN
      BY <1>3, <2>3 DEF SaveState, TypeOK
    <3> QED
      BY <1>3, <2>1, <3>1, SlotWrittenTypes DEF SaveState, TypeOK
  <2> QED
    BY <2>2, <2>3
<1>4. ASSUME NEW s \in Slots, NEW outcome \in Outcomes, LoadState(s, outcome)
      PROVE  TypeOK'
  <2>1. CurrentState' \in Slots
    BY <1>4, SaveSlotsAssumption DEF LoadState, SlotKey, TypeOK
  <2>2. place' \in Machine /\ lastLoadstateMade' \in Slots \cup {NoSlot}
    BY <1>4, LoadedIsMachine DEF LoadState, TypeOK
  <2>3. undoFile' \in Content /\ redoSS' \in BOOLEAN /\ undoLS' \in BOOLEAN
    BY <1>4, BackupLoadStateTypes DEF LoadState
  <2> QED
    BY <1>4, <2>1, <2>2, <2>3 DEF LoadState, TypeOK
<1>5. ASSUME NEW outcome \in Outcomes, SaveStateAs(outcome) PROVE TypeOK'
  BY <1>5 DEF SaveStateAs, TypeOK
<1>6. ASSUME NEW content \in UserFiles, NEW outcome \in Outcomes,
             LoadStateAs(content, outcome)
      PROVE  TypeOK'
  <2>1. place' \in Machine
    BY <1>6, LoadedIsMachine DEF LoadStateAs, TypeOK
  <2>2. undoFile' \in Content /\ redoSS' \in BOOLEAN /\ undoLS' \in BOOLEAN
    BY <1>6, BackupLoadStateTypes DEF LoadStateAs
  <2> QED
    BY <1>6, <2>1, <2>2 DEF LoadStateAs, TypeOK
<1>7. CASE SwapSaveState
  BY <1>7 DEF SwapSaveState, TypeOK
<1>8. CASE RedoLoadState \/ LoadBackup
  <2>1. place' \in Machine
    BY <1>8, LoadedIsMachine DEF RedoLoadState, LoadBackup, Reloaded, TypeOK
  <2> QED
    BY <1>8, <2>1 DEF RedoLoadState, LoadBackup, TypeOK
<1>9. CASE UNCHANGED vars
  BY <1>9 DEF TypeOK
<1> QED
  BY <1>1, <1>2, <1>3, <1>4, <1>5, <1>6, <1>7, <1>8, <1>9, <1>10 DEF Next

\* Every reachable state is well typed: the slot of a save or a load that
\* can be undone is a slot, whatever was pressed.
THEOREM TypeCorrect == Spec => []TypeOK
<1> QED
  BY InitTypeOK, NextTypeOK, PTL DEF Spec

-----------------------------------------------------------------------------
\* A save keeps the pair of files an undo will swap: one with a backup makes
\* the pair anew, and one without leaves an undo only if it wrote nothing.
LEMMA SaveKeepsPair ==
  ASSUME TypeOK, UndoFindsBoth, NEW s \in Slots, NEW outcome \in Outcomes,
         SaveState(s, outcome)
  PROVE  UndoFindsBoth'
<1> USE DEF saveFlags, loadFlags
<1>1. CASE geniestage = 1
  BY <1>1 DEF SaveState, UndoFindsBoth
<1>2. ASSUME geniestage # 1, slotFile[s] # NoFile /\ backupSavestates
      PROVE  UndoFindsBoth'
  <2>1. BackedUp(s) /\ overwritten' = [old |-> slotFile[s], new |-> slotFile'[s]]
    BY <1>2 DEF SaveState, SlotWritten
  <2> QED
    BY <2>1 DEF BackedUp, UndoFindsBoth, TypeOK
<1>3. ASSUME geniestage # 1, slotFile[s] = NoFile \/ ~backupSavestates
      PROVE  UndoFindsBoth'
  <2>1. /\ undoSS' = FALSE
        /\ slotFile' = [slotFile EXCEPT ![s] = Written(slotFile[s], place, outcome)]
        /\ UNCHANGED <<bakFile, lastSavestateMade, overwritten>>
        /\ redoSS' = (redoSS /\ outcome = "refused")
    BY <1>3 DEF SaveState, SlotWritten
  <2>2. SUFFICES ASSUME redoSS' PROVE UndoFindsBoth'
    BY <2>1 DEF UndoFindsBoth
  <2>3. redoSS /\ Written(slotFile[s], place, outcome) = slotFile[s]
    BY <2>1, <2>2, WrittenIsContent DEF TypeOK
  <2>4. slotFile' = slotFile
    BY <2>1, <2>3 DEF TypeOK
  <2> QED
    BY <2>1, <2>3, <2>4 DEF UndoFindsBoth
<1> QED
  BY <1>1, <1>2, <1>3

\* No command separates an offered undo from the two files it is about.
LEMMA NextUndoFindsBoth ==
  TypeOK /\ UndoFindsBoth /\ [Next]_vars => UndoFindsBoth'
<1> SUFFICES ASSUME TypeOK, UndoFindsBoth, [Next]_vars PROVE UndoFindsBoth'
  OBVIOUS
<1> USE DEF vars, files, saveFlags, loadFlags
<1>1. CASE Play \/ Power \/ OpenGame \/ ToggleBackups
  BY <1>1 DEF Play, Power, OpenGame, ToggleBackups, UndoFindsBoth
<1>2. ASSUME NEW s \in Slots, SelectState(s) PROVE UndoFindsBoth'
  BY <1>2 DEF SelectState, UndoFindsBoth
<1>3. ASSUME NEW s \in Slots, NEW outcome \in Outcomes, SaveState(s, outcome)
      PROVE  UndoFindsBoth'
  BY <1>3, SaveKeepsPair
<1>4. ASSUME NEW s \in Slots, NEW outcome \in Outcomes, LoadState(s, outcome)
      PROVE  UndoFindsBoth'
  <2>1. redoSS' => redoSS
    BY <1>4, BackupLoadStateRedo DEF LoadState, TypeOK
  <2> QED
    BY <1>4, <2>1 DEF LoadState, UndoFindsBoth
<1>5. ASSUME NEW outcome \in Outcomes, SaveStateAs(outcome) PROVE UndoFindsBoth'
  BY <1>5 DEF SaveStateAs, UndoFindsBoth
<1>6. ASSUME NEW content \in UserFiles, NEW outcome \in Outcomes,
             LoadStateAs(content, outcome)
      PROVE  UndoFindsBoth'
  <2>1. redoSS' => redoSS
    BY <1>6, BackupLoadStateRedo DEF LoadStateAs, TypeOK
  <2> QED
    BY <1>6, <2>1 DEF LoadStateAs, UndoFindsBoth
<1>7. CASE SwapSaveState
  BY <1>7 DEF SwapSaveState, UndoFindsBoth, TypeOK
<1>8. CASE RedoLoadState \/ LoadBackup
  BY <1>8 DEF RedoLoadState, LoadBackup, UndoFindsBoth
<1>9. CASE UNCHANGED vars
  BY <1>9 DEF UndoFindsBoth
<1> QED
  BY <1>1, <1>2, <1>3, <1>4, <1>5, <1>6, <1>7, <1>8, <1>9 DEF Next

\* Whenever an undo or a redo of a savestate is offered, the slot and its
\* backup hold what the last backed-up save replaced and what it wrote.
THEOREM UndoIsComplete == Spec => []UndoFindsBoth
<1>1. Init => UndoFindsBoth
  BY DEF Init, UndoFindsBoth
<1> QED
  BY <1>1, InitTypeOK, NextTypeOK, NextUndoFindsBoth, PTL DEF Spec

-----------------------------------------------------------------------------
\* With the option on, no command loses what a slot holds, even when it
\* cannot write the slot.
THEOREM SlotsAreKept == Spec => OverwrittenKept
<1> DEFINE Kept(s) == slotFile[s] # NoFile => slotFile[s] \in {slotFile'[s], bakFile'[s]}
<1>1. TypeOK /\ [Next]_vars => (backupSavestates => \A t \in Slots : Kept(t))
  <2> SUFFICES ASSUME TypeOK, [Next]_vars, backupSavestates, NEW t \in Slots
               PROVE  Kept(t)
    OBVIOUS
  <2> USE DEF vars, files, saveFlags, loadFlags
  <2>1. ASSUME NEW s \in Slots, NEW outcome \in Outcomes, SaveState(s, outcome)
        PROVE  Kept(t)
    <3>1. CASE geniestage = 1
      BY <2>1, <3>1 DEF SaveState
    <3>2. CASE geniestage # 1 /\ slotFile[s] # NoFile
      <4>1. /\ bakFile' = [bakFile EXCEPT ![s] = slotFile[s]]
            /\ slotFile' = [slotFile EXCEPT ![s] = Written(NoFile, place, outcome)]
        BY <2>1, <3>2 DEF SaveState, SlotWritten, BackedUp
      <4> QED
        BY <4>1 DEF TypeOK
    <3>3. CASE geniestage # 1 /\ slotFile[s] = NoFile
      <4>1. slotFile' = [slotFile EXCEPT ![s] = Written(slotFile[s], place, outcome)]
        BY <2>1, <3>3 DEF SaveState, SlotWritten
      <4> QED
        BY <3>3, <4>1 DEF TypeOK
    <3> QED
      BY <3>1, <3>2, <3>3
  <2>2. CASE SwapSaveState
    BY <2>2 DEF SwapSaveState, TypeOK
  <2>3. CASE UNCHANGED slotFile
    BY <2>3
  <2> QED
    BY <2>1, <2>2, <2>3
    DEF Next, Play, Power, OpenGame, ToggleBackups, SelectState, LoadState,
        SaveStateAs, LoadStateAs, RedoLoadState, LoadBackup
<1>2. TypeOK /\ [Next]_vars =>
        [backupSavestates =>
           \A s \in Slots : slotFile[s] # NoFile => slotFile[s] \in {slotFile'[s], bakFile'[s]}]_vars
  BY <1>1
<1> QED
  BY <1>2, TypeCorrect, PTL DEF Spec, OverwrittenKept

-----------------------------------------------------------------------------
\* With the option on, reading a file leads to the place it holds or to the
\* one that was left, but for what rereading the backup costs it.
LEMMA LoadedPlace ==
  ASSUME backupSavestates, NEW content, NEW p \in Loaded(content)
  PROVE  \/ p \in {place, content}
         \/ p = Reread[place] /\ content \in {Headless, OldState}
<1>1. CASE content \in Machine
  BY <1>1, SaveSlotsAssumption DEF Loaded, Unreadable
<1>2. CASE content \notin Machine /\ content \in {Headless, OldState}
  BY <1>2, SaveSlotsAssumption DEF Loaded
<1>3. CASE content \notin Machine /\ content \notin {Headless, OldState}
  BY <1>3 DEF Loaded
<1> QED
  BY <1>1, <1>2, <1>3

\* A file that is missing leads nowhere.
LEMMA LoadedNothing == Loaded(NoFile) = {place}
<1>1. NoFile \notin Machine /\ NoFile \notin {Foreign, OldState, Headless}
  BY SaveSlotsAssumption DEF Unreadable
<1> QED
  BY <1>1 DEF Loaded

\* Every load leaves the game where it was or reads one of the files.
LEMMA LoadsReadHeld ==
  ASSUME TypeOK, Loads
  PROVE  place' = place \/ \E content \in Held : place' \in Loaded(content)
<1>1. ASSUME NEW s \in Slots, NEW outcome \in Outcomes, LoadState(s, outcome)
      PROVE  place' = place \/ place' \in Loaded(slotFile[s])
  BY <1>1 DEF LoadState
<1>2. ASSUME NEW content \in UserFiles, NEW outcome \in Outcomes,
             LoadStateAs(content, outcome)
      PROVE  place' = place \/ place' \in Loaded(content)
  BY <1>2 DEF LoadStateAs
<1>3. CASE RedoLoadState /\ lastLoadstateMade = NoSlot
  BY <1>3, LoadedNothing DEF RedoLoadState, Reloaded
<1>4. CASE RedoLoadState /\ lastLoadstateMade # NoSlot
  <2>1. lastLoadstateMade \in Slots
    BY <1>4 DEF TypeOK
  <2>2. place' = place \/ place' \in Loaded(slotFile[lastLoadstateMade])
    BY <1>4 DEF RedoLoadState, Reloaded
  <2> QED
    BY <2>1, <2>2 DEF Held
<1>5. CASE LoadBackup
  BY <1>5 DEF LoadBackup, Reloaded, Held
<1> QED
  BY <1>1, <1>2, <1>3, <1>4, <1>5 DEF Loads, Held

\* With the option on, a load never leaves half of what it could not read:
\* the game is where it was or where a file says, but for what reading the
\* backup as of an old version costs.
THEOREM UnreadableIsHarmless == Spec => UnreadableLeavesPlace
<1> DEFINE Harmless == \/ place' \in {place} \cup Held
                       \/ place' = Reread[place] /\ {Headless, OldState} \cap Held # {}
<1>1. TypeOK => (backupSavestates /\ Loads => Harmless)
  <2> SUFFICES ASSUME TypeOK, backupSavestates, Loads PROVE Harmless
    OBVIOUS
  <2>1. CASE place' = place
    BY <2>1
  <2>2. ASSUME NEW content \in Held, place' \in Loaded(content) PROVE Harmless
    BY <2>2, LoadedPlace
  <2> QED
    BY <2>1, <2>2, LoadsReadHeld
<1>2. TypeOK /\ [Next]_vars =>
        [backupSavestates /\ Loads =>
           \/ place' \in {place} \cup Held
           \/ place' = Reread[place] /\ {Headless, OldState} \cap Held # {}]_vars
  BY <1>1
<1> QED
  BY <1>2, TypeCorrect, PTL DEF Spec, UnreadableLeavesPlace

=============================================================================
