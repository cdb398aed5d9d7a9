------------------------------ MODULE MCEmulator ------------------------------
(***************************************************************************)
(* The emulator the small instances run on.  A state is the list of the    *)
(* steps made since the machine was started, each with the ROM that was in *)
(* it and the input, so two states are equal only when they were reached   *)
(* by the same play of the same ROMs.  A machine that forgets nothing is   *)
(* the hardest one to be right about: what holds of it does not hold by    *)
(* two different plays happening to end in one state.                      *)
(***************************************************************************)
EXTENDS Naturals, Sequences, SequencesExt

CONSTANTS
  RomImages,  \* the ROMs
  Buttons,    \* controller bytes 0..Buttons-1
  Depth       \* steps after which the machine stands still

MCInputs == 0..(Buttons - 1)
MCNoInput == 0
MCLastInput == Buttons - 1

MCStates == [booted : RomImages, steps : BoundedSeq(RomImages \X MCInputs, Depth)]

MCBoot == [r \in RomImages |-> [booted |-> r, steps |-> <<>>]]

MCStep ==
  [p \in RomImages \X MCStates \X MCInputs |->
     IF Len(p[2].steps) < Depth
     THEN [p[2] EXCEPT !.steps = Append(@, <<p[1], p[3]>>)]
     ELSE p[2]]

=============================================================================
