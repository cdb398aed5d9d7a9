------------------------------- MODULE Emulator -------------------------------
(***************************************************************************)
(* The emulator as the rest of tastiness uses it: a deterministic machine. *)
(* Stepping from a state with one byte of controller input always gives    *)
(* the same next state, and a saved state loads back to itself             *)
(* (FCEUSS_SaveRAW and FCEUSS_LoadRAW).  A savestate holds the machine but *)
(* not the cartridge, so what a step leads to depends on the ROM too.      *)
(* What the machine computes is left open: States and Step are parameters. *)
(***************************************************************************)
EXTENDS Naturals, Sequences

CONSTANTS
  Roms,       \* the files a client may open, one without a game included
  States,     \* savestates of the emulated machine
  Inputs,     \* controller bytes, 0..255 in the program
  NoInput,    \* the byte 0: no button is pressed
  LastInput,  \* the byte 255, the last one of a loop over all inputs
  Boot,       \* Boot[r]: the state right after ROM r was loaded
  Step,       \* Step[<<r, s, i>>]: the state a frame of r after s, under i
  NoRom,      \* no ROM was opened yet
  NoState     \* the empty savestate, before any ROM was opened

ASSUME EmulatorAssumption ==
  /\ NoInput \in Inputs
  /\ LastInput \in Inputs
  /\ Boot \in [Roms -> States]
  /\ Step \in [Roms \X States \X Inputs -> States]
  /\ NoRom \notin Roms
  /\ NoState \notin States

\* Emulator::LoadUncompressed(s) followed by Emulator::Step(i), with the ROM
\* r in the machine.
Advance(r, s, i) == Step[<<r, s, i>>]

\* The states met when ROM r is played with the inputs w from state s:
\* after[k] is the state after the first k of them.
Played(r, s, w) ==
  LET after[k \in 0..Len(w)] ==
        IF k = 0 THEN s ELSE Advance(r, after[k - 1], w[k])
  IN  after

=============================================================================
