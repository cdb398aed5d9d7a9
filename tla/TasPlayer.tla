------------------------------ MODULE TasPlayer ------------------------------
(***************************************************************************)
(* What the server promises the person editing a movie, with no cache in   *)
(* it: a frame that is shown is the result of playing the movie from the   *)
(* freshly loaded ROM.  The promise is exact for the frames the movie has  *)
(* inputs for.  Past the end of the movie the server does not say which    *)
(* inputs it played: after a movie was cut short, states recorded under    *)
(* the inputs that were cut off may still be in use.                       *)
(***************************************************************************)
EXTENDS Emulator

CONSTANTS Movies, Frames

VARIABLES
  cartridge,  \* the ROM that is loaded
  machine,    \* the state of the loaded ROM, NoState before one is opened
  movie,      \* the inputs the browser sent last
  screen      \* the last frame that was shown

playerVars == <<cartridge, machine, movie, screen>>

\* What is on the screen before any frame was shown.
Blank == [frame |-> 0, state |-> NoState]

\* "played" is the movie, for as long as the movie lasts.
Follows(played) ==
  \A f \in DOMAIN played : f <= Len(movie) => played[f] = movie[f]

-----------------------------------------------------------------------------
PlayerInit ==
  /\ cartridge = NoRom
  /\ machine = NoState
  /\ movie = <<>>
  /\ screen = Blank

Load(r) ==
  /\ cartridge' = r
  /\ machine' = Boot[r]
  /\ UNCHANGED <<movie, screen>>

Edit(m) ==
  /\ movie' = m
  /\ UNCHANGED <<cartridge, machine, screen>>

\* Frame f is shown: inputs 0..f were played from the loaded ROM.
Show(f) ==
  /\ machine # NoState
  /\ \E played \in [1..(f + 1) -> Inputs] :
       /\ Follows(played)
       /\ screen' = [frame |-> f, state |-> Played(cartridge, machine, played)[f + 1]]
  /\ UNCHANGED <<cartridge, machine, movie>>

\* The server was stopped and started again.
Forget ==
  /\ cartridge' = NoRom
  /\ machine' = NoState
  /\ movie' = <<>>
  /\ screen' = Blank

PlayerNext ==
  \/ \E r \in Roms : Load(r)
  \/ \E m \in Movies : Edit(m)
  \/ \E f \in Frames : Show(f)
  \/ Forget

PlayerSpec == PlayerInit /\ [][PlayerNext]_playerVars

=============================================================================
