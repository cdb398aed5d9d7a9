------------------------------ MODULE MCTimeline ------------------------------
(* The small instance of Timeline.                                          *)
EXTENDS Timeline, MCEmulator

CONSTANTS
  MaxMovie,  \* the longest movie that is sent
  MaxFrame   \* the last frame that is asked for

\* A frame is one step past its number, and the list of next nodes one more.
ASSUME DepthAssumption == Depth >= MaxFrame + 2

MCMovies == BoundedSeq(MCInputs, MaxMovie)
MCFrames == 0..MaxFrame

=============================================================================
