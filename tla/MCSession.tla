------------------------------ MODULE MCSession ------------------------------
(***************************************************************************)
(* The small instance of Session: two buttons, a few frames and FM2 files  *)
(* that are empty, shorter and as long as the movie the user makes.  It    *)
(* begins with nothing, or where a few gestures lead: a movie is loaded, a *)
(* ROM opened, its frames were looked at, and the user is back on frame 0. *)
(***************************************************************************)
EXTENDS Session

MCMovies == {<<>>, <<1>>, <<1, 1>>}

Visited ==
  /\ romOpen = TRUE
  /\ gInputTimeline = <<1, 1>> /\ gEmuStateTimeline = <<1, 1>>
  /\ gRamBlackoutBytes = NoBlackout
  /\ gConn = 1 /\ waiting = {} /\ served = {1}
  /\ current = 1 /\ opened = TRUE
  /\ toServer = [c \in 1..Connections |-> <<>>] /\ toPage = <<>>
  /\ FrameInputBytes = <<1, 1>> /\ FrameCount = 2 /\ CurFrame = 0
  /\ FrameInputBytesChanged = FALSE
  /\ RamBlackoutBytes = NoBlackout /\ RamBlackoutBytesChanged = FALSE
  /\ timer = FALSE /\ shown = [frame |-> 0, played |-> <<1>>]
  /\ dropped = FALSE /\ crossed = FALSE /\ overtaken = FALSE
  /\ actions = 0

MCSpec == (Init \/ Visited) /\ [][Next]_vars /\ Fairness

=============================================================================
