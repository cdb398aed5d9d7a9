----------------------------- MODULE SearchPage -----------------------------
(***************************************************************************)
(* The A* buttons of the web page (src/html_ui/main.coffee) over a         *)
(* connection that stays up: a search is begun at the frame the page       *)
(* stands on, each further click works on it, and the best path of every   *)
(* status is written into the page's movie behind that frame.  The search  *)
(* itself is AStar's: here it answers with any path, of the machine that   *)
(* cmd_initAStar left it in.                                               *)
(*                                                                         *)
(* Init, Next and Spec are called PageInit, PageNext and PageSpec, so that *)
(* this module can stand beside AStar.                                     *)
(*                                                                         *)
(* A movie gives every frame its input, 0 past its end.  getFrame and what *)
(* it shows, the other commands and lost connections are Session's.        *)
(***************************************************************************)
EXTENDS Emulator

CONSTANTS
  Null,        \* AStarInitialized without a search
  MaxFrame,    \* bound on the frames the user stands on and edits
  LastFrame,   \* bound on the frames of a movie
  Paths,       \* the paths a search may report
  MaxSearches, \* bound on the searches begun
  MaxQueue     \* bound on the messages under way

ASSUME SearchPageAssumption ==
  /\ Null \notin Nat
  /\ LastFrame \in Nat /\ MaxFrame \in 0..LastFrame /\ MaxSearches \in Nat /\ MaxQueue \in Nat
  /\ Paths \subseteq Seq(Inputs)
  /\ \A path \in Paths : MaxFrame + Len(path) <= LastFrame

Frames == 0..LastFrame

VARIABLES
  \* the page
  FrameInputBytes,
  FrameInputBytesChanged,
  timer,             \* sendFrameCommandsTimeout is pending
  CurFrame,
  AStarInitialized,  \* the frame the search was begun at, or null
  \* the connection
  toServer, toPage,
  \* the server
  gInputTimeline,
  gAStar,            \* the inputs the machine had played when the search began
  \* history
  search,            \* the searches begun so far; the last is the page's
  strayed            \* the page's movie is not the one the search began with

pageVars == <<FrameInputBytes, FrameInputBytesChanged, timer, CurFrame, AStarInitialized>>
connVars == <<toServer, toPage>>
serverVars == <<gInputTimeline, gAStar>>
historyVars == <<search, strayed>>
systemVars == <<pageVars, connVars, serverVars, historyVars>>

\* The bound on the queues.
HasRoom == Len(toServer) + Len(toPage) < MaxQueue

Send(message) == toServer' = Append(toServer, message)

\* `not AStarInitialized`: null is falsy, and so is frame 0.
NotInitialized == AStarInitialized \in {Null, 0}

\* The frame before the first that a path is written to: null counts as 0.
PathBase == IF AStarInitialized = Null THEN 0 ELSE AStarInitialized

-----------------------------------------------------------------------------
PageInit ==
  /\ FrameInputBytes = [f \in Frames |-> NoInput]
  /\ FrameInputBytesChanged = FALSE
  /\ timer = FALSE
  /\ CurFrame = 0
  /\ AStarInitialized = Null
  /\ toServer = <<>> /\ toPage = <<>>
  /\ gInputTimeline = FrameInputBytes
  /\ gAStar = [search |-> 0, played |-> <<>>]
  /\ search = 0 /\ strayed = FALSE

\* setFrameInput, of some frames at once, and the frameChanged that follows.
\* The search strays when a frame it had played is among them.
Write(movie) ==
  /\ FrameInputBytes' = movie
  /\ FrameInputBytesChanged' = (FrameInputBytesChanged \/ movie # FrameInputBytes)
  /\ timer' = TRUE
  /\ strayed' = (strayed \/ \E f \in 0..PathBase : movie[f] # FrameInputBytes[f])

SetFrameInput(frame, input) ==
  /\ FrameInputBytes[frame] # input
  /\ Write([FrameInputBytes EXCEPT ![frame] = input])
  /\ UNCHANGED <<CurFrame, AStarInitialized, connVars, serverVars, search>>

\* frameChanged
FrameChanged(frame) ==
  /\ CurFrame' = frame
  /\ timer' = TRUE
  /\ UNCHANGED <<FrameInputBytes, FrameInputBytesChanged, AStarInitialized,
                 connVars, serverVars, historyVars>>

\* sendFrameCommands
SendFrameCommands ==
  /\ timer
  /\ timer' = FALSE
  /\ FrameInputBytesChanged' = FALSE
  /\ IF FrameInputBytesChanged
     THEN HasRoom /\ Send([cmd |-> "setFrameInputs", movie |-> FrameInputBytes])
     ELSE UNCHANGED toServer
  /\ UNCHANGED <<FrameInputBytes, CurFrame, AStarInitialized, toPage, serverVars,
                 historyVars>>

\* The click handler of startAStar.  A search is begun at once, with the
\* movie the server has: edits wait up to 100 ms for sendFrameCommands.
StartAStar ==
  /\ HasRoom
  /\ \/ /\ NotInitialized /\ search < MaxSearches
        /\ AStarInitialized' = CurFrame
        /\ search' = search + 1
        /\ strayed' = FrameInputBytesChanged
        /\ Send([cmd |-> "initAStar", frame |-> CurFrame, search |-> search + 1])
     \/ /\ ~NotInitialized
        /\ Send([cmd |-> "workAStar"])
        /\ UNCHANGED <<AStarInitialized, historyVars>>
  /\ UNCHANGED <<FrameInputBytes, FrameInputBytesChanged, timer, CurFrame, toPage, serverVars>>

\* The click handler of cancelAStar: the server is not told.
CancelAStar ==
  /\ AStarInitialized' = Null
  /\ strayed' = TRUE
  /\ UNCHANGED <<FrameInputBytes, FrameInputBytesChanged, timer, CurFrame, connVars,
                 serverVars, search>>

\* Mutant: the path is written from the frame the search was begun at.
WithPathAtStart(path) ==
  [f \in Frames |->
     IF f >= PathBase /\ f < PathBase + Len(path) THEN path[f - PathBase + 1]
     ELSE FrameInputBytes[f]]

\* The page's movie with a path written behind the frame the search, or
\* whichever was begun since, was begun at.
WithPath(path) ==
  [f \in Frames |->
     IF f > PathBase /\ f <= PathBase + Len(path) THEN path[f - PathBase]
     ELSE FrameInputBytes[f]]

\* conn.onmessage of an aStarStatus.
TakeStatus ==
  /\ toPage # <<>>
  /\ toPage' = Tail(toPage)
  /\ IF Head(toPage).path = <<>>
     THEN UNCHANGED <<FrameInputBytes, FrameInputBytesChanged, timer, strayed>>
     ELSE Write(WithPath(Head(toPage).path))
  /\ UNCHANGED <<CurFrame, AStarInitialized, toServer, serverVars, search>>

\* The handlers of the server, one command after the other: gMutex is held.
Handle ==
  /\ toServer # <<>>
  /\ toServer' = Tail(toServer)
  /\ LET m == Head(toServer)
     IN \/ /\ m.cmd = "setFrameInputs"
           /\ gInputTimeline' = m.movie
           /\ UNCHANGED <<toPage, gAStar>>
        \/ \* cmd_initAStar: the machine has played the frame itself, too.
           /\ m.cmd = "initAStar"
           /\ gAStar' = [search |-> m.search,
                         played |-> [k \in 1..(m.frame + 1) |-> gInputTimeline[k - 1]]]
           /\ UNCHANGED <<toPage, gInputTimeline>>
        \/ /\ m.cmd = "workAStar"
           /\ \E path \in Paths :
                toPage' = Append(toPage, [search |-> gAStar.search,
                                          played |-> gAStar.played, path |-> path])
           /\ UNCHANGED serverVars
  /\ UNCHANGED <<pageVars, historyVars>>

PageNext ==
  \/ \E frame \in 0..MaxFrame, input \in Inputs : SetFrameInput(frame, input)
  \/ \E frame \in 0..MaxFrame : FrameChanged(frame)
  \/ SendFrameCommands \/ StartAStar \/ CancelAStar
  \/ TakeStatus \/ Handle

PageSpec == PageInit /\ [][PageNext]_systemVars

-----------------------------------------------------------------------------
\* What the page shows after a status is what the search found: the movie up
\* to the end of the path, replayed, is the inputs the machine of the search
\* had played and then the path.  So it is for every status of the search the
\* page began last, however long it was under way and whatever the user did
\* behind that frame meanwhile, unless the search was cancelled, began before
\* the last edits were sent, or a frame it had played was edited
\* (main.coffee:208-213, 421-428, cmd_initAStar).
PathContinuesMovie ==
  [][TakeStatus /\ Head(toPage).search = search /\ ~strayed =>
       LET found == Head(toPage).played \o Head(toPage).path
       IN \A k \in DOMAIN found : FrameInputBytes'[k - 1] = found[k]]_systemVars

=============================================================================
