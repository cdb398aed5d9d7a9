------------------------------- MODULE Session -------------------------------
(***************************************************************************)
(* The web page (src/html_ui/main.coffee) and the server it edits the      *)
(* movie of, joined by a websocket (the handlers of                        *)
(* src/tastiness-main.cc).  The page keeps its own copy of the movie and   *)
(* of the blackout bytes and sends them, 100 ms after the last change, with*)
(* a request for the frame it stands on.  When a connection is ready the   *)
(* server sends its copies back, and the page takes them.                  *)
(*                                                                         *)
(* Connections are numbered in the order they are opened.  The server has  *)
(* a thread for each, which goes on reading what was sent before the page  *)
(* closed it; gMutex makes a handler one step, and which thread gets the   *)
(* mutex next is open.  A movie is a sequence of inputs, frame f at f + 1. *)
(***************************************************************************)
EXTENDS Naturals, Sequences, FiniteSets

CONSTANTS
  Inputs,       \* controller bytes
  NoInput,      \* the byte 0
  Frames,       \* the frames the user visits
  Edited,       \* the frames the user edits
  Padding,      \* bytes appended behind an edit past the end, 100 in the page
  Movies,       \* the FM2 files the user may load, as movies
  Blackouts,    \* lists of blackout bytes
  NoBlackout,   \* the empty list
  Actions,      \* bound on what the user does
  Connections   \* bound on the connections of a run

ASSUME SessionAssumption ==
  /\ NoInput \in Inputs
  /\ Frames \subseteq Nat /\ Edited \subseteq Nat
  /\ Padding \in Nat \ {0}
  /\ Movies \subseteq Seq(Inputs)
  /\ NoBlackout \in Blackouts
  /\ Actions \in Nat
  /\ Connections \in Nat \ {0}

VARIABLES
  \* the server
  romOpen,                  \* gEmuInitialState is not empty
  gInputTimeline,
  gEmuStateTimeline,        \* the inputs its states were stepped with
  gRamBlackoutBytes,
  gConn,                    \* the connection that was ready last, 0 for none
  waiting,                  \* connections websocket_ready_handler will run for
  served,                   \* connections it ran for
  \* the connections
  current,                  \* the one the page opened last, 0 for none
  opened,                   \* it is open, as the page sees it
  toServer,                 \* commands sent on each connection, not yet handled
  toPage,                   \* messages received or on the way to the page
  \* the page
  FrameInputBytes,
  FrameCount,
  CurFrame,
  FrameInputBytesChanged,
  RamBlackoutBytes,
  RamBlackoutBytesChanged,
  timer,                    \* sendFrameCommandsTimeout is pending
  shown,                    \* the frame on the screen and the inputs it played
  \* history and bounds
  dropped,                  \* the page cut presses off its movie, unsaid
  crossed,                  \* the page sent its movie before it took the copy the
                            \* server sent when the connection was ready
  overtaken,                \* an older connection's command came after a newer
                            \* connection's copies were sent
  actions                   \* what the user did so far

tapeVars == <<gInputTimeline, gEmuStateTimeline>>
serverVars == <<romOpen, tapeVars, gRamBlackoutBytes, gConn, waiting, served>>
connVars == <<current, opened, toServer, toPage>>
movieVars == <<FrameInputBytes, FrameCount, CurFrame>>
flagVars == <<FrameInputBytesChanged, RamBlackoutBytesChanged>>
pageVars == <<movieVars, flagVars, RamBlackoutBytes, timer, shown>>
historyVars == <<dropped, crossed, overtaken>>
vars == <<serverVars, connVars, pageVars, historyVars, actions>>

\* No frame was shown yet.
Blank == [frame |-> 0, played |-> <<>>]

-----------------------------------------------------------------------------
(* Movies and messages. *)

\* Frame f of movie m: 0 past its end, for the server (getInputStateForFrame)
\* as for the page (undefined|0).
At(m, f) == IF f < Len(m) THEN m[f + 1] ELSE NoInput

\* copyTypedArray: the first n bytes of m, filled up with zeros.
CopyTypedArray(m, n) == [k \in 1..n |-> At(m, k - 1)]

\* Cutting movie m to n frames loses presses.
Loses(m, n) == \E k \in DOMAIN m : k > n /\ m[k] # NoInput

InputsCmd(m) == [cmd |-> "setFrameInputs", movie |-> m]
BlackoutCmd(b) == [cmd |-> "setRamBlackoutBytes", blackout |-> b]
OpenRomCmd == [cmd |-> "openRom"]
GetFrameCmd(f) == [cmd |-> "getFrame", frame |-> f]

InputsMsg(m) == [t |-> "binFrameInputs", movie |-> m]
BlackoutMsg(b) == [t |-> "binRamBlackoutBytes", blackout |-> b]
FrameMsg(f, played) == [t |-> "frame", frame |-> f, played |-> played]

\* Connection.send: what is sent while the socket is not open is dropped.
Send(cmds) ==
  toServer' = IF opened THEN [toServer EXCEPT ![current] = @ \o cmds] ELSE toServer

-----------------------------------------------------------------------------
(* The page: frameChanged and frameCountChanged. *)

AtLeastOne(n) == IF n < 1 THEN 1 ELSE n

\* The page after frameChanged(frame), with movie m of count frames: standing
\* past the end makes the movie longer, and the commands are due in 100 ms.
FrameChanged(m, count, frame) ==
  /\ CurFrame' = frame
  /\ IF frame > count
     THEN FrameCount' = frame /\ FrameInputBytes' = CopyTypedArray(m, frame)
     ELSE FrameCount' = count /\ FrameInputBytes' = m
  /\ timer' = TRUE

\* The page after frameCountChanged(n), standing on the same frame.
FrameCountChangedWithoutCopy(m, n) == FrameChanged(m, AtLeastOne(n), CurFrame)
FrameCountChanged(m, n) ==
  FrameChanged(CopyTypedArray(m, AtLeastOne(n)), AtLeastOne(n), CurFrame)

\* What sendFrameCommands sends.
CommandsDueEitherOr ==
  (IF FrameInputBytesChanged THEN <<InputsCmd(FrameInputBytes)>>
   ELSE IF RamBlackoutBytesChanged THEN <<BlackoutCmd(RamBlackoutBytes)>> ELSE <<>>)
  \o <<GetFrameCmd(CurFrame)>>
CommandsDueFrameFirst ==
  <<GetFrameCmd(CurFrame)>>
  \o (IF FrameInputBytesChanged THEN <<InputsCmd(FrameInputBytes)>> ELSE <<>>)
  \o (IF RamBlackoutBytesChanged THEN <<BlackoutCmd(RamBlackoutBytes)>> ELSE <<>>)
CommandsDue ==
  (IF FrameInputBytesChanged THEN <<InputsCmd(FrameInputBytes)>> ELSE <<>>)
  \o (IF RamBlackoutBytesChanged THEN <<BlackoutCmd(RamBlackoutBytes)>> ELSE <<>>)
  \o <<GetFrameCmd(CurFrame)>>

\* A page that was just loaded; its script ends with frameChanged().
NewPage ==
  /\ FrameInputBytes = <<>>
  /\ FrameCount = 0
  /\ CurFrame = 0
  /\ FrameInputBytesChanged = FALSE
  /\ RamBlackoutBytes = NoBlackout
  /\ RamBlackoutBytesChanged = FALSE
  /\ timer = TRUE
  /\ shown = Blank

\* A server that was just started.
NewServer ==
  /\ romOpen = FALSE
  /\ gInputTimeline = <<>>
  /\ gEmuStateTimeline = <<>>
  /\ gRamBlackoutBytes = NoBlackout
  /\ gConn = 0
  /\ waiting = {}
  /\ served = {}

Init ==
  /\ NewPage
  /\ NewServer
  /\ current = 0
  /\ opened = FALSE
  /\ toServer = [c \in 1..Connections |-> <<>>]
  /\ toPage = <<>>
  /\ dropped = FALSE
  /\ crossed = FALSE
  /\ overtaken = FALSE
  /\ actions = 0

-----------------------------------------------------------------------------
(* What the user does. *)

UserActs == actions < Actions /\ actions' = actions + 1

\* setFrameInput, from the piano roll.
SetFrameInput(frame, input) ==
  LET m == IF frame < Len(FrameInputBytes) THEN FrameInputBytes
           ELSE CopyTypedArray(FrameInputBytes, frame + Padding)
      count == IF frame < FrameCount THEN FrameCount ELSE frame + 1
      changes == At(m, frame) # input
  IN  /\ UserActs
      /\ FrameInputBytesChanged' = (FrameInputBytesChanged \/ changes)
      /\ IF changes \/ m # FrameInputBytes \/ count # FrameCount
         THEN FrameChanged([m EXCEPT ![frame + 1] = input], count, CurFrame)
         ELSE UNCHANGED <<movieVars, timer>>
      /\ UNCHANGED <<serverVars, connVars, RamBlackoutBytes, RamBlackoutBytesChanged,
                      shown, historyVars>>

\* The frame number, the time bar or the buttons: frameChanged(frame).
GoTo(frame) ==
  /\ UserActs
  /\ FrameChanged(FrameInputBytes, FrameCount, frame)
  /\ UNCHANGED <<serverVars, connVars, flagVars, RamBlackoutBytes, shown, historyVars>>

\* The frame count box: jQuery passes its event to frameCountChanged, and
\* event|0 is 0 whatever was typed.  The movie is cut but not marked changed.
SetFrameCount ==
  /\ UserActs
  /\ FrameCountChanged(FrameInputBytes, 0)
  /\ dropped' = (dropped \/ Loses(FrameInputBytes, 1))
  /\ UNCHANGED <<serverVars, connVars, flagVars, RamBlackoutBytes, shown, crossed, overtaken>>

\* An FM2 file: frameCountChanged, then its inputs are written one by one.
LoadFm2(movie) ==
  LET count == AtLeastOne(Len(movie))
      m == CopyTypedArray(FrameInputBytes, count)
  IN  /\ UserActs
      /\ FrameChanged([k \in 1..count |-> IF k <= Len(movie) THEN movie[k] ELSE m[k]],
                      count, CurFrame)
      /\ FrameInputBytesChanged' = (FrameInputBytesChanged \/ movie # <<>>)
      /\ dropped' = (dropped \/ Loses(FrameInputBytes, count))
      /\ UNCHANGED <<serverVars, connVars, RamBlackoutBytes, RamBlackoutBytesChanged,
                      shown, crossed, overtaken>>

\* ramBlackoutBytesChanged: nothing happens when b is what the page has.
TakeBlackout(b) ==
  IF b = RamBlackoutBytes
  THEN UNCHANGED <<movieVars, RamBlackoutBytes, RamBlackoutBytesChanged, timer>>
  ELSE /\ RamBlackoutBytes' = b
       /\ RamBlackoutBytesChanged' = TRUE
       /\ FrameChanged(FrameInputBytes, FrameCount, CurFrame)

SetBlackout(b) ==
  /\ UserActs
  /\ b # RamBlackoutBytes
  /\ TakeBlackout(b)
  /\ UNCHANGED <<serverVars, connVars, FrameInputBytesChanged, shown, historyVars>>

\* A ROM file is sent at once, not with the next commands.
ChooseRom ==
  /\ UserActs
  /\ Send(<<OpenRomCmd>>)
  /\ FrameChanged(FrameInputBytes, FrameCount, CurFrame)
  /\ UNCHANGED <<serverVars, current, opened, toPage, flagVars, RamBlackoutBytes, shown,
                  historyVars>>

-----------------------------------------------------------------------------
(* The page's events. *)

\* The server's copy of the movie is still to come, or on its way.
CopyIsComing ==
  current \in waiting \/ \E k \in DOMAIN toPage : toPage[k].t = "binFrameInputs"

\* sendFrameCommands, when the timeout expires: the flags are cleared whether
\* or not the commands go out.
SendFrameCommands ==
  /\ timer
  /\ timer' = FALSE
  /\ FrameInputBytesChanged' = FALSE
  /\ RamBlackoutBytesChanged' = FALSE
  /\ Send(CommandsDue)
  /\ LET sent == opened /\ FrameInputBytesChanged
     IN  /\ dropped' = (dropped /\ ~sent)
         /\ crossed' = IF sent THEN CopyIsComing ELSE crossed
  /\ UNCHANGED <<serverVars, current, opened, toPage, movieVars, RamBlackoutBytes, shown,
                  overtaken, actions>>

\* onmessage and the FileReader it starts, when the reader is done.
TakeMessage ==
  /\ toPage # <<>>
  /\ toPage' = Tail(toPage)
  /\ \/ /\ Head(toPage).t = "binFrameInputs"
        /\ FrameCountChanged(Head(toPage).movie, Len(Head(toPage).movie))
        /\ dropped' = FALSE
        /\ UNCHANGED <<flagVars, RamBlackoutBytes, shown>>
     \/ /\ Head(toPage).t = "binRamBlackoutBytes"
        /\ TakeBlackout(Head(toPage).blackout)
        /\ UNCHANGED <<FrameInputBytesChanged, shown, dropped>>
     \/ /\ Head(toPage).t = "frame"
        /\ shown' = [frame |-> Head(toPage).frame, played |-> Head(toPage).played]
        /\ UNCHANGED <<movieVars, flagVars, RamBlackoutBytes, timer, dropped>>
  /\ UNCHANGED <<serverVars, current, opened, toServer, crossed, overtaken, actions>>

\* openSocket, by the constructor and again by onclose: the handshake is done.
OpenSocketOnce ==
  /\ current = 0
  /\ current' = 1
  /\ opened' = TRUE
  /\ waiting' = waiting \cup {1}
  /\ UNCHANGED <<romOpen, tapeVars, gRamBlackoutBytes, gConn, served, toServer,
                  toPage, pageVars, historyVars, actions>>
OpenSocket ==
  /\ ~opened
  /\ current < Connections
  /\ current' = current + 1
  /\ opened' = TRUE
  /\ waiting' = waiting \cup {current + 1}
  /\ UNCHANGED <<romOpen, tapeVars, gRamBlackoutBytes, gConn, served, toServer,
                  toPage, pageVars, historyVars, actions>>

\* The page got the first n of the messages on their way to it.
Received(n) == toPage' = SubSeq(toPage, 1, n)

\* The connection breaks; what the page sent may still be read.
Close ==
  /\ opened /\ current < Connections
  /\ opened' = FALSE
  /\ \E n \in 0..Len(toPage) : Received(n)
  /\ \E n \in 0..Len(toServer[current]) :
       toServer' = [toServer EXCEPT ![current] = SubSeq(@, 1, n)]
  /\ crossed' = FALSE
  /\ UNCHANGED <<serverVars, current, pageVars, dropped, overtaken, actions>>

\* The user reloads the page.
Reload ==
  /\ UserActs
  /\ current < Connections
  /\ opened' = FALSE
  /\ toPage' = <<>>
  /\ FrameInputBytes' = <<>>
  /\ FrameCount' = 0
  /\ CurFrame' = 0
  /\ FrameInputBytesChanged' = FALSE
  /\ RamBlackoutBytes' = NoBlackout
  /\ RamBlackoutBytesChanged' = FALSE
  /\ timer' = TRUE
  /\ shown' = Blank
  /\ dropped' = FALSE
  /\ crossed' = FALSE
  /\ UNCHANGED <<serverVars, current, toServer, overtaken>>

-----------------------------------------------------------------------------
(* The server.  Each handler holds gMutex from beginning to end. *)

\* The connection the page would see an answer on.
Reaches(c) == opened /\ c = current

\* websocket_ready_handler
Ready(c) ==
  /\ c \in waiting
  /\ waiting' = waiting \ {c}
  /\ served' = served \cup {c}
  /\ gConn' = c
  /\ toPage' = IF Reaches(c)
               THEN toPage \o <<InputsMsg(gInputTimeline), BlackoutMsg(gRamBlackoutBytes)>>
               ELSE toPage
  /\ overtaken' = \E d \in served : c < d
  /\ UNCHANGED <<romOpen, tapeVars, gRamBlackoutBytes, current, opened, toServer,
                  pageVars, dropped, crossed, actions>>

\* The movie already has the input number k that m sends.
Unchanged(m, k) == k <= Len(gInputTimeline) /\ gInputTimeline[k] = m[k]

\* The states of gEmuStateTimeline that cmd_setFrameInputs keeps: those
\* before the first input of m that is new, all of them when none is, and so
\* also the ones behind the end of a movie that became shorter.
Kept(m, n) ==
  /\ \A k \in 1..Len(m) : k <= n => Unchanged(m, k)
  /\ n < Len(gEmuStateTimeline) => n < Len(m) /\ ~Unchanged(m, n + 1)

\* emulateToFrame: the states up to a frame are the recorded ones as far as
\* they reach, and are stepped with the movie from there.  The frame itself is
\* always stepped into, and its own state not recorded.
Input(k) ==
  IF k <= Len(gEmuStateTimeline) THEN gEmuStateTimeline[k] ELSE At(gInputTimeline, k - 1)
Filled(f) ==
  [k \in 1..(IF f > Len(gEmuStateTimeline) THEN f ELSE Len(gEmuStateTimeline)) |-> Input(k)]
PlayedInto(f) == [k \in 1..(f + 1) |-> IF k <= f THEN Input(k) ELSE At(gInputTimeline, f)]

\* websocket_data_handler, with the next command of connection c.  A frame is
\* answered on gConn, and not at all before a ROM was opened.
Handle(c) ==
  /\ c \in served
  /\ toServer[c] # <<>>
  /\ toServer' = [toServer EXCEPT ![c] = Tail(@)]
  /\ LET command == Head(toServer[c])
     IN  \/ /\ command.cmd = "setFrameInputs"
            /\ gInputTimeline' = command.movie
            /\ \E n \in 0..Len(gEmuStateTimeline) :
                 /\ Kept(command.movie, n)
                 /\ gEmuStateTimeline' = SubSeq(gEmuStateTimeline, 1, n)
            /\ UNCHANGED <<romOpen, gRamBlackoutBytes, toPage>>
         \/ /\ command.cmd = "setRamBlackoutBytes"
            /\ gRamBlackoutBytes' = command.blackout
            /\ gEmuStateTimeline' = <<>>
            /\ UNCHANGED <<romOpen, gInputTimeline, toPage>>
         \/ /\ command.cmd = "openRom"
            /\ romOpen' = TRUE
            /\ gEmuStateTimeline' = <<>>
            /\ UNCHANGED <<gInputTimeline, gRamBlackoutBytes, toPage>>
         \/ /\ command.cmd = "getFrame" /\ romOpen
            /\ gEmuStateTimeline' = Filled(command.frame)
            /\ toPage' = IF Reaches(gConn)
                         THEN Append(toPage, FrameMsg(command.frame, PlayedInto(command.frame)))
                         ELSE toPage
            /\ UNCHANGED <<romOpen, gInputTimeline, gRamBlackoutBytes>>
         \/ /\ command.cmd = "getFrame" /\ ~romOpen
            /\ UNCHANGED <<romOpen, tapeVars, gRamBlackoutBytes, toPage>>
  /\ overtaken' = (overtaken \/ \E d \in served : c < d)
  /\ UNCHANGED <<gConn, waiting, served, current, opened, pageVars, dropped, crossed, actions>>

\* The server dies and is started again, with nothing: every connection is
\* gone with what was sent on it.
Restart ==
  /\ current < Connections
  /\ romOpen' = FALSE
  /\ gInputTimeline' = <<>>
  /\ gEmuStateTimeline' = <<>>
  /\ gRamBlackoutBytes' = NoBlackout
  /\ gConn' = 0
  /\ waiting' = {}
  /\ served' = {}
  /\ opened' = FALSE
  /\ toServer' = [c \in 1..Connections |-> <<>>]
  /\ \E n \in 0..Len(toPage) : Received(n)
  /\ overtaken' = FALSE
  /\ crossed' = FALSE
  /\ UNCHANGED <<current, pageVars, dropped, actions>>

-----------------------------------------------------------------------------
User ==
  \/ \E f \in Edited, i \in Inputs : SetFrameInput(f, i)
  \/ \E f \in Frames : GoTo(f)
  \/ SetFrameCount
  \/ \E m \in Movies : LoadFm2(m)
  \/ \E b \in Blackouts : SetBlackout(b)
  \/ ChooseRom
  \/ Reload

Next ==
  \/ User
  \/ SendFrameCommands
  \/ TakeMessage
  \/ OpenSocket
  \/ Close
  \/ \E c \in 1..Connections : Ready(c)
  \/ \E c \in 1..Connections : Handle(c)
  \/ Restart

\* The browser runs expired timeouts, finished readers and onclose; the server
\* has a thread for every connection, which gets the mutex in the end.
Fairness ==
  /\ WF_vars(SendFrameCommands)
  /\ WF_vars(TakeMessage)
  /\ WF_vars(OpenSocket)
  /\ \A c \in 1..Connections : WF_vars(Ready(c)) /\ WF_vars(Handle(c))

Spec == Init /\ [][Next]_vars
FairSpec == Spec /\ Fairness

-----------------------------------------------------------------------------
(* Properties. *)

TypeOK ==
  /\ romOpen \in BOOLEAN
  /\ gInputTimeline \in Seq(Inputs) /\ gEmuStateTimeline \in Seq(Inputs)
  /\ gRamBlackoutBytes \in Blackouts
  /\ gConn \in 0..Connections
  /\ waiting \subseteq 1..current /\ served \subseteq 1..current
  /\ current \in 0..Connections
  /\ opened \in BOOLEAN
  /\ DOMAIN toServer = 1..Connections
  /\ FrameInputBytes \in Seq(Inputs)
  /\ FrameCount \in 0..Len(FrameInputBytes)
  /\ CurFrame \in Nat
  /\ {FrameInputBytesChanged, RamBlackoutBytesChanged, timer} \subseteq BOOLEAN
  /\ RamBlackoutBytes \in Blackouts
  /\ shown.frame \in Nat /\ shown.played \in Seq(Inputs)

\* Nothing is on its way: the page is connected, its timeout expired, what
\* was sent was handled, whatever connection it was sent on.
Settled ==
  /\ opened /\ ~timer
  /\ waiting = {}
  /\ \A c \in 1..Connections : toServer[c] = <<>>
  /\ toPage = <<>>

Same(m, n) == \A f \in 0..(Len(m) + Len(n)) : At(m, f) = At(n, f)

\* Once everything sent is handled, page and server have the same movie and
\* the same blackout bytes, however edits, reloads, broken connections and
\* restarts interleave; unless the page cut its movie without saying so, its
\* movie and the server's crossed on the way, or a thread of an older
\* connection got the mutex after a newer one's.
InStep ==
  Settled /\ ~dropped /\ ~crossed /\ ~overtaken =>
    /\ Same(FrameInputBytes, gInputTimeline)
    /\ RamBlackoutBytes = gRamBlackoutBytes

\* A press the server has recorded behind the end of its movie: the movie
\* was shortened, and the states recorded with what was cut off were kept.
LeftOver(k) ==
  /\ k \in DOMAIN gEmuStateTimeline /\ k > Len(gInputTimeline)
  /\ gEmuStateTimeline[k] # NoInput

\* Then the screen shows the frame the page stands on, played with the inputs
\* the page displays, however the movie was edited, cut and lengthened again
\* and whatever was asked for meanwhile; but for presses left over behind the
\* end of the server's movie, which frames further on are still played with.
ShownIsCurrent ==
  Settled /\ ~dropped /\ ~crossed /\ ~overtaken /\ romOpen =>
    /\ shown.frame = CurFrame /\ DOMAIN shown.played = 1..(CurFrame + 1)
    /\ \A k \in 1..(CurFrame + 1) :
         shown.played[k] = At(FrameInputBytes, k - 1) \/ (k <= CurFrame /\ LeftOver(k))

\* The bytes behind the end of the movie, which the page sends along but does
\* not show, press nothing: the server plays only what the page displays.
NothingBehindTheEnd == ~ Loses(FrameInputBytes, FrameCount)

\* The page always comes to rest, connected: the copies the server sends and
\* the page's echo of them do not go back and forth for ever.
Settles == []<>Settled

=============================================================================
