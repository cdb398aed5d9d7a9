---------------------------- MODULE SessionProofs ----------------------------
(***************************************************************************)
(* What holds of the page and its server for every number of connections,  *)
(* crashes and gestures and every movie: the types of what they keep and   *)
(* send; that the page sends no press it does not display; that page and   *)
(* server have the same movie once nothing is on its way; and that the     *)
(* screen shows the frame the page stands on.                              *)
(***************************************************************************)
EXTENDS Session, SequenceTheorems, TLAPS

Commands ==
  [cmd : {"setFrameInputs"}, movie : Seq(Inputs)]
    \cup [cmd : {"setRamBlackoutBytes"}, blackout : Blackouts]
    \cup [cmd : {"openRom"}]
    \cup [cmd : {"getFrame"}, frame : Nat]

Messages ==
  [t : {"binFrameInputs"}, movie : Seq(Inputs)]
    \cup [t : {"binRamBlackoutBytes"}, blackout : Blackouts]
    \cup [t : {"frame"}, frame : Nat, played : Seq(Inputs)]

\* A movie of count frames, with nothing behind its end.
Displayed(m, count) ==
  m \in Seq(Inputs) /\ count \in 0..Len(m) /\ ~Loses(m, count)

MovieInv ==
  /\ Displayed(FrameInputBytes, FrameCount)
  /\ CurFrame \in Nat /\ timer \in BOOLEAN

FlagInv ==
  /\ FrameInputBytesChanged \in BOOLEAN /\ RamBlackoutBytesChanged \in BOOLEAN
  /\ RamBlackoutBytes \in Blackouts
  /\ shown.frame \in Nat /\ shown.played \in Seq(Inputs)

ServerInv ==
  /\ romOpen \in BOOLEAN
  /\ gInputTimeline \in Seq(Inputs) /\ gEmuStateTimeline \in Seq(Inputs)
  /\ gRamBlackoutBytes \in Blackouts
  /\ gConn \in 0..Connections

ConnInv ==
  /\ current \in 0..Connections /\ opened \in BOOLEAN /\ (opened => current # 0)
  /\ waiting \subseteq 1..current /\ served \subseteq 1..current
  /\ toServer \in [1..Connections -> Seq(Commands)]
  /\ toPage \in Seq(Messages)

SessionInv == MovieInv /\ FlagInv /\ ServerInv /\ ConnInv

-----------------------------------------------------------------------------
(* Movies. *)

LEMMA AtTyped ==
  ASSUME NEW m \in Seq(Inputs), NEW f \in Nat
  PROVE  At(m, f) \in Inputs
<1>1. CASE f < Len(m)
  <2>1. f + 1 \in 1..Len(m)
    BY <1>1, LenProperties
  <2>2. m[f + 1] \in Inputs
    BY <2>1, ElementOfSeq
  <2> QED BY <1>1, <2>2 DEF At
<1>2. CASE ~(f < Len(m))
  BY <1>2, SessionAssumption DEF At
<1> QED BY <1>1, <1>2

\* A copy has the length asked for, and nothing behind it.
LEMMA CopyTyped ==
  ASSUME NEW m \in Seq(Inputs), NEW n \in Nat
  PROVE  /\ CopyTypedArray(m, n) \in Seq(Inputs) /\ Len(CopyTypedArray(m, n)) = n
         /\ DOMAIN CopyTypedArray(m, n) = 1..n
         /\ \A k \in 1..n : CopyTypedArray(m, n)[k] = At(m, k - 1)
         /\ Displayed(CopyTypedArray(m, n), n)
<1> DEFINE c == CopyTypedArray(m, n)
<1>1. \A k \in 1..n : At(m, k - 1) \in Inputs
  BY AtTyped
<1>2. c \in [1..n -> Inputs] /\ \A k \in 1..n : c[k] = At(m, k - 1)
  BY <1>1 DEF CopyTypedArray
<1>3. c \in Seq(Inputs)
  BY <1>2, SeqDef
<1>4. Len(c) = n /\ DOMAIN c = 1..n
  <2>1. DOMAIN c = 1..n /\ DOMAIN c = 1..Len(c) /\ Len(c) \in Nat
    BY <1>2, <1>3, LenProperties
  <2> QED BY <2>1
<1>5. Displayed(c, n)
  BY <1>3, <1>4 DEF Displayed, Loses
<1> QED BY <1>2, <1>3, <1>4, <1>5

LEMMA AtLeastOneTyped ==
  ASSUME NEW n \in Nat
  PROVE  AtLeastOne(n) \in Nat /\ AtLeastOne(n) >= 1
BY DEF AtLeastOne

\* frameChanged keeps a movie displayed, however far the user goes.
LEMMA FrameChangedKeeps ==
  ASSUME NEW m, NEW count, NEW frame \in Nat, Displayed(m, count),
         FrameChanged(m, count, frame)
  PROVE  MovieInv'
<1>1. CurFrame' = frame /\ timer' = TRUE
  BY DEF FrameChanged
<1>2. CASE frame > count
  <2>1. FrameCount' = frame /\ FrameInputBytes' = CopyTypedArray(m, frame)
    BY <1>2 DEF FrameChanged
  <2>2. Displayed(CopyTypedArray(m, frame), frame)
    BY CopyTyped DEF Displayed
  <2> QED BY <1>1, <2>1, <2>2 DEF MovieInv
<1>3. CASE ~(frame > count)
  BY <1>1, <1>3 DEF FrameChanged, MovieInv
<1> QED BY <1>2, <1>3

LEMMA FrameCountChangedKeeps ==
  ASSUME CurFrame \in Nat, NEW m \in Seq(Inputs), NEW n \in Nat, FrameCountChanged(m, n)
  PROVE  MovieInv'
<1>1. AtLeastOne(n) \in Nat
  BY AtLeastOneTyped
<1>2. Displayed(CopyTypedArray(m, AtLeastOne(n)), AtLeastOne(n))
  BY <1>1, CopyTyped
<1> QED BY <1>2, FrameChangedKeeps DEF FrameCountChanged

\* An input written by setFrameInput.
LEMMA WrittenInput ==
  ASSUME NEW frame \in Nat, NEW input \in Inputs, Displayed(FrameInputBytes, FrameCount)
  PROVE  LET m == IF frame < Len(FrameInputBytes) THEN FrameInputBytes
                  ELSE CopyTypedArray(FrameInputBytes, frame + Padding)
             count == IF frame < FrameCount THEN FrameCount ELSE frame + 1
         IN Displayed([m EXCEPT ![frame + 1] = input], count)
<1> DEFINE m == IF frame < Len(FrameInputBytes) THEN FrameInputBytes
                ELSE CopyTypedArray(FrameInputBytes, frame + Padding)
           count == IF frame < FrameCount THEN FrameCount ELSE frame + 1
           w == [m EXCEPT ![frame + 1] = input]
<1>1. /\ FrameInputBytes \in Seq(Inputs) /\ Len(FrameInputBytes) \in Nat
      /\ FrameCount \in 0..Len(FrameInputBytes) /\ Padding \in Nat /\ Padding >= 1
      /\ DOMAIN FrameInputBytes = 1..Len(FrameInputBytes)
      /\ \A k \in 1..Len(FrameInputBytes) :
           k > FrameCount => FrameInputBytes[k] = NoInput
  BY LenProperties, SessionAssumption DEF Displayed, Loses
<1>2. /\ m \in Seq(Inputs) /\ Len(m) \in Nat /\ frame < Len(m)
      /\ FrameCount <= Len(m)
      /\ \A k \in 1..Len(m) : k > FrameCount => m[k] = NoInput
  <2>1. CASE frame < Len(FrameInputBytes)
    BY <1>1, <2>1
  <2>2. CASE ~(frame < Len(FrameInputBytes))
    <3>1. frame + Padding \in Nat
      BY <1>1
    <3>2. /\ m \in Seq(Inputs) /\ Len(m) = frame + Padding
          /\ \A k \in 1..(frame + Padding) : m[k] = At(FrameInputBytes, k - 1)
      BY <1>1, <2>2, <3>1, CopyTyped
    <3> HIDE DEF m
    <3>3. ASSUME NEW k \in 1..Len(m), k > FrameCount
          PROVE  m[k] = NoInput
      <4>1. m[k] = At(FrameInputBytes, k - 1)
        BY <3>2, <3>3
      <4>2. CASE k - 1 < Len(FrameInputBytes)
        <5>1. At(FrameInputBytes, k - 1) = FrameInputBytes[k]
          BY <1>1, <3>1, <3>2, <4>2 DEF At
        <5>2. k \in 1..Len(FrameInputBytes)
          BY <1>1, <3>1, <3>2, <4>2
        <5> QED BY <1>1, <3>3, <4>1, <5>1, <5>2
      <4>3. CASE ~(k - 1 < Len(FrameInputBytes))
        BY <4>1, <4>3 DEF At
      <4> QED BY <4>2, <4>3
    <3>4. frame < Len(m) /\ FrameCount <= Len(m)
      BY <1>1, <2>2, <3>2
    <3> QED BY <1>1, <3>1, <3>2, <3>3, <3>4
  <2> QED BY <2>1, <2>2
<1> HIDE DEF m
<1>3. frame + 1 \in 1..Len(m)
  BY <1>2
<1>4. /\ w \in Seq(Inputs) /\ Len(w) = Len(m) /\ DOMAIN w = 1..Len(w)
      /\ \A k \in 1..Len(m) : w[k] = IF k = frame + 1 THEN input ELSE m[k]
  BY <1>2, <1>3, ExceptSeq, LenProperties
<1> HIDE DEF w
<1>5. count \in 0..Len(w)
  BY <1>1, <1>2, <1>4
<1>6. \A k \in DOMAIN w : k > count => w[k] = NoInput
  BY <1>1, <1>2, <1>4
<1> QED BY <1>4, <1>5, <1>6 DEF Displayed, Loses, w, m

-----------------------------------------------------------------------------
(* What is sent. *)

\* Commands are sent by one connection or none.
LEMMA SendKeeps ==
  ASSUME ConnInv, NEW cmds \in Seq(Commands), Send(cmds)
  PROVE  toServer' \in [1..Connections -> Seq(Commands)]
<1>1. CASE opened
  <2>1. current \in 1..Connections
    BY <1>1, SessionAssumption DEF ConnInv
  <2>2. toServer[current] \o cmds \in Seq(Commands)
    BY <2>1, ConcatProperties DEF ConnInv
  <2>3. toServer' = [toServer EXCEPT ![current] = toServer[current] \o cmds]
    BY <1>1 DEF Send
  <2> QED BY <2>1, <2>2, <2>3 DEF ConnInv
<1>2. CASE ~opened
  BY <1>2 DEF Send, ConnInv
<1> QED BY <1>1, <1>2

\* A sequence of one or none.
LEMMA OneOrNone ==
  ASSUME NEW S, NEW x \in S, NEW p \in BOOLEAN
  PROVE  (IF p THEN <<x>> ELSE <<>>) \in Seq(S)
<1>1. <<x>> \in Seq(S) /\ <<>> \in Seq(S)
  BY EmptySeq
<1> QED BY <1>1

LEMMA CommandsDueTyped ==
  ASSUME MovieInv, FlagInv
  PROVE  CommandsDue \in Seq(Commands)
<1> DEFINE inputs == IF FrameInputBytesChanged THEN <<InputsCmd(FrameInputBytes)>> ELSE <<>>
           blackout == IF RamBlackoutBytesChanged THEN <<BlackoutCmd(RamBlackoutBytes)>>
                       ELSE <<>>
           frame == <<GetFrameCmd(CurFrame)>>
<1>1. /\ InputsCmd(FrameInputBytes) \in Commands /\ BlackoutCmd(RamBlackoutBytes) \in Commands
      /\ GetFrameCmd(CurFrame) \in Commands
  BY DEF Commands, InputsCmd, BlackoutCmd, GetFrameCmd, MovieInv, FlagInv, Displayed
<1>2. inputs \in Seq(Commands) /\ blackout \in Seq(Commands)
  BY <1>1, OneOrNone DEF FlagInv
<1>3. frame \in Seq(Commands)
  BY <1>1
<1>4. CommandsDue = inputs \o blackout \o frame
  BY DEF CommandsDue
<1> HIDE DEF inputs, blackout, frame
<1>5. inputs \o blackout \in Seq(Commands)
  BY <1>2, ConcatProperties
<1>6. (inputs \o blackout) \o frame \in Seq(Commands)
  BY <1>3, <1>5, ConcatProperties
<1> QED BY <1>4, <1>6

LEMMA PrefixTyped ==
  ASSUME NEW S, NEW s \in Seq(S), NEW n \in 0..Len(s)
  PROVE  SubSeq(s, 1, n) \in Seq(S)
<1>1. Len(s) \in Nat
  BY LenProperties
<1>2. \A k \in 1..n : s[k] \in S
  BY <1>1, ElementOfSeq
<1> QED BY <1>1, <1>2, SubSeqProperties

-----------------------------------------------------------------------------
(* The invariant. *)

LEMMA InitHolds ==
  ASSUME Init
  PROVE  SessionInv
<1>1. <<>> \in Seq(Inputs) /\ Len(<<>>) = 0 /\ <<>> \in Seq(Commands) /\ <<>> \in Seq(Messages)
  BY EmptySeq
<1>2. MovieInv
  <2>1. ~Loses(<<>>, 0)
    BY DEF Loses
  <2> QED BY <1>1, <2>1 DEF Init, NewPage, MovieInv, Displayed
<1>3. FlagInv
  BY <1>1, SessionAssumption DEF Init, NewPage, FlagInv, Blank
<1>4. ServerInv
  <2>1. gConn \in 0..Connections
    BY SessionAssumption DEF Init, NewServer
  <2> QED BY <1>1, <2>1, SessionAssumption DEF Init, NewServer, ServerInv
<1>5. ConnInv
  <2>1. current \in 0..Connections /\ current = 0
    BY SessionAssumption DEF Init
  <2>2. toServer \in [1..Connections -> Seq(Commands)]
    BY <1>1 DEF Init
  <2> QED BY <1>1, <2>1, <2>2 DEF Init, NewServer, ConnInv
<1> QED BY <1>2, <1>3, <1>4, <1>5 DEF SessionInv

LEMMA SetFrameInputKeeps ==
  ASSUME SessionInv, NEW frame \in Edited, NEW input \in Inputs, SetFrameInput(frame, input)
  PROVE  SessionInv'
<1> DEFINE m == IF frame < Len(FrameInputBytes) THEN FrameInputBytes
                ELSE CopyTypedArray(FrameInputBytes, frame + Padding)
           count == IF frame < FrameCount THEN FrameCount ELSE frame + 1
           changes == At(m, frame) # input
<1>1. /\ FrameInputBytesChanged' = (FrameInputBytesChanged \/ changes)
      /\ IF changes \/ m # FrameInputBytes \/ count # FrameCount
         THEN FrameChanged([m EXCEPT ![frame + 1] = input], count, CurFrame)
         ELSE UNCHANGED <<movieVars, timer>>
      /\ UNCHANGED <<serverVars, connVars, RamBlackoutBytes, RamBlackoutBytesChanged, shown>>
  BY DEF SetFrameInput
<1>2. Displayed([m EXCEPT ![frame + 1] = input], count)
  BY WrittenInput, SessionAssumption DEF SessionInv, MovieInv
<1>3. CurFrame \in Nat
  BY DEF SessionInv, MovieInv
<1> HIDE DEF m, count, changes
<1>4. MovieInv'
  <2>1. CASE changes \/ m # FrameInputBytes \/ count # FrameCount
    BY <1>1, <1>2, <1>3, <2>1, FrameChangedKeeps
  <2>2. CASE ~(changes \/ m # FrameInputBytes \/ count # FrameCount)
    BY <1>1, <2>2 DEF SessionInv, MovieInv, movieVars
  <2> QED BY <2>1, <2>2
<1>5. FlagInv'
  <2>1. FrameInputBytesChanged' \in BOOLEAN
    BY <1>1 DEF changes, SessionInv, FlagInv
  <2> QED BY <1>1, <2>1 DEF SessionInv, FlagInv
<1>6. ServerInv' /\ ConnInv'
  BY <1>1 DEF SessionInv, ServerInv, ConnInv, serverVars, tapeVars, connVars
<1> QED BY <1>4, <1>5, <1>6 DEF SessionInv

LEMMA LoadFm2Keeps ==
  ASSUME SessionInv, NEW movie \in Movies, LoadFm2(movie)
  PROVE  SessionInv'
<1> DEFINE count == AtLeastOne(Len(movie))
           m == CopyTypedArray(FrameInputBytes, count)
           loaded == [k \in 1..count |-> IF k <= Len(movie) THEN movie[k] ELSE m[k]]
<1>1. /\ FrameChanged(loaded, count, CurFrame)
      /\ FrameInputBytesChanged' = (FrameInputBytesChanged \/ movie # <<>>)
      /\ UNCHANGED <<serverVars, connVars, RamBlackoutBytes, RamBlackoutBytesChanged, shown>>
  BY DEF LoadFm2
<1>2. movie \in Seq(Inputs) /\ Len(movie) \in Nat /\ count \in Nat
  BY AtLeastOneTyped, LenProperties, SessionAssumption
<1>3. CurFrame \in Nat /\ FrameInputBytes \in Seq(Inputs)
  BY DEF SessionInv, MovieInv, Displayed
<1> HIDE DEF count
<1>4. \A k \in 1..count : m[k] \in Inputs
  BY <1>2, <1>3, CopyTyped, AtTyped
<1> HIDE DEF m
<1>5. \A k \in 1..count : (IF k <= Len(movie) THEN movie[k] ELSE m[k]) \in Inputs
  BY <1>2, <1>4, ElementOfSeq
<1>6. loaded \in [1..count -> Inputs]
  BY <1>5
<1>7. loaded \in Seq(Inputs)
  BY <1>2, <1>6, SeqDef
<1>8. DOMAIN loaded = 1..count
  BY <1>6
<1> HIDE DEF loaded
<1>9. Len(loaded) = count
  BY <1>2, <1>7, <1>8, LenProperties
<1>10. Displayed(loaded, count)
  BY <1>2, <1>7, <1>8, <1>9 DEF Displayed, Loses
<1>11. MovieInv'
  BY <1>1, <1>3, <1>10, FrameChangedKeeps
<1>12. FlagInv'
  BY <1>1 DEF SessionInv, FlagInv
<1>13. ServerInv' /\ ConnInv'
  BY <1>1 DEF SessionInv, ServerInv, ConnInv, serverVars, tapeVars, connVars
<1> QED BY <1>11, <1>12, <1>13 DEF SessionInv

LEMMA TakeBlackoutKeeps ==
  ASSUME MovieInv, FlagInv, NEW b \in Blackouts, TakeBlackout(b)
  PROVE  /\ MovieInv'
         /\ RamBlackoutBytes' \in Blackouts /\ RamBlackoutBytesChanged' \in BOOLEAN
<1>1. CASE b = RamBlackoutBytes
  BY <1>1 DEF TakeBlackout, MovieInv, FlagInv, movieVars
<1>2. CASE b # RamBlackoutBytes
  <2>1. FrameChanged(FrameInputBytes, FrameCount, CurFrame)
        /\ RamBlackoutBytes' = b /\ RamBlackoutBytesChanged' = TRUE
    BY <1>2 DEF TakeBlackout
  <2> QED BY <2>1, FrameChangedKeeps DEF MovieInv
<1> QED BY <1>1, <1>2

LEMMA TakeMessageKeeps ==
  ASSUME SessionInv, TakeMessage
  PROVE  SessionInv'
<1> DEFINE m == Head(toPage)
<1>1. /\ toPage # <<>> /\ toPage' = Tail(toPage)
      /\ UNCHANGED <<serverVars, current, opened, toServer>>
  BY DEF TakeMessage
<1>2. m \in Messages /\ toPage' \in Seq(Messages)
  BY <1>1, HeadTailProperties DEF SessionInv, ConnInv
<1>3. ServerInv' /\ ConnInv'
  BY <1>1, <1>2 DEF SessionInv, ServerInv, ConnInv, serverVars, tapeVars
<1>4. MovieInv' /\ FlagInv'
  <2>1. CASE /\ m.t = "binFrameInputs"
             /\ FrameCountChanged(m.movie, Len(m.movie))
             /\ UNCHANGED <<flagVars, RamBlackoutBytes, shown>>
    <3>1. m.movie \in Seq(Inputs)
      BY <1>2, <2>1 DEF Messages
    <3>2. Len(m.movie) \in Nat
      BY <3>1, LenProperties
    <3>3. MovieInv'
      BY <2>1, <3>1, <3>2, FrameCountChangedKeeps DEF SessionInv, MovieInv
    <3> QED BY <2>1, <3>3 DEF SessionInv, FlagInv, flagVars
  <2>2. CASE /\ m.t = "binRamBlackoutBytes"
             /\ TakeBlackout(m.blackout)
             /\ UNCHANGED <<FrameInputBytesChanged, shown>>
    <3>1. m.blackout \in Blackouts
      BY <1>2, <2>2 DEF Messages
    <3>2. MovieInv' /\ RamBlackoutBytes' \in Blackouts /\ RamBlackoutBytesChanged' \in BOOLEAN
      BY <2>2, <3>1, TakeBlackoutKeeps DEF SessionInv
    <3> QED BY <2>2, <3>2 DEF SessionInv, FlagInv
  <2>3. CASE /\ m.t = "frame"
             /\ shown' = [frame |-> m.frame, played |-> m.played]
             /\ UNCHANGED <<movieVars, flagVars, RamBlackoutBytes, timer>>
    <3>1. m.frame \in Nat /\ m.played \in Seq(Inputs)
      BY <1>2, <2>3 DEF Messages
    <3> QED BY <2>3, <3>1 DEF SessionInv, MovieInv, FlagInv, flagVars, movieVars
  <2> QED BY <2>1, <2>2, <2>3 DEF TakeMessage
<1> QED BY <1>3, <1>4 DEF SessionInv

LEMMA SendFrameCommandsKeeps ==
  ASSUME SessionInv, SendFrameCommands
  PROVE  SessionInv'
<1>1. /\ timer' = FALSE /\ FrameInputBytesChanged' = FALSE /\ RamBlackoutBytesChanged' = FALSE
      /\ Send(CommandsDue)
      /\ UNCHANGED <<serverVars, current, opened, toPage, movieVars, RamBlackoutBytes, shown>>
  BY DEF SendFrameCommands
<1>2. toServer' \in [1..Connections -> Seq(Commands)]
  BY <1>1, CommandsDueTyped, SendKeeps DEF SessionInv
<1>3. MovieInv' /\ FlagInv'
  BY <1>1 DEF SessionInv, MovieInv, FlagInv, movieVars
<1>4. ServerInv' /\ ConnInv'
  BY <1>1, <1>2 DEF SessionInv, ServerInv, ConnInv, serverVars, tapeVars
<1> QED BY <1>3, <1>4 DEF SessionInv

LEMMA ChooseRomKeeps ==
  ASSUME SessionInv, ChooseRom
  PROVE  SessionInv'
<1>1. /\ Send(<<OpenRomCmd>>) /\ FrameChanged(FrameInputBytes, FrameCount, CurFrame)
      /\ UNCHANGED <<serverVars, current, opened, toPage, flagVars, RamBlackoutBytes, shown>>
  BY DEF ChooseRom
<1>2. OpenRomCmd \in Commands
  BY DEF OpenRomCmd, Commands
<1>3. <<OpenRomCmd>> \in Seq(Commands)
  BY <1>2
<1>4. toServer' \in [1..Connections -> Seq(Commands)]
  BY <1>1, <1>3, SendKeeps DEF SessionInv
<1>5. MovieInv'
  BY <1>1, FrameChangedKeeps DEF SessionInv, MovieInv
<1>6. FlagInv'
  BY <1>1 DEF SessionInv, FlagInv, flagVars
<1>7. ServerInv' /\ ConnInv'
  BY <1>1, <1>4 DEF SessionInv, ServerInv, ConnInv, serverVars, tapeVars
<1> QED BY <1>5, <1>6, <1>7 DEF SessionInv

LEMMA OpenSocketKeeps ==
  ASSUME SessionInv, OpenSocket
  PROVE  SessionInv'
<1>1. /\ current < Connections /\ current' = current + 1 /\ opened' = TRUE
      /\ waiting' = waiting \cup {current + 1}
      /\ UNCHANGED <<romOpen, tapeVars, gRamBlackoutBytes, gConn, served, toServer,
                      toPage, pageVars>>
  BY DEF OpenSocket
<1>2. /\ current' \in 0..Connections /\ current' # 0
      /\ waiting' \subseteq 1..current' /\ served \subseteq 1..current'
  BY <1>1, SessionAssumption DEF SessionInv, ConnInv
<1>3. ConnInv'
  BY <1>1, <1>2 DEF SessionInv, ConnInv
<1>4. ServerInv'
  BY <1>1 DEF SessionInv, ServerInv, tapeVars
<1>5. MovieInv' /\ FlagInv'
  BY <1>1 DEF SessionInv, MovieInv, FlagInv, pageVars, movieVars, flagVars
<1> QED BY <1>3, <1>4, <1>5 DEF SessionInv

LEMMA CloseKeeps ==
  ASSUME SessionInv, Close
  PROVE  SessionInv'
<1>1. /\ opened /\ opened' = FALSE /\ UNCHANGED <<serverVars, current, pageVars>>
  BY DEF Close
<1>2. current \in 1..Connections
  BY <1>1, SessionAssumption DEF SessionInv, ConnInv
<1>3. PICK n \in 0..Len(toPage) : toPage' = SubSeq(toPage, 1, n)
  BY DEF Close, Received
<1>4. toPage' \in Seq(Messages)
  BY <1>3, PrefixTyped DEF SessionInv, ConnInv
<1>5. PICK k \in 0..Len(toServer[current]) :
        toServer' = [toServer EXCEPT ![current] = SubSeq(toServer[current], 1, k)]
  BY DEF Close
<1>6. SubSeq(toServer[current], 1, k) \in Seq(Commands)
  BY <1>2, PrefixTyped DEF SessionInv, ConnInv
<1>7. toServer' \in [1..Connections -> Seq(Commands)]
  BY <1>5, <1>6 DEF SessionInv, ConnInv
<1>8. ServerInv' /\ ConnInv'
  BY <1>1, <1>4, <1>7 DEF SessionInv, ServerInv, ConnInv, serverVars, tapeVars
<1>9. MovieInv' /\ FlagInv'
  BY <1>1 DEF SessionInv, MovieInv, FlagInv, pageVars, movieVars, flagVars
<1> QED BY <1>8, <1>9 DEF SessionInv

LEMMA ReloadKeeps ==
  ASSUME SessionInv, Reload
  PROVE  SessionInv'
<1>1. /\ opened' = FALSE /\ toPage' = <<>> /\ FrameInputBytes' = <<>> /\ FrameCount' = 0
      /\ CurFrame' = 0 /\ FrameInputBytesChanged' = FALSE /\ RamBlackoutBytes' = NoBlackout
      /\ RamBlackoutBytesChanged' = FALSE /\ timer' = TRUE /\ shown' = Blank
      /\ UNCHANGED <<serverVars, current, toServer>>
  BY DEF Reload
<1>2. <<>> \in Seq(Inputs) /\ Len(<<>>) = 0 /\ <<>> \in Seq(Messages)
  BY EmptySeq
<1>3. MovieInv'
  <2>1. ~Loses(<<>>, 0)
    BY DEF Loses
  <2>2. Displayed(<<>>, 0)
    BY <1>2, <2>1 DEF Displayed
  <2> QED BY <1>1, <2>2 DEF MovieInv
<1>4. FlagInv'
  BY <1>1, <1>2, SessionAssumption DEF FlagInv, Blank
<1>5. ServerInv' /\ ConnInv'
  BY <1>1, <1>2 DEF SessionInv, ServerInv, ConnInv, serverVars, tapeVars
<1> QED BY <1>3, <1>4, <1>5 DEF SessionInv

LEMMA ReadyKeeps ==
  ASSUME SessionInv, NEW c \in 1..Connections, Ready(c)
  PROVE  SessionInv'
<1>1. /\ c \in waiting /\ waiting' = waiting \ {c} /\ served' = served \cup {c} /\ gConn' = c
      /\ UNCHANGED <<romOpen, tapeVars, gRamBlackoutBytes, current, opened, toServer,
                      pageVars>>
      /\ toPage' = IF Reaches(c)
                   THEN toPage \o <<InputsMsg(gInputTimeline), BlackoutMsg(gRamBlackoutBytes)>>
                   ELSE toPage
  BY DEF Ready
<1>2. InputsMsg(gInputTimeline) \in Messages /\ BlackoutMsg(gRamBlackoutBytes) \in Messages
  BY DEF SessionInv, ServerInv, InputsMsg, BlackoutMsg, Messages
<1> DEFINE copies == <<InputsMsg(gInputTimeline), BlackoutMsg(gRamBlackoutBytes)>>
<1>3. copies \in Seq(Messages)
  BY <1>2
<1> HIDE DEF copies
<1>4. toPage \o copies \in Seq(Messages)
  BY <1>3, ConcatProperties DEF SessionInv, ConnInv
<1>5. toPage' \in Seq(Messages)
  BY <1>1, <1>4 DEF SessionInv, ConnInv, copies
<1>6. ConnInv'
  BY <1>1, <1>5 DEF SessionInv, ConnInv
<1>7. ServerInv'
  <2>1. c \in 0..Connections
    BY SessionAssumption
  <2> QED BY <1>1, <2>1 DEF SessionInv, ServerInv, tapeVars
<1>8. MovieInv' /\ FlagInv'
  BY <1>1 DEF SessionInv, MovieInv, FlagInv, pageVars, movieVars, flagVars
<1> QED BY <1>6, <1>7, <1>8 DEF SessionInv

\* The states up to a frame, and what the frame is played with.
LEMMA FilledTyped ==
  ASSUME ServerInv, NEW f \in Nat
  PROVE  /\ Filled(f) \in Seq(Inputs)
         /\ Len(Filled(f)) = IF f > Len(gEmuStateTimeline) THEN f ELSE Len(gEmuStateTimeline)
         /\ \A k \in 1..Len(Filled(f)) : Filled(f)[k] = Input(k)
         /\ \A k \in Nat \ {0} : Input(k) \in Inputs
<1> DEFINE n == IF f > Len(gEmuStateTimeline) THEN f ELSE Len(gEmuStateTimeline)
           s == Filled(f)
<1>1. Len(gEmuStateTimeline) \in Nat /\ n \in Nat
  BY LenProperties DEF ServerInv
<1>2. \A k \in Nat \ {0} : Input(k) \in Inputs
  <2>1. ASSUME NEW k \in Nat \ {0}
        PROVE  Input(k) \in Inputs
    <3>1. CASE k <= Len(gEmuStateTimeline)
      <4>1. gEmuStateTimeline[k] \in Inputs
        BY <1>1, <3>1, ElementOfSeq DEF ServerInv
      <4> QED BY <3>1, <4>1 DEF Input
    <3>2. CASE ~(k <= Len(gEmuStateTimeline))
      <4>1. At(gInputTimeline, k - 1) \in Inputs
        BY AtTyped DEF ServerInv
      <4> QED BY <3>2, <4>1 DEF Input
    <3> QED BY <3>1, <3>2
  <2> QED BY <2>1
<1>3. s = [k \in 1..n |-> Input(k)]
  BY DEF Filled
<1> HIDE DEF n, s
<1>4. s \in [1..n -> Inputs]
  BY <1>1, <1>2, <1>3
<1>5. s \in Seq(Inputs)
  BY <1>1, <1>4, SeqDef
<1>6. Len(s) = n
  BY <1>1, <1>4, <1>5, LenProperties
<1> QED BY <1>2, <1>3, <1>5, <1>6 DEF n, s

LEMMA PlayedTyped ==
  ASSUME ServerInv, NEW f \in Nat
  PROVE  /\ PlayedInto(f) \in Seq(Inputs) /\ DOMAIN PlayedInto(f) = 1..(f + 1)
         /\ \A k \in 1..(f + 1) :
              PlayedInto(f)[k] = IF k <= f THEN Input(k) ELSE At(gInputTimeline, f)
<1> DEFINE value(k) == IF k <= f THEN Input(k) ELSE At(gInputTimeline, f)
           s == PlayedInto(f)
<1>1. ASSUME NEW k \in 1..(f + 1)
      PROVE  value(k) \in Inputs
  <2>1. Input(k) \in Inputs
    BY FilledTyped
  <2>2. At(gInputTimeline, f) \in Inputs
    BY AtTyped DEF ServerInv
  <2> QED BY <2>1, <2>2
<1>2. s = [k \in 1..(f + 1) |-> value(k)]
  BY DEF PlayedInto
<1> HIDE DEF value, s
<1>3. s \in [1..(f + 1) -> Inputs]
  BY <1>1, <1>2
<1>4. s \in Seq(Inputs)
  BY <1>3, SeqDef
<1> QED BY <1>2, <1>4 DEF value, s

LEMMA FrameMsgTyped ==
  ASSUME ServerInv, NEW f \in Nat
  PROVE  FrameMsg(f, PlayedInto(f)) \in Messages
<1> DEFINE played == PlayedInto(f)
<1>1. played \in Seq(Inputs)
  BY PlayedTyped
<1> HIDE DEF played
<1> QED BY <1>1 DEF FrameMsg, Messages, played

LEMMA HandleKeeps ==
  ASSUME SessionInv, NEW c \in 1..Connections, Handle(c)
  PROVE  SessionInv'
<1> DEFINE command == Head(toServer[c])
<1>1. /\ toServer[c] # <<>> /\ toServer' = [toServer EXCEPT ![c] = Tail(@)]
      /\ UNCHANGED <<gConn, waiting, served, current, opened, pageVars>>
  BY DEF Handle
<1>2. command \in Commands /\ Tail(toServer[c]) \in Seq(Commands)
  BY <1>1, HeadTailProperties DEF SessionInv, ConnInv
<1>3. toServer' \in [1..Connections -> Seq(Commands)]
  BY <1>1, <1>2 DEF SessionInv, ConnInv
<1>4. ServerInv' /\ toPage' \in Seq(Messages)
  <2>1. ASSUME command.cmd = "setFrameInputs", gInputTimeline' = command.movie,
               NEW n \in 0..Len(gEmuStateTimeline),
               gEmuStateTimeline' = SubSeq(gEmuStateTimeline, 1, n),
               UNCHANGED <<romOpen, gRamBlackoutBytes, toPage>>
        PROVE  ServerInv' /\ toPage' \in Seq(Messages)
    <3>1. command.movie \in Seq(Inputs)
      BY <1>2, <2>1 DEF Commands
    <3>2. gEmuStateTimeline' \in Seq(Inputs)
      BY <2>1, PrefixTyped DEF SessionInv, ServerInv
    <3> QED BY <1>1, <2>1, <3>1, <3>2 DEF SessionInv, ServerInv, ConnInv
  <2>2. CASE /\ command.cmd = "setRamBlackoutBytes" /\ gRamBlackoutBytes' = command.blackout
             /\ gEmuStateTimeline' = <<>> /\ UNCHANGED <<romOpen, gInputTimeline, toPage>>
    <3>1. command.blackout \in Blackouts
      BY <1>2, <2>2 DEF Commands
    <3> QED BY <1>1, <2>2, <3>1, EmptySeq DEF SessionInv, ServerInv, ConnInv
  <2>3. CASE /\ command.cmd = "openRom" /\ romOpen' = TRUE /\ gEmuStateTimeline' = <<>>
             /\ UNCHANGED <<gInputTimeline, gRamBlackoutBytes, toPage>>
    BY <1>1, <2>3, EmptySeq DEF SessionInv, ServerInv, ConnInv
  <2>4. CASE /\ command.cmd = "getFrame"
             /\ gEmuStateTimeline' = Filled(command.frame)
             /\ toPage' = IF Reaches(gConn)
                          THEN Append(toPage, FrameMsg(command.frame, PlayedInto(command.frame)))
                          ELSE toPage
             /\ UNCHANGED <<romOpen, gInputTimeline, gRamBlackoutBytes>>
    <3>1. command.frame \in Nat
      BY <1>2, <2>4 DEF Commands
    <3> DEFINE message == FrameMsg(command.frame, PlayedInto(command.frame))
               filled == Filled(command.frame)
    <3>2. message \in Messages /\ filled \in Seq(Inputs)
      BY <3>1, FrameMsgTyped, FilledTyped DEF SessionInv
    <3> HIDE DEF message, filled
    <3>3. Append(toPage, message) \in Seq(Messages)
      BY <3>2, AppendProperties DEF SessionInv, ConnInv
    <3> QED BY <1>1, <2>4, <3>2, <3>3 DEF SessionInv, ServerInv, ConnInv, message, filled
  <2>5. CASE UNCHANGED <<romOpen, tapeVars, gRamBlackoutBytes, toPage>>
    BY <1>1, <2>5 DEF SessionInv, ServerInv, ConnInv, tapeVars
  <2> QED BY <2>1, <2>2, <2>3, <2>4, <2>5 DEF Handle
<1>5. ConnInv'
  BY <1>1, <1>3, <1>4 DEF SessionInv, ConnInv
<1>6. MovieInv' /\ FlagInv'
  BY <1>1 DEF SessionInv, MovieInv, FlagInv, pageVars, movieVars, flagVars
<1> QED BY <1>4, <1>5, <1>6 DEF SessionInv

LEMMA RestartKeeps ==
  ASSUME SessionInv, Restart
  PROVE  SessionInv'
<1>1. /\ romOpen' = FALSE /\ gInputTimeline' = <<>> /\ gEmuStateTimeline' = <<>>
      /\ gRamBlackoutBytes' = NoBlackout /\ gConn' = 0 /\ waiting' = {} /\ served' = {} /\ opened' = FALSE
      /\ toServer' = [d \in 1..Connections |-> <<>>]
      /\ UNCHANGED <<current, pageVars>>
  BY DEF Restart
<1>2. <<>> \in Seq(Inputs) /\ <<>> \in Seq(Commands)
  BY EmptySeq
<1>3. PICK n \in 0..Len(toPage) : toPage' = SubSeq(toPage, 1, n)
  BY DEF Restart, Received
<1>4. toPage' \in Seq(Messages)
  BY <1>3, PrefixTyped DEF SessionInv, ConnInv
<1>5. toServer' \in [1..Connections -> Seq(Commands)]
  BY <1>1, <1>2
<1>6. ConnInv'
  BY <1>1, <1>4, <1>5 DEF SessionInv, ConnInv
<1>7. ServerInv'
  <2>1. 0 \in 0..Connections
    BY SessionAssumption
  <2> QED BY <1>1, <1>2, <2>1, SessionAssumption DEF ServerInv
<1>8. MovieInv' /\ FlagInv'
  BY <1>1 DEF SessionInv, MovieInv, FlagInv, pageVars, movieVars, flagVars
<1> QED BY <1>6, <1>7, <1>8 DEF SessionInv

LEMMA NextHolds ==
  ASSUME SessionInv, [Next]_vars
  PROVE  SessionInv'
<1>1. ASSUME NEW f \in Frames, GoTo(f)
      PROVE  SessionInv'
  <2>1. /\ FrameChanged(FrameInputBytes, FrameCount, f)
        /\ UNCHANGED <<serverVars, connVars, flagVars, RamBlackoutBytes, shown>>
    BY <1>1 DEF GoTo
  <2>2. f \in Nat
    BY SessionAssumption
  <2>3. MovieInv'
    BY <2>1, <2>2, FrameChangedKeeps DEF SessionInv, MovieInv
  <2>4. FlagInv' /\ ServerInv' /\ ConnInv'
    BY <2>1 DEF SessionInv, FlagInv, ServerInv, ConnInv, serverVars, tapeVars, connVars, flagVars
  <2> QED BY <2>3, <2>4 DEF SessionInv
<1>2. CASE SetFrameCount
  <2>1. /\ FrameCountChanged(FrameInputBytes, 0)
        /\ UNCHANGED <<serverVars, connVars, flagVars, RamBlackoutBytes, shown>>
    BY <1>2 DEF SetFrameCount
  <2>2. MovieInv'
    BY <2>1, FrameCountChangedKeeps DEF SessionInv, MovieInv, Displayed
  <2>3. FlagInv' /\ ServerInv' /\ ConnInv'
    BY <2>1 DEF SessionInv, FlagInv, ServerInv, ConnInv, serverVars, tapeVars, connVars, flagVars
  <2> QED BY <2>2, <2>3 DEF SessionInv
<1>3. ASSUME NEW b \in Blackouts, SetBlackout(b)
      PROVE  SessionInv'
  <2>1. /\ TakeBlackout(b)
        /\ UNCHANGED <<serverVars, connVars, FrameInputBytesChanged, shown>>
    BY <1>3 DEF SetBlackout
  <2>2. MovieInv' /\ RamBlackoutBytes' \in Blackouts /\ RamBlackoutBytesChanged' \in BOOLEAN
    BY <2>1, TakeBlackoutKeeps DEF SessionInv
  <2>3. FlagInv' /\ ServerInv' /\ ConnInv'
    BY <2>1, <2>2 DEF SessionInv, FlagInv, ServerInv, ConnInv, serverVars, tapeVars, connVars
  <2> QED BY <2>2, <2>3 DEF SessionInv
<1>4. CASE UNCHANGED vars
  BY <1>4 DEF SessionInv, MovieInv, FlagInv, ServerInv, ConnInv, vars, serverVars, tapeVars, connVars,
              pageVars, movieVars, flagVars
<1>5. CASE User
  BY <1>1, <1>2, <1>3, <1>5, SetFrameInputKeeps, LoadFm2Keeps, ChooseRomKeeps, ReloadKeeps
  DEF User
<1> QED BY <1>4, <1>5, SendFrameCommandsKeeps, TakeMessageKeeps, OpenSocketKeeps,
           CloseKeeps, ReadyKeeps, HandleKeeps, RestartKeeps DEF Next

\* The invariant, of every behaviour of the specification.
THEOREM SessionInvariant == Spec => []SessionInv
<1>1. Init => SessionInv
  BY InitHolds
<1>2. SessionInv /\ [Next]_vars => SessionInv'
  BY NextHolds
<1> QED BY <1>1, <1>2, PTL DEF Spec

\* Page, server and connections keep their types.
THEOREM SessionTypeCorrect == Spec => []TypeOK
<1>1. SessionInv => TypeOK
  BY DEF SessionInv, MovieInv, FlagInv, ServerInv, ConnInv, Displayed, TypeOK
<1> QED BY <1>1, SessionInvariant, PTL

\* What the page sends behind the end of the movie it displays presses
\* nothing (setFrameInput, frameChanged, frameCountChanged).
THEOREM SendsWhatItDisplays == Spec => []NothingBehindTheEnd
<1>1. SessionInv => NothingBehindTheEnd
  BY DEF SessionInv, MovieInv, Displayed, NothingBehindTheEnd
<1> QED BY <1>1, SessionInvariant, PTL

-----------------------------------------------------------------------------
(* Page and server agree. *)

\* None of sequence s is in S; and x is the last of s that is.
None(s, S) == \A k \in DOMAIN s : s[k] \notin S
Last(s, S, x) ==
  /\ x \in S
  /\ \E k \in DOMAIN s : s[k] = x /\ \A j \in DOMAIN s : j > k => s[j] \notin S

LEMMA NoneOrLastOfTwo ==
  ASSUME NEW T, NEW s \in Seq(T), NEW t \in Seq(T), NEW S
  PROVE  /\ None(s, S) /\ None(t, S) => None(s \o t, S)
         /\ None(s \o t, S) => None(s, S) /\ None(t, S)
         /\ \A x : Last(t, S, x) => Last(s \o t, S, x)
         /\ \A x : Last(s, S, x) /\ None(t, S) => Last(s \o t, S, x)
<1>1. /\ DOMAIN s = 1..Len(s) /\ DOMAIN t = 1..Len(t)
      /\ Len(s) \in Nat /\ Len(t) \in Nat
      /\ DOMAIN (s \o t) = 1..(Len(s) + Len(t))
      /\ \A k \in 1..Len(s) : (s \o t)[k] = s[k]
      /\ \A k \in 1..Len(t) : (s \o t)[Len(s) + k] = t[k]
  <2>1. Len(s) \in Nat /\ Len(t) \in Nat /\ DOMAIN s = 1..Len(s) /\ DOMAIN t = 1..Len(t)
    BY LenProperties
  <2>2. /\ s \o t \in Seq(T) /\ Len(s \o t) = Len(s) + Len(t)
        /\ \A i \in 1 .. Len(s) + Len(t) : (s \o t)[i] =
             IF i <= Len(s) THEN s[i] ELSE t[i - Len(s)]
    BY ConcatProperties
  <2>3. DOMAIN (s \o t) = 1..(Len(s) + Len(t))
    BY <2>2, LenProperties
  <2>4. \A k \in 1..Len(s) : (s \o t)[k] = s[k]
    BY <2>1, <2>2
  <2>5. \A k \in 1..Len(t) : (s \o t)[Len(s) + k] = t[k]
    BY <2>1, <2>2
  <2> QED BY <2>1, <2>3, <2>4, <2>5
<1> DEFINE u == s \o t
<1> HIDE DEF u
<1>2. /\ DOMAIN u = 1..(Len(s) + Len(t))
      /\ \A k \in 1..Len(s) : u[k] = s[k]
      /\ \A k \in 1..Len(t) : u[Len(s) + k] = t[k]
  BY <1>1 DEF u
<1>3. \A k \in 1..(Len(s) + Len(t)) : k \in 1..Len(s) \/ (k - Len(s) \in 1..Len(t) /\ u[k] = t[k - Len(s)])
  <2>1. ASSUME NEW k \in 1..(Len(s) + Len(t)), k \notin 1..Len(s)
        PROVE  k - Len(s) \in 1..Len(t) /\ u[k] = t[k - Len(s)]
    <3>1. k - Len(s) \in 1..Len(t) /\ Len(s) + (k - Len(s)) = k
      BY <1>1, <2>1
    <3> QED BY <1>2, <3>1
  <2> QED BY <2>1
<1>4. None(s, S) /\ None(t, S) => None(u, S)
  BY <1>1, <1>2, <1>3 DEF None
<1>5. None(u, S) => None(s, S) /\ None(t, S)
  <2>1. \A k \in 1..Len(s) : k \in DOMAIN u
    BY <1>1, <1>2
  <2>2. \A k \in 1..Len(t) : Len(s) + k \in DOMAIN u
    BY <1>1, <1>2
  <2> QED BY <1>1, <1>2, <2>1, <2>2 DEF None
<1>6. ASSUME NEW x, Last(t, S, x)
      PROVE  Last(u, S, x)
  <2>1. PICK k \in 1..Len(t) : t[k] = x /\ \A j \in 1..Len(t) : j > k => t[j] \notin S
    BY <1>1, <1>6 DEF Last
  <2>2. Len(s) + k \in DOMAIN u /\ u[Len(s) + k] = x
    BY <1>1, <1>2, <2>1
  <2>3. \A j \in DOMAIN u : j > Len(s) + k => u[j] \notin S
    BY <1>1, <1>2, <1>3, <2>1
  <2> QED BY <1>6, <2>2, <2>3 DEF Last
<1>7. ASSUME NEW x, Last(s, S, x), None(t, S)
      PROVE  Last(u, S, x)
  <2>1. PICK k \in 1..Len(s) : s[k] = x /\ \A j \in 1..Len(s) : j > k => s[j] \notin S
    BY <1>1, <1>7 DEF Last
  <2>2. k \in DOMAIN u /\ u[k] = x
    BY <1>1, <1>2, <2>1
  <2>3. \A j \in DOMAIN u : j > k => u[j] \notin S
    BY <1>1, <1>2, <1>3, <1>7, <2>1 DEF None
  <2> QED BY <1>7, <2>2, <2>3 DEF Last
<1> QED BY <1>4, <1>5, <1>6, <1>7 DEF u

LEMMA NoneOrLastOfTail ==
  ASSUME NEW T, NEW s \in Seq(T), s # <<>>, NEW S
  PROVE  /\ None(s, S) => None(Tail(s), S) /\ Head(s) \notin S
         /\ None(Tail(s), S) /\ Head(s) \notin S => None(s, S)
         /\ \A x : Last(s, S, x) =>
              Last(Tail(s), S, x) \/ (None(Tail(s), S) /\ Head(s) = x)
         /\ Head(s) \in S /\ None(Tail(s), S) => Last(s, S, Head(s))
<1> DEFINE t == Tail(s)
<1>1. /\ Len(s) \in Nat /\ Len(s) >= 1 /\ DOMAIN s = 1..Len(s) /\ Head(s) = s[1]
      /\ DOMAIN t = 1..(Len(s) - 1) /\ \A i \in 1..(Len(s) - 1) : t[i] = s[i + 1]
  <2>1. t \in Seq(T) /\ Len(t) = Len(s) - 1 /\ \A i \in 1..Len(t) : t[i] = s[i + 1]
    BY HeadTailProperties
  <2>2. DOMAIN t = 1..Len(t)
    BY <2>1, LenProperties
  <2>3. Len(s) \in Nat /\ Len(s) >= 1 /\ DOMAIN s = 1..Len(s)
    BY LenProperties, EmptySeq
  <2> QED BY <2>1, <2>2, <2>3
<1> HIDE DEF t
<1>2. \A k \in 1..Len(s) : k = 1 \/ (k - 1 \in 1..(Len(s) - 1) /\ t[k - 1] = s[k])
  BY <1>1
<1>3. \A i \in 1..(Len(s) - 1) : i + 1 \in 1..Len(s)
  BY <1>1
<1>4. None(s, S) => None(t, S) /\ Head(s) \notin S
  BY <1>1, <1>3 DEF None
<1>5. None(t, S) /\ Head(s) \notin S => None(s, S)
  BY <1>1, <1>2 DEF None
<1>6. ASSUME NEW x, Last(s, S, x)
      PROVE  Last(t, S, x) \/ (None(t, S) /\ Head(s) = x)
  <2>1. PICK k \in 1..Len(s) : s[k] = x /\ \A j \in 1..Len(s) : j > k => s[j] \notin S
    BY <1>1, <1>6 DEF Last
  <2>2. \A i \in 1..(Len(s) - 1) : i + 1 > k => t[i] \notin S
    BY <1>1, <1>3, <2>1
  <2>3. CASE k = 1
    BY <1>1, <2>1, <2>2, <2>3 DEF None
  <2>4. CASE k # 1
    <3>1. k - 1 \in 1..(Len(s) - 1) /\ t[k - 1] = x
      BY <1>2, <2>1, <2>4
    <3>2. \A j \in 1..(Len(s) - 1) : j > k - 1 => t[j] \notin S
      BY <2>2
    <3> QED BY <1>1, <1>6, <3>1, <3>2 DEF Last
  <2> QED BY <2>3, <2>4
<1>7. Head(s) \in S /\ None(t, S) => Last(s, S, Head(s))
  <2>1. ASSUME None(t, S), NEW j \in 1..Len(s), j > 1
        PROVE  s[j] \notin S
    <3>1. j - 1 \in 1..(Len(s) - 1) /\ t[j - 1] = s[j]
      BY <1>2, <2>1
    <3> QED BY <1>1, <2>1, <3>1 DEF None
  <2>2. 1 \in 1..Len(s)
    BY <1>1
  <2> QED BY <1>1, <2>1, <2>2 DEF Last
<1> QED BY <1>4, <1>5, <1>6, <1>7 DEF t

\* Movies that press the same buttons on every frame, played as far as it may be.
Alike(m, n) == \A f \in Nat : At(m, f) = At(n, f)

LEMMA CopyAlike ==
  ASSUME NEW m \in Seq(Inputs), NEW n \in Nat, ~Loses(m, n)
  PROVE  Alike(CopyTypedArray(m, n), m)
<1> DEFINE c == CopyTypedArray(m, n)
<1>1. Len(c) = n /\ \A k \in 1..n : c[k] = At(m, k - 1)
  BY CopyTyped
<1>2. DOMAIN m = 1..Len(m) /\ Len(m) \in Nat
  BY LenProperties
<1> HIDE DEF c
<1>3. ASSUME NEW f \in Nat
      PROVE  At(c, f) = At(m, f)
  <2>1. CASE f < n
    <3>1. f + 1 \in 1..n /\ (f + 1) - 1 = f
      BY <2>1
    <3>2. c[f + 1] = At(m, f)
      BY <1>1, <3>1
    <3> QED BY <1>1, <2>1, <3>2 DEF At
  <2>2. CASE ~(f < n)
    <3>1. At(c, f) = NoInput
      BY <1>1, <2>2 DEF At
    <3>2. f < Len(m) => f + 1 \in DOMAIN m /\ f + 1 > n
      BY <1>2, <2>2
    <3>3. f < Len(m) => m[f + 1] = NoInput
      BY <3>2 DEF Loses
    <3> QED BY <3>1, <3>3 DEF At
  <2> QED BY <2>1, <2>2
<1> QED BY <1>3 DEF Alike, c

\* frameChanged changes no press.
LEMMA FrameChangedAlike ==
  ASSUME NEW m, NEW count, NEW frame \in Nat, Displayed(m, count),
         FrameChanged(m, count, frame)
  PROVE  Alike(FrameInputBytes', m)
<1>1. CASE frame > count
  <2>1. FrameInputBytes' = CopyTypedArray(m, frame)
    BY <1>1 DEF FrameChanged
  <2>2. ~Loses(m, frame)
    <3>1. DOMAIN m = 1..Len(m) /\ Len(m) \in Nat /\ count \in 0..Len(m)
      BY LenProperties DEF Displayed
    <3> QED BY <1>1, <3>1 DEF Displayed, Loses
  <2> QED BY <2>1, <2>2, CopyAlike DEF Displayed
<1>2. CASE ~(frame > count)
  BY <1>2 DEF FrameChanged, Alike
<1> QED BY <1>1, <1>2

\* Commands and messages by what they carry.
InputsCmds == [cmd : {"setFrameInputs"}, movie : Seq(Inputs)]
BlackoutCmds == [cmd : {"setRamBlackoutBytes"}, blackout : Blackouts]
InputsMsgs == [t : {"binFrameInputs"}, movie : Seq(Inputs)]
BlackoutMsgs == [t : {"binRamBlackoutBytes"}, blackout : Blackouts]

\* The commands that are still to be handled on the page's connection.
queue == toServer[current]

\* What the server has once commands q are handled: movie m, blackout bytes b.
LandsMovie(q, m) ==
  Last(q, InputsCmds, InputsCmd(m)) \/ (None(q, InputsCmds) /\ m = gInputTimeline)
LandsBlackout(q, b) ==
  Last(q, BlackoutCmds, BlackoutCmd(b)) \/ (None(q, BlackoutCmds) /\ b = gRamBlackoutBytes)

\* The page's connection will be or was served, and nothing was sent on the
\* ones to come; what is to be sent is sent in 100 ms.
Linked ==
  /\ opened => current \in waiting \cup served
  /\ waiting \cap served = {}
  /\ \A c \in 1..Connections : c > current => toServer[c] = <<>>
  /\ (FrameInputBytesChanged \/ RamBlackoutBytesChanged) => timer

\* The server's movie is the last that is on its way to the page, or the page
\* has one to send, or the server ends up with the page's.
MovieComes ==
  None(queue, InputsCmds) /\ Last(toPage, InputsMsgs, InputsMsg(gInputTimeline))
MovieLands ==
  \E m \in Seq(Inputs) : LandsMovie(queue, m) /\ Alike(FrameInputBytes, m)
MovieAgrees ==
  \/ crossed
  \/ MovieComes
  \/ None(toPage, InputsMsgs) /\ (FrameInputBytesChanged \/ dropped \/ MovieLands)

\* The same of the blackout bytes, which the page sends back when it takes
\* others than its own.
BlackoutComes ==
  None(queue, BlackoutCmds) /\ Last(toPage, BlackoutMsgs, BlackoutMsg(gRamBlackoutBytes))
BlackoutAgrees ==
  BlackoutComes \/ RamBlackoutBytesChanged \/ LandsBlackout(queue, RamBlackoutBytes)

\* Before the copies are sent: the page's movie crosses them, its blackout
\* bytes are sent back to it or last.
MovieWaits == crossed \/ None(queue, InputsCmds)
BlackoutWaits ==
  \/ None(queue, BlackoutCmds)
  \/ RamBlackoutBytesChanged
  \/ Last(queue, BlackoutCmds, BlackoutCmd(RamBlackoutBytes))

MovieHeld ==
  opened => /\ current \in waiting => MovieWaits
            /\ current \in served /\ ~overtaken => MovieAgrees
BlackoutHeld ==
  opened => /\ current \in waiting => BlackoutWaits
            /\ current \in served /\ ~overtaken => BlackoutAgrees

AgreeInv == Linked /\ MovieHeld /\ BlackoutHeld

\* A command is one thing, and says what it says.
LEMMA CommandKinds ==
  ASSUME NEW c \in Commands
  PROVE  /\ c.cmd = "setFrameInputs" <=> c \in InputsCmds
         /\ c.cmd = "setRamBlackoutBytes" <=> c \in BlackoutCmds
         /\ \A m : c = InputsCmd(m) => c.cmd = "setFrameInputs" /\ c.movie = m
         /\ \A b : c = BlackoutCmd(b) => c.cmd = "setRamBlackoutBytes" /\ c.blackout = b
         /\ c \in InputsCmds => c = InputsCmd(c.movie)
         /\ c \in BlackoutCmds => c = BlackoutCmd(c.blackout)
BY DEF Commands, InputsCmds, BlackoutCmds, InputsCmd, BlackoutCmd

LEMMA CommandsMade ==
  /\ \A m \in Seq(Inputs) : InputsCmd(m) \in InputsCmds /\ InputsCmd(m) \notin BlackoutCmds
  /\ \A b \in Blackouts : BlackoutCmd(b) \in BlackoutCmds /\ BlackoutCmd(b) \notin InputsCmds
  /\ OpenRomCmd \notin InputsCmds /\ OpenRomCmd \notin BlackoutCmds
  /\ \A f : GetFrameCmd(f) \notin InputsCmds /\ GetFrameCmd(f) \notin BlackoutCmds
BY DEF InputsCmds, BlackoutCmds, InputsCmd, BlackoutCmd, OpenRomCmd, GetFrameCmd

LEMMA MessageKinds ==
  ASSUME NEW m \in Messages
  PROVE  /\ m.t = "binFrameInputs" <=> m \in InputsMsgs
         /\ m.t = "binRamBlackoutBytes" <=> m \in BlackoutMsgs
         /\ \A n : m = InputsMsg(n) => m.t = "binFrameInputs" /\ m.movie = n
         /\ \A b : m = BlackoutMsg(b) => m.t = "binRamBlackoutBytes" /\ m.blackout = b
BY DEF Messages, InputsMsgs, BlackoutMsgs, InputsMsg, BlackoutMsg

LEMMA MessagesMade ==
  /\ \A m \in Seq(Inputs) : InputsMsg(m) \in InputsMsgs /\ InputsMsg(m) \notin BlackoutMsgs
  /\ \A b \in Blackouts : BlackoutMsg(b) \in BlackoutMsgs /\ BlackoutMsg(b) \notin InputsMsgs
  /\ \A f, m : FrameMsg(f, m) \notin InputsMsgs /\ FrameMsg(f, m) \notin BlackoutMsgs
BY DEF InputsMsgs, BlackoutMsgs, InputsMsg, BlackoutMsg, FrameMsg

LEMMA AlikeTransitive ==
  ASSUME NEW a, NEW b, NEW c, Alike(a, b), Alike(b, c)
  PROVE  Alike(a, c)
BY DEF Alike

LEMMA NoneOfEmpty ==
  ASSUME NEW S
  PROVE  None(<<>>, S) /\ \A x : ~Last(<<>>, S, x)
BY DEF None, Last

LEMMA NoneOrLastOfOne ==
  ASSUME NEW x, NEW S
  PROVE  /\ x \in S => Last(<<x>>, S, x)
         /\ x \notin S => None(<<x>>, S)
<1>1. DOMAIN <<x>> = {1} /\ <<x>>[1] = x
  OBVIOUS
<1> QED BY <1>1 DEF None, Last

\* None and Last exclude each other.
LEMMA NoneNotLast ==
  ASSUME NEW s, NEW S, NEW x, None(s, S)
  PROVE  ~Last(s, S, x)
BY DEF None, Last

\* What sendFrameCommands sends.
LEMMA CommandsDueLast ==
  ASSUME MovieInv, FlagInv
  PROVE  /\ IF FrameInputBytesChanged
            THEN Last(CommandsDue, InputsCmds, InputsCmd(FrameInputBytes))
            ELSE None(CommandsDue, InputsCmds)
         /\ IF RamBlackoutBytesChanged
            THEN Last(CommandsDue, BlackoutCmds, BlackoutCmd(RamBlackoutBytes))
            ELSE None(CommandsDue, BlackoutCmds)
<1> DEFINE ic == InputsCmd(FrameInputBytes)
           bc == BlackoutCmd(RamBlackoutBytes)
           gc == GetFrameCmd(CurFrame)
           inputs == IF FrameInputBytesChanged THEN <<ic>> ELSE <<>>
           blackout == IF RamBlackoutBytesChanged THEN <<bc>> ELSE <<>>
           frame == <<gc>>
<1>1. ic \in Commands /\ bc \in Commands /\ gc \in Commands
  BY DEF Commands, InputsCmd, BlackoutCmd, GetFrameCmd, MovieInv, FlagInv, Displayed
<1>2. /\ ic \in InputsCmds /\ ic \notin BlackoutCmds
      /\ bc \in BlackoutCmds /\ bc \notin InputsCmds
      /\ gc \notin InputsCmds /\ gc \notin BlackoutCmds
  BY CommandsMade DEF MovieInv, FlagInv, Displayed
<1>3. FrameInputBytesChanged \in BOOLEAN /\ RamBlackoutBytesChanged \in BOOLEAN
  BY DEF FlagInv
<1> HIDE DEF ic, bc, gc
<1>4. inputs \in Seq(Commands) /\ blackout \in Seq(Commands) /\ frame \in Seq(Commands)
  BY <1>1, <1>3, OneOrNone
<1>5. CommandsDue = (inputs \o blackout) \o frame
  BY DEF CommandsDue, ic, bc, gc
<1>6. /\ IF FrameInputBytesChanged THEN Last(inputs, InputsCmds, ic) ELSE None(inputs, InputsCmds)
      /\ None(inputs, BlackoutCmds)
      /\ IF RamBlackoutBytesChanged THEN Last(blackout, BlackoutCmds, bc)
         ELSE None(blackout, BlackoutCmds)
      /\ None(blackout, InputsCmds)
      /\ None(frame, InputsCmds) /\ None(frame, BlackoutCmds)
  BY <1>2, <1>3, NoneOrLastOfOne, NoneOfEmpty
<1> HIDE DEF inputs, blackout, frame
<1>7. inputs \o blackout \in Seq(Commands)
  BY <1>4, ConcatProperties
<1>8. /\ IF FrameInputBytesChanged THEN Last(inputs \o blackout, InputsCmds, ic)
         ELSE None(inputs \o blackout, InputsCmds)
      /\ IF RamBlackoutBytesChanged THEN Last(inputs \o blackout, BlackoutCmds, bc)
         ELSE None(inputs \o blackout, BlackoutCmds)
  BY <1>3, <1>4, <1>6, NoneOrLastOfTwo
<1>9. /\ IF FrameInputBytesChanged THEN Last((inputs \o blackout) \o frame, InputsCmds, ic)
         ELSE None((inputs \o blackout) \o frame, InputsCmds)
      /\ IF RamBlackoutBytesChanged THEN Last((inputs \o blackout) \o frame, BlackoutCmds, bc)
         ELSE None((inputs \o blackout) \o frame, BlackoutCmds)
  BY <1>3, <1>4, <1>6, <1>7, <1>8, NoneOrLastOfTwo
<1> QED BY <1>5, <1>9 DEF ic, bc

\* A gesture that sends nothing: the page's movie is the same, or it says so,
\* or it was cut.
LEMMA GestureAgrees ==
  ASSUME SessionInv, AgreeInv, UNCHANGED <<serverVars, connVars, crossed, overtaken>>,
         (FrameInputBytesChanged' \/ RamBlackoutBytesChanged') => timer',
         FrameInputBytesChanged => FrameInputBytesChanged', dropped => dropped',
         RamBlackoutBytesChanged => RamBlackoutBytesChanged',
         FrameInputBytesChanged' \/ dropped' \/ Alike(FrameInputBytes', FrameInputBytes),
         RamBlackoutBytesChanged' \/ RamBlackoutBytes' = RamBlackoutBytes
  PROVE  AgreeInv'
<1>1. Linked'
  BY DEF AgreeInv, Linked, serverVars, tapeVars, connVars
<1>2. UNCHANGED <<opened, current, waiting, served, overtaken, crossed, toPage, toServer,
                  gInputTimeline, gRamBlackoutBytes>>
  BY DEF serverVars, tapeVars, connVars
<1>3. queue' = queue
  BY <1>2 DEF queue
<1>4. MovieLands => FrameInputBytesChanged' \/ dropped' \/ MovieLands'
  <2>1. ASSUME MovieLands, Alike(FrameInputBytes', FrameInputBytes)
        PROVE  MovieLands'
    <3>1. PICK m \in Seq(Inputs) : LandsMovie(queue, m) /\ Alike(FrameInputBytes, m)
      BY <2>1 DEF MovieLands
    <3>2. Alike(FrameInputBytes', m)
      BY <2>1, <3>1, AlikeTransitive
    <3>3. LandsMovie(queue, m)'
      BY <1>2, <1>3, <3>1 DEF LandsMovie
    <3> QED BY <3>2, <3>3 DEF MovieLands
  <2> QED BY <2>1
<1>5. MovieHeld'
  <2>1. MovieWaits => MovieWaits'
    BY <1>2, <1>3 DEF MovieWaits
  <2>2. MovieComes => MovieComes'
    BY <1>2, <1>3 DEF MovieComes
  <2>3. MovieAgrees => MovieAgrees'
    BY <1>2, <1>4, <2>2 DEF MovieAgrees
  <2> QED BY <1>2, <2>1, <2>3 DEF AgreeInv, MovieHeld
<1>6. BlackoutHeld'
  <2>1. BlackoutWaits => BlackoutWaits'
    BY <1>3 DEF BlackoutWaits
  <2>2. BlackoutComes => BlackoutComes'
    BY <1>2, <1>3 DEF BlackoutComes
  <2>3. BlackoutAgrees => BlackoutAgrees'
    BY <1>2, <1>3, <2>2 DEF BlackoutAgrees, LandsBlackout
  <2> QED BY <1>2, <2>1, <2>3 DEF AgreeInv, BlackoutHeld
<1> QED BY <1>1, <1>5, <1>6 DEF AgreeInv

\* While the page is not connected nothing needs to agree.
LEMMA ClosedAgrees ==
  ASSUME Linked', ~opened'
  PROVE  AgreeInv'
BY DEF AgreeInv, MovieHeld, BlackoutHeld

\* What is sent goes behind what was sent before on the page's connection.
LEMMA SendQueues ==
  ASSUME SessionInv, AgreeInv, NEW cmds \in Seq(Commands), Send(cmds), opened,
         UNCHANGED <<serverVars, current, opened, toPage, overtaken>>
  PROVE  /\ queue' = queue \o cmds /\ queue \in Seq(Commands)
         /\ (~FrameInputBytesChanged' /\ ~RamBlackoutBytesChanged') \/ timer' => Linked'
<1>1. current \in 1..Connections /\ toServer \in [1..Connections -> Seq(Commands)]
  BY SessionAssumption DEF SessionInv, ConnInv
<1>2. toServer' = [toServer EXCEPT ![current] = toServer[current] \o cmds]
  BY DEF Send
<1>3. queue' = queue \o cmds /\ queue \in Seq(Commands)
  BY <1>1, <1>2 DEF queue
<1>4. \A c \in 1..Connections : c > current => toServer'[c] = toServer[c]
  BY <1>1, <1>2
<1>5. (~FrameInputBytesChanged' /\ ~RamBlackoutBytesChanged') \/ timer' => Linked'
  BY <1>4 DEF AgreeInv, Linked, serverVars, tapeVars
<1> QED BY <1>3, <1>5

\* setFrameInput changes the movie and says so, or leaves every press.
LEMMA SetFrameInputAgrees ==
  ASSUME SessionInv, AgreeInv, NEW frame \in Edited, NEW input \in Inputs,
         SetFrameInput(frame, input)
  PROVE  AgreeInv'
<1> DEFINE m == IF frame < Len(FrameInputBytes) THEN FrameInputBytes
                ELSE CopyTypedArray(FrameInputBytes, frame + Padding)
           count == IF frame < FrameCount THEN FrameCount ELSE frame + 1
           changes == At(m, frame) # input
           w == [m EXCEPT ![frame + 1] = input]
<1>1. /\ FrameInputBytesChanged' = (FrameInputBytesChanged \/ changes)
      /\ IF changes \/ m # FrameInputBytes \/ count # FrameCount
         THEN FrameChanged(w, count, CurFrame)
         ELSE UNCHANGED <<movieVars, timer>>
      /\ UNCHANGED <<serverVars, connVars, RamBlackoutBytes, RamBlackoutBytesChanged,
                      historyVars>>
  BY DEF SetFrameInput
<1>2. /\ frame \in Nat /\ FrameInputBytes \in Seq(Inputs) /\ Len(FrameInputBytes) \in Nat
      /\ Padding \in Nat /\ Padding >= 1 /\ CurFrame \in Nat
      /\ Displayed(FrameInputBytes, FrameCount)
      /\ FrameInputBytesChanged \in BOOLEAN
  BY LenProperties, SessionAssumption DEF SessionInv, MovieInv, FlagInv, Displayed
<1>3. Displayed(w, count)
  BY <1>2, WrittenInput
<1>4. m \in Seq(Inputs) /\ frame < Len(m) /\ Alike(m, FrameInputBytes)
  <2>1. CASE frame < Len(FrameInputBytes)
    BY <1>2, <2>1 DEF Alike
  <2>2. CASE ~(frame < Len(FrameInputBytes))
    <3>1. frame + Padding \in Nat /\ frame < frame + Padding
          /\ Len(FrameInputBytes) <= frame + Padding
      BY <1>2, <2>2
    <3>2. ~Loses(FrameInputBytes, frame + Padding)
      <4>1. DOMAIN FrameInputBytes = 1..Len(FrameInputBytes)
        BY <1>2, LenProperties
      <4> QED BY <1>2, <3>1, <4>1 DEF Loses
    <3> QED BY <1>2, <2>2, <3>1, <3>2, CopyTyped, CopyAlike
  <2> QED BY <2>1, <2>2
<1> HIDE DEF m
<1>5. ~changes => Alike(w, m)
  <2>1. frame + 1 \in 1..Len(m) /\ Len(m) \in Nat
    BY <1>2, <1>4, LenProperties
  <2>2. /\ Len(w) = Len(m)
        /\ \A k \in 1..Len(m) : w[k] = IF k = frame + 1 THEN input ELSE m[k]
    BY <1>4, <2>1, ExceptSeq
  <2> HIDE DEF w
  <2>3. ASSUME ~changes, NEW f \in Nat
        PROVE  At(w, f) = At(m, f)
    <3>1. CASE f < Len(m)
      <4>1. f + 1 \in 1..Len(m)
        BY <2>1, <3>1
      <4>2. m[frame + 1] = input
        BY <1>4, <2>3 DEF At
      <4>3. w[f + 1] = m[f + 1]
        BY <2>2, <4>1, <4>2
      <4> QED BY <2>2, <3>1, <4>3 DEF At
    <3>2. CASE ~(f < Len(m))
      BY <2>2, <3>2 DEF At
    <3> QED BY <3>1, <3>2
  <2> QED BY <2>3 DEF Alike
<1> HIDE DEF w, count
<1>6. changes \in BOOLEAN
  OBVIOUS
<1>7. CASE changes \/ m # FrameInputBytes \/ count # FrameCount
  <2>1. FrameChanged(w, count, CurFrame)
    BY <1>1, <1>7
  <2>2. Alike(FrameInputBytes', w)
    BY <1>2, <1>3, <2>1, FrameChangedAlike
  <2>3. ~changes => Alike(FrameInputBytes', FrameInputBytes)
    BY <1>4, <1>5, <2>2, AlikeTransitive
  <2>4. timer' = TRUE
    BY <2>1 DEF FrameChanged
  <2> HIDE DEF changes
  <2>5. FrameInputBytesChanged' \/ Alike(FrameInputBytes', FrameInputBytes)
    BY <1>1, <2>3
  <2>6. UNCHANGED <<serverVars, connVars, crossed, overtaken, dropped, RamBlackoutBytes,
                    RamBlackoutBytesChanged>>
    BY <1>1 DEF historyVars
  <2>7. FrameInputBytesChanged => FrameInputBytesChanged'
    BY <1>1
  <2> QED BY <2>4, <2>5, <2>6, <2>7, GestureAgrees
<1>8. CASE ~(changes \/ m # FrameInputBytes \/ count # FrameCount)
  <2>1. UNCHANGED <<FrameInputBytes, timer>>
    BY <1>1, <1>8 DEF movieVars
  <2>2. Alike(FrameInputBytes', FrameInputBytes)
    BY <2>1 DEF Alike
  <2>3. FrameInputBytesChanged' = FrameInputBytesChanged
    BY <1>1, <1>2, <1>8
  <2>4. UNCHANGED <<serverVars, connVars, crossed, overtaken, dropped, RamBlackoutBytes,
                    RamBlackoutBytesChanged>>
    BY <1>1 DEF historyVars
  <2>5. (FrameInputBytesChanged' \/ RamBlackoutBytesChanged') => timer'
    BY <2>1, <2>3, <2>4 DEF AgreeInv, Linked
  <2> QED BY <2>2, <2>3, <2>4, <2>5, GestureAgrees
<1> QED BY <1>7, <1>8

\* A file that is loaded is sent, and one without frames cuts the movie.
LEMMA LoadFm2Agrees ==
  ASSUME SessionInv, AgreeInv, NEW movie \in Movies, LoadFm2(movie)
  PROVE  AgreeInv'
<1> DEFINE count == AtLeastOne(Len(movie))
           m == CopyTypedArray(FrameInputBytes, count)
           loaded == [k \in 1..count |-> IF k <= Len(movie) THEN movie[k] ELSE m[k]]
<1>1. /\ FrameChanged(loaded, count, CurFrame)
      /\ FrameInputBytesChanged' = (FrameInputBytesChanged \/ movie # <<>>)
      /\ dropped' = (dropped \/ Loses(FrameInputBytes, count))
      /\ UNCHANGED <<serverVars, connVars, RamBlackoutBytes, RamBlackoutBytesChanged,
                      crossed, overtaken>>
  BY DEF LoadFm2
<1>2. timer' = TRUE
  BY <1>1 DEF FrameChanged
<1>3. FrameInputBytesChanged' \/ dropped' \/ Alike(FrameInputBytes', FrameInputBytes)
  <2>1. ASSUME movie = <<>>, ~Loses(FrameInputBytes, count)
        PROVE  Alike(FrameInputBytes', FrameInputBytes)
    <3>1. count = 1
      BY <2>1 DEF AtLeastOne
    <3>2. FrameInputBytes \in Seq(Inputs) /\ CurFrame \in Nat
      BY DEF SessionInv, MovieInv, Displayed
    <3>3. m \in Seq(Inputs) /\ DOMAIN m = 1..1 /\ Displayed(m, 1)
      BY <3>1, <3>2, CopyTyped
    <3>4. Alike(m, FrameInputBytes)
      BY <2>1, <3>1, <3>2, CopyAlike
    <3>5. \A k \in 1..1 : ~(k <= Len(movie))
      BY <2>1
    <3> HIDE DEF m
    <3>6. loaded = [k \in 1..1 |-> m[k]]
      BY <3>1, <3>5
    <3>7. loaded = m
      BY <3>3, <3>6
    <3>8. FrameChanged(m, 1, CurFrame)
      BY <1>1, <3>1, <3>7
    <3>9. Alike(FrameInputBytes', m)
      BY <3>2, <3>3, <3>8, FrameChangedAlike
    <3> QED BY <3>4, <3>9, AlikeTransitive
  <2> HIDE DEF count
  <2> QED BY <1>1, <2>1
<1> HIDE DEF count, loaded
<1> QED BY <1>1, <1>2, <1>3, GestureAgrees

LEMMA GoToAgrees ==
  ASSUME SessionInv, AgreeInv, NEW f \in Frames, GoTo(f)
  PROVE  AgreeInv'
<1>1. /\ FrameChanged(FrameInputBytes, FrameCount, f)
      /\ UNCHANGED <<serverVars, connVars, FrameInputBytesChanged, RamBlackoutBytesChanged,
                      RamBlackoutBytes, crossed, overtaken, dropped>>
  BY DEF GoTo, flagVars, historyVars
<1>2. f \in Nat /\ Displayed(FrameInputBytes, FrameCount)
  BY SessionAssumption DEF SessionInv, MovieInv
<1>3. Alike(FrameInputBytes', FrameInputBytes)
  BY <1>1, <1>2, FrameChangedAlike
<1>4. timer' = TRUE
  BY <1>1 DEF FrameChanged
<1> QED BY <1>1, <1>3, <1>4, GestureAgrees

LEMMA SetFrameCountAgrees ==
  ASSUME SessionInv, AgreeInv, SetFrameCount
  PROVE  AgreeInv'
<1>1. /\ FrameCountChanged(FrameInputBytes, 0)
      /\ dropped' = (dropped \/ Loses(FrameInputBytes, 1))
      /\ UNCHANGED <<serverVars, connVars, FrameInputBytesChanged, RamBlackoutBytesChanged,
                      RamBlackoutBytes, crossed, overtaken>>
  BY DEF SetFrameCount, flagVars
<1> DEFINE m == CopyTypedArray(FrameInputBytes, 1)
<1>2. FrameChanged(m, 1, CurFrame)
  BY <1>1 DEF FrameCountChanged, AtLeastOne
<1>3. FrameInputBytes \in Seq(Inputs) /\ CurFrame \in Nat
  BY DEF SessionInv, MovieInv, Displayed
<1>4. Displayed(m, 1)
  BY <1>3, CopyTyped
<1>5. ~Loses(FrameInputBytes, 1) => Alike(m, FrameInputBytes)
  BY <1>3, CopyAlike
<1> HIDE DEF m
<1>6. Alike(FrameInputBytes', m)
  BY <1>2, <1>3, <1>4, FrameChangedAlike
<1>7. dropped' \/ Alike(FrameInputBytes', FrameInputBytes)
  BY <1>1, <1>5, <1>6, AlikeTransitive
<1>8. timer' = TRUE
  BY <1>2 DEF FrameChanged
<1>9. dropped => dropped'
  BY <1>1
<1>10. /\ UNCHANGED <<serverVars, connVars, crossed, overtaken>>
       /\ FrameInputBytesChanged => FrameInputBytesChanged'
       /\ RamBlackoutBytesChanged => RamBlackoutBytesChanged'
       /\ RamBlackoutBytes' = RamBlackoutBytes
  BY <1>1
<1> QED BY <1>7, <1>8, <1>9, <1>10, GestureAgrees

\* Blackout bytes that are taken are the page's, or it sends them.
LEMMA TakeBlackoutAlike ==
  ASSUME SessionInv, NEW b \in Blackouts, TakeBlackout(b)
  PROVE  /\ Alike(FrameInputBytes', FrameInputBytes) /\ (timer => timer')
         /\ RamBlackoutBytesChanged => RamBlackoutBytesChanged'
         /\ RamBlackoutBytes' = b
         /\ \/ RamBlackoutBytesChanged' /\ timer'
            \/ UNCHANGED <<RamBlackoutBytes, RamBlackoutBytesChanged>>
<1>1. CASE b = RamBlackoutBytes
  BY <1>1 DEF TakeBlackout, movieVars, Alike
<1>2. CASE b # RamBlackoutBytes
  <2>1. FrameChanged(FrameInputBytes, FrameCount, CurFrame)
        /\ RamBlackoutBytes' = b /\ RamBlackoutBytesChanged' = TRUE
    BY <1>2 DEF TakeBlackout
  <2>2. Alike(FrameInputBytes', FrameInputBytes)
    BY <2>1, FrameChangedAlike DEF SessionInv, MovieInv
  <2>3. timer' = TRUE
    BY <2>1 DEF FrameChanged
  <2> QED BY <2>1, <2>2, <2>3
<1> QED BY <1>1, <1>2

LEMMA SetBlackoutAgrees ==
  ASSUME SessionInv, AgreeInv, NEW b \in Blackouts, SetBlackout(b)
  PROVE  AgreeInv'
<1>1. /\ TakeBlackout(b)
      /\ UNCHANGED <<serverVars, connVars, FrameInputBytesChanged, crossed, overtaken,
                      dropped>>
  BY DEF SetBlackout, historyVars
<1>2. /\ Alike(FrameInputBytes', FrameInputBytes) /\ (timer => timer')
      /\ RamBlackoutBytesChanged => RamBlackoutBytesChanged'
      /\ \/ RamBlackoutBytesChanged' /\ timer'
         \/ UNCHANGED <<RamBlackoutBytes, RamBlackoutBytesChanged>>
  BY <1>1, TakeBlackoutAlike
<1>3. (FrameInputBytesChanged' \/ RamBlackoutBytesChanged') => timer'
  BY <1>1, <1>2 DEF AgreeInv, Linked
<1>4. /\ UNCHANGED <<serverVars, connVars, crossed, overtaken>>
      /\ FrameInputBytesChanged => FrameInputBytesChanged'
      /\ dropped => dropped'
      /\ RamBlackoutBytesChanged' \/ RamBlackoutBytes' = RamBlackoutBytes
  BY <1>1, <1>2
<1> QED BY <1>2, <1>3, <1>4, GestureAgrees

\* Commands that carry no movie leave the movies agreeing.
LEMMA MovieStillHeld ==
  ASSUME SessionInv, AgreeInv, opened, NEW cmds \in Seq(Commands), None(cmds, InputsCmds),
         queue' = queue \o cmds, queue \in Seq(Commands),
         UNCHANGED <<serverVars, current, opened, toPage, overtaken, crossed>>,
         FrameInputBytesChanged => FrameInputBytesChanged', dropped => dropped',
         Alike(FrameInputBytes', FrameInputBytes)
  PROVE  MovieHeld'
<1>1. /\ None(queue, InputsCmds) => None(queue', InputsCmds)
      /\ \A x : Last(queue, InputsCmds, x) => Last(queue', InputsCmds, x)
  BY NoneOrLastOfTwo
<1>2. MovieWaits => MovieWaits'
  BY <1>1 DEF MovieWaits
<1>3. MovieComes => MovieComes'
  BY <1>1 DEF MovieComes, serverVars, tapeVars
<1>4. MovieLands => MovieLands'
  <2>1. ASSUME NEW m \in Seq(Inputs), LandsMovie(queue, m), Alike(FrameInputBytes, m)
        PROVE  MovieLands'
    <3>1. LandsMovie(queue, m)'
      BY <1>1, <2>1 DEF LandsMovie, serverVars, tapeVars
    <3>2. Alike(FrameInputBytes', m)
      BY <2>1, AlikeTransitive
    <3> QED BY <3>1, <3>2 DEF MovieLands
  <2> QED BY <2>1 DEF MovieLands
<1>5. MovieAgrees => MovieAgrees'
  BY <1>3, <1>4 DEF MovieAgrees
<1> QED BY <1>2, <1>5 DEF AgreeInv, MovieHeld, serverVars, tapeVars

LEMMA BlackoutStillHeld ==
  ASSUME SessionInv, AgreeInv, opened, NEW cmds \in Seq(Commands), None(cmds, BlackoutCmds),
         queue' = queue \o cmds, queue \in Seq(Commands),
         UNCHANGED <<serverVars, current, opened, toPage, overtaken, RamBlackoutBytes>>,
         RamBlackoutBytesChanged => RamBlackoutBytesChanged'
  PROVE  BlackoutHeld'
<1>1. /\ None(queue, BlackoutCmds) => None(queue', BlackoutCmds)
      /\ \A x : Last(queue, BlackoutCmds, x) => Last(queue', BlackoutCmds, x)
  BY NoneOrLastOfTwo
<1>2. BlackoutWaits => BlackoutWaits'
  BY <1>1 DEF BlackoutWaits
<1>3. BlackoutComes => BlackoutComes'
  BY <1>1 DEF BlackoutComes, serverVars, tapeVars
<1>4. BlackoutAgrees => BlackoutAgrees'
  BY <1>1, <1>3 DEF BlackoutAgrees, LandsBlackout, serverVars, tapeVars
<1> QED BY <1>2, <1>4 DEF AgreeInv, BlackoutHeld, serverVars, tapeVars

LEMMA ChooseRomAgrees ==
  ASSUME SessionInv, AgreeInv, ChooseRom
  PROVE  AgreeInv'
<1>1. /\ Send(<<OpenRomCmd>>)
      /\ FrameChanged(FrameInputBytes, FrameCount, CurFrame)
      /\ UNCHANGED <<serverVars, current, opened, toPage, FrameInputBytesChanged,
                      RamBlackoutBytesChanged, RamBlackoutBytes, crossed, overtaken, dropped>>
  BY DEF ChooseRom, flagVars, historyVars
<1>2. timer' = TRUE /\ Alike(FrameInputBytes', FrameInputBytes)
  <2>1. Alike(FrameInputBytes', FrameInputBytes)
    BY <1>1, FrameChangedAlike DEF SessionInv, MovieInv
  <2> QED BY <1>1, <2>1 DEF FrameChanged
<1>3. CASE opened
  <2> DEFINE cmds == <<OpenRomCmd>>
  <2>1. cmds \in Seq(Commands) /\ None(cmds, InputsCmds) /\ None(cmds, BlackoutCmds)
    <3>1. OpenRomCmd \in Commands
      BY DEF Commands, OpenRomCmd
    <3> QED BY <3>1, CommandsMade, NoneOrLastOfOne
  <2>2. Send(cmds)
    BY <1>1
  <2> HIDE DEF cmds
  <2>3. queue' = queue \o cmds /\ queue \in Seq(Commands) /\ Linked'
    BY <1>1, <1>2, <1>3, <2>1, <2>2, SendQueues
  <2>4. MovieHeld'
    BY <1>1, <1>2, <1>3, <2>1, <2>3, MovieStillHeld
  <2>5. BlackoutHeld'
    BY <1>1, <1>3, <2>1, <2>3, BlackoutStillHeld
  <2> QED BY <2>3, <2>4, <2>5 DEF AgreeInv
<1>4. CASE ~opened
  <2>1. toServer' = toServer
    BY <1>1, <1>4 DEF Send
  <2>2. Linked'
    BY <1>1, <1>2, <2>1 DEF AgreeInv, Linked, serverVars, tapeVars
  <2> QED BY <1>1, <1>4, <2>2, ClosedAgrees
<1> QED BY <1>3, <1>4

\* Whether a copy of the movie is still to come.
LEMMA CopyIsComingMeans ==
  ASSUME SessionInv
  PROVE  ~CopyIsComing => current \notin waiting /\ None(toPage, InputsMsgs)
<1>1. \A k \in DOMAIN toPage : toPage[k] \in Messages
  <2>1. DOMAIN toPage = 1..Len(toPage)
    BY LenProperties DEF SessionInv, ConnInv
  <2> QED BY <2>1, ElementOfSeq DEF SessionInv, ConnInv
<1>2. \A k \in DOMAIN toPage : toPage[k] \in InputsMsgs => toPage[k].t = "binFrameInputs"
  BY <1>1, MessageKinds
<1> QED BY <1>2 DEF CopyIsComing, None

LEMMA SendFrameCommandsAgrees ==
  ASSUME SessionInv, AgreeInv, SendFrameCommands
  PROVE  AgreeInv'
<1> DEFINE sent == opened /\ FrameInputBytesChanged
<1>1. /\ timer' = FALSE /\ FrameInputBytesChanged' = FALSE /\ RamBlackoutBytesChanged' = FALSE
      /\ Send(CommandsDue)
      /\ dropped' = (dropped /\ ~sent)
      /\ crossed' = IF sent THEN CopyIsComing ELSE crossed
      /\ UNCHANGED <<serverVars, current, opened, toPage, FrameInputBytes, RamBlackoutBytes,
                      overtaken>>
  BY DEF SendFrameCommands, movieVars
<1>2. CASE ~opened
  <2>1. toServer' = toServer
    BY <1>1, <1>2 DEF Send
  <2>2. Linked'
    BY <1>1, <2>1 DEF AgreeInv, Linked, serverVars, tapeVars
  <2> QED BY <1>1, <1>2, <2>2, ClosedAgrees
<1>3. CASE opened
  <2> DEFINE cmds == CommandsDue
  <2>1. /\ cmds \in Seq(Commands)
        /\ IF FrameInputBytesChanged THEN Last(cmds, InputsCmds, InputsCmd(FrameInputBytes))
           ELSE None(cmds, InputsCmds)
        /\ IF RamBlackoutBytesChanged
           THEN Last(cmds, BlackoutCmds, BlackoutCmd(RamBlackoutBytes))
           ELSE None(cmds, BlackoutCmds)
    BY CommandsDueTyped, CommandsDueLast DEF SessionInv
  <2>2. Send(cmds)
    BY <1>1
  <2> HIDE DEF cmds
  <2>3. queue' = queue \o cmds /\ queue \in Seq(Commands) /\ Linked'
    BY <1>1, <1>3, <2>1, <2>2, SendQueues
  <2>4. FrameInputBytesChanged \in BOOLEAN /\ RamBlackoutBytesChanged \in BOOLEAN
    BY DEF SessionInv, FlagInv
  <2>5. MovieHeld'
    <3>1. CASE FrameInputBytesChanged
      <4>1. Last(queue', InputsCmds, InputsCmd(FrameInputBytes))
        BY <2>1, <2>3, <3>1, NoneOrLastOfTwo
      <4>2. crossed' = CopyIsComing
        BY <1>1, <1>3, <3>1
      <4>3. CASE CopyIsComing
        BY <4>2, <4>3 DEF MovieHeld, MovieWaits, MovieAgrees
      <4>4. CASE ~CopyIsComing
        <5>1. current' \notin waiting' /\ None(toPage', InputsMsgs)
          BY <1>1, <4>4, CopyIsComingMeans DEF serverVars, tapeVars
        <5>2. FrameInputBytes \in Seq(Inputs) /\ Alike(FrameInputBytes', FrameInputBytes)
          BY <1>1 DEF SessionInv, MovieInv, Displayed, Alike
        <5>3. MovieLands'
          BY <4>1, <5>2 DEF MovieLands, LandsMovie
        <5> QED BY <5>1, <5>3 DEF MovieHeld, MovieAgrees
      <4> QED BY <4>3, <4>4
    <3>2. CASE ~FrameInputBytesChanged
      <4>1. /\ None(cmds, InputsCmds) /\ crossed' = crossed /\ (dropped => dropped')
            /\ Alike(FrameInputBytes', FrameInputBytes)
        BY <1>1, <2>1, <3>2 DEF Alike
      <4> QED BY <1>1, <1>3, <2>1, <2>3, <3>2, <4>1, MovieStillHeld
    <3> QED BY <2>4, <3>1, <3>2
  <2>6. BlackoutHeld'
    <3>1. CASE RamBlackoutBytesChanged
      <4>1. Last(queue', BlackoutCmds, BlackoutCmd(RamBlackoutBytes'))
        BY <1>1, <2>1, <2>3, <3>1, NoneOrLastOfTwo
      <4> QED BY <4>1 DEF BlackoutHeld, BlackoutWaits, BlackoutAgrees, LandsBlackout
    <3>2. CASE ~RamBlackoutBytesChanged
      <4>1. None(cmds, BlackoutCmds)
        BY <2>1, <3>2
      <4> QED BY <1>1, <1>3, <2>1, <2>3, <3>2, <4>1, BlackoutStillHeld
    <3> QED BY <2>4, <3>1, <3>2
  <2> QED BY <2>3, <2>5, <2>6 DEF AgreeInv
<1> QED BY <1>2, <1>3

\* A message that is taken: the copy of the movie, or the copy of the
\* blackout bytes, which goes back to the server if the page had others.
LEMMA TakeMessageAgrees ==
  ASSUME SessionInv, AgreeInv, TakeMessage
  PROVE  AgreeInv'
<1> DEFINE h == Head(toPage)
           rest == Tail(toPage)
<1>1. /\ toPage # <<>> /\ toPage' = rest
      /\ UNCHANGED <<serverVars, current, opened, toServer, crossed, overtaken>>
  BY DEF TakeMessage
<1>2. toPage \in Seq(Messages) /\ h \in Messages
  BY <1>1, HeadTailProperties DEF SessionInv, ConnInv
<1>3. queue' = queue
  BY <1>1 DEF queue
<1>4. /\ None(toPage, InputsMsgs) => None(rest, InputsMsgs) /\ h \notin InputsMsgs
      /\ \A x : Last(toPage, InputsMsgs, x) =>
           Last(rest, InputsMsgs, x) \/ (None(rest, InputsMsgs) /\ h = x)
      /\ \A x : Last(toPage, BlackoutMsgs, x) =>
           Last(rest, BlackoutMsgs, x) \/ (None(rest, BlackoutMsgs) /\ h = x)
  BY <1>1, <1>2, NoneOrLastOfTail
<1>5. /\ h \in InputsMsgs <=> h.t = "binFrameInputs"
      /\ h \in BlackoutMsgs <=> h.t = "binRamBlackoutBytes"
      /\ h = InputsMsg(gInputTimeline) => h.t = "binFrameInputs" /\ h.movie = gInputTimeline
      /\ h = BlackoutMsg(gRamBlackoutBytes) =>
           h.t = "binRamBlackoutBytes" /\ h.blackout = gRamBlackoutBytes
  BY <1>2, MessageKinds
<1>6. h.t \in {"binFrameInputs", "binRamBlackoutBytes", "frame"}
  BY <1>2 DEF Messages
<1> HIDE DEF h, rest
<1>7. Linked'
  <2>1. timer => timer'
    <3>1. ASSUME NEW b, TakeBlackout(b)
          PROVE  timer => timer'
      BY <3>1 DEF TakeBlackout, FrameChanged
    <3>2. ASSUME NEW m, NEW n, FrameCountChanged(m, n)
          PROVE  timer'
      BY <3>2 DEF FrameCountChanged, FrameChanged
    <3> QED BY <3>1, <3>2 DEF TakeMessage
  <2>2. FrameInputBytesChanged' = FrameInputBytesChanged
    BY DEF TakeMessage, flagVars
  <2>3. RamBlackoutBytesChanged' => RamBlackoutBytesChanged \/ timer'
    <3>1. ASSUME NEW b, TakeBlackout(b)
          PROVE  RamBlackoutBytesChanged' => RamBlackoutBytesChanged \/ timer'
      BY <3>1 DEF TakeBlackout, FrameChanged
    <3> QED BY <3>1 DEF TakeMessage, flagVars
  <2> QED BY <1>1, <2>1, <2>2, <2>3 DEF AgreeInv, Linked, serverVars, tapeVars
<1>8. FrameInputBytesChanged' = FrameInputBytesChanged
  BY DEF TakeMessage, flagVars
<1>9. MovieHeld'
  <2>1. MovieWaits => MovieWaits'
    BY <1>1, <1>3 DEF MovieWaits
  <2>2. CASE h.t = "binFrameInputs"
    <3>1. FrameCountChanged(h.movie, Len(h.movie))
      BY <2>2 DEF TakeMessage, h
    <3>2. h.movie \in Seq(Inputs) /\ Len(h.movie) \in Nat /\ CurFrame \in Nat
      <4>1. h.movie \in Seq(Inputs)
        BY <1>2, <2>2 DEF Messages
      <4> QED BY <4>1, LenProperties DEF SessionInv, MovieInv
    <3>3. Alike(FrameInputBytes', h.movie)
      <4> DEFINE n == AtLeastOne(Len(h.movie))
                 c == CopyTypedArray(h.movie, n)
      <4>1. n \in Nat /\ n >= Len(h.movie)
        BY <3>2 DEF AtLeastOne
      <4>2. ~Loses(h.movie, n)
        <5>1. DOMAIN h.movie = 1..Len(h.movie)
          BY <3>2, LenProperties
        <5> HIDE DEF n
        <5> QED BY <3>2, <4>1, <5>1 DEF Loses
      <4>3. FrameChanged(c, n, CurFrame)
        BY <3>1 DEF FrameCountChanged
      <4> HIDE DEF n
      <4>4. Displayed(c, n) /\ Alike(c, h.movie)
        BY <3>2, <4>1, <4>2, CopyTyped, CopyAlike
      <4> HIDE DEF c
      <4>5. Alike(FrameInputBytes', c)
        BY <3>2, <4>3, <4>4, FrameChangedAlike
      <4> QED BY <4>4, <4>5, AlikeTransitive
    <3>4. MovieAgrees => MovieAgrees'
      <4>1. CASE crossed
        BY <1>1, <4>1 DEF MovieAgrees
      <4>2. CASE MovieComes
        <5>1. CASE Last(rest, InputsMsgs, InputsMsg(gInputTimeline))
          BY <1>1, <1>3, <4>2, <5>1 DEF MovieAgrees, MovieComes, serverVars, tapeVars
        <5>2. CASE None(rest, InputsMsgs) /\ h = InputsMsg(gInputTimeline)
          <6>1. PICK m \in Seq(Inputs) : m = h.movie
            BY <3>2
          <6>2. m = gInputTimeline /\ Alike(FrameInputBytes', m)
            BY <1>5, <3>3, <5>2, <6>1
          <6>3. LandsMovie(queue, m)'
            BY <1>1, <1>3, <4>2, <6>2 DEF MovieComes, LandsMovie, serverVars, tapeVars
          <6>4. MovieLands'
            BY <6>2, <6>3 DEF MovieLands
          <6> QED BY <1>1, <5>2, <6>4 DEF MovieAgrees
        <5> QED BY <1>4, <4>2, <5>1, <5>2 DEF MovieComes
      <4>3. CASE None(toPage, InputsMsgs)
        BY <1>4, <1>5, <2>2, <4>3
      <4> QED BY <4>1, <4>2, <4>3 DEF MovieAgrees
    <3> QED BY <1>1, <2>1, <3>4 DEF AgreeInv, MovieHeld, serverVars, tapeVars
  <2>3. CASE h.t # "binFrameInputs"
    <3>1. Alike(FrameInputBytes', FrameInputBytes) /\ dropped' = dropped
      <4>1. CASE h.t = "binRamBlackoutBytes"
        <5>1. TakeBlackout(h.blackout) /\ dropped' = dropped
          BY <4>1 DEF TakeMessage, h
        <5>2. h.blackout \in Blackouts
          BY <1>2, <4>1 DEF Messages
        <5> QED BY <5>1, <5>2, TakeBlackoutAlike
      <4>2. CASE h.t = "frame"
        <5>1. UNCHANGED <<movieVars, dropped>>
          BY <4>2 DEF TakeMessage, h
        <5> QED BY <5>1 DEF movieVars, Alike
      <4> QED BY <1>6, <2>3, <4>1, <4>2
    <3>2. MovieComes => MovieComes'
      <4>1. h # InputsMsg(gInputTimeline)
        BY <1>5, <2>3
      <4> QED BY <1>1, <1>3, <1>4, <4>1 DEF MovieComes, serverVars, tapeVars
    <3>3. MovieLands => MovieLands'
      <4>1. ASSUME NEW m \in Seq(Inputs), LandsMovie(queue, m), Alike(FrameInputBytes, m)
            PROVE  MovieLands'
        <5>1. LandsMovie(queue, m)'
          BY <1>1, <1>3, <4>1 DEF LandsMovie, serverVars, tapeVars
        <5>2. Alike(FrameInputBytes', m)
          BY <3>1, <4>1, AlikeTransitive
        <5> QED BY <5>1, <5>2 DEF MovieLands
      <4> QED BY <4>1 DEF MovieLands
    <3>4. MovieAgrees => MovieAgrees'
      BY <1>1, <1>4, <1>8, <3>1, <3>2, <3>3 DEF MovieAgrees
    <3> QED BY <1>1, <2>1, <3>4 DEF AgreeInv, MovieHeld, serverVars, tapeVars
  <2> QED BY <2>2, <2>3
<1>10. BlackoutHeld'
  <2>1. CASE h.t = "binRamBlackoutBytes"
    <3>1. TakeBlackout(h.blackout) /\ h.blackout \in Blackouts
      <4>1. h.blackout \in Blackouts
        BY <1>2, <2>1 DEF Messages
      <4>2. TakeBlackout(h.blackout)
        BY <2>1 DEF TakeMessage, h
      <4> QED BY <4>1, <4>2
    <3>2. /\ RamBlackoutBytesChanged => RamBlackoutBytesChanged'
          /\ RamBlackoutBytes' = h.blackout
          /\ RamBlackoutBytesChanged' \/ RamBlackoutBytes' = RamBlackoutBytes
      BY <3>1, TakeBlackoutAlike
    <3>3. BlackoutWaits => BlackoutWaits'
      BY <1>3, <3>2 DEF BlackoutWaits
    <3>4. BlackoutAgrees => BlackoutAgrees'
      <4>1. CASE BlackoutComes
        <5>1. CASE Last(rest, BlackoutMsgs, BlackoutMsg(gRamBlackoutBytes))
          BY <1>1, <1>3, <4>1, <5>1 DEF BlackoutAgrees, BlackoutComes, serverVars, tapeVars
        <5>2. CASE None(rest, BlackoutMsgs) /\ h = BlackoutMsg(gRamBlackoutBytes)
          <6>1. RamBlackoutBytes' = gRamBlackoutBytes'
            BY <1>1, <1>5, <3>2, <5>2 DEF serverVars, tapeVars
          <6> QED BY <1>3, <4>1, <6>1 DEF BlackoutAgrees, BlackoutComes, LandsBlackout
        <5> QED BY <1>4, <4>1, <5>1, <5>2 DEF BlackoutComes
      <4>2. CASE RamBlackoutBytesChanged
        BY <3>2, <4>2 DEF BlackoutAgrees
      <4>3. CASE LandsBlackout(queue, RamBlackoutBytes)
        BY <1>1, <1>3, <3>2, <4>3 DEF BlackoutAgrees, LandsBlackout, serverVars, tapeVars
      <4> QED BY <4>1, <4>2, <4>3 DEF BlackoutAgrees
    <3> QED BY <1>1, <3>3, <3>4 DEF AgreeInv, BlackoutHeld, serverVars, tapeVars
  <2>2. CASE h.t # "binRamBlackoutBytes"
    <3>1. UNCHANGED <<RamBlackoutBytes, RamBlackoutBytesChanged>>
      BY <2>2 DEF TakeMessage, h, flagVars
    <3>2. BlackoutWaits => BlackoutWaits'
      BY <1>3, <3>1 DEF BlackoutWaits
    <3>3. BlackoutComes => BlackoutComes'
      <4>1. h # BlackoutMsg(gRamBlackoutBytes)
        BY <1>5, <2>2
      <4> QED BY <1>1, <1>3, <1>4, <4>1 DEF BlackoutComes, serverVars, tapeVars
    <3>4. BlackoutAgrees => BlackoutAgrees'
      BY <1>1, <1>3, <3>1, <3>3 DEF BlackoutAgrees, LandsBlackout, serverVars, tapeVars
    <3> QED BY <1>1, <3>2, <3>4 DEF AgreeInv, BlackoutHeld, serverVars, tapeVars
  <2> QED BY <2>1, <2>2
<1> QED BY <1>7, <1>9, <1>10 DEF AgreeInv

\* Nothing was sent yet on a connection that is opened.
LEMMA OpenSocketAgrees ==
  ASSUME SessionInv, AgreeInv, OpenSocket
  PROVE  AgreeInv'
<1>1. /\ current < Connections /\ current' = current + 1 /\ opened' = TRUE
      /\ waiting' = waiting \cup {current + 1}
      /\ UNCHANGED <<served, toServer, pageVars>>
  BY DEF OpenSocket
<1>2. /\ current \in Nat /\ current + 1 \in 1..Connections
      /\ served \subseteq 1..current
  BY <1>1, SessionAssumption DEF SessionInv, ConnInv
<1>3. current + 1 \notin served
  BY <1>2
<1>4. queue' = <<>>
  BY <1>1, <1>2 DEF AgreeInv, Linked, queue
<1>5. Linked'
  <2>1. \A c \in 1..Connections : c > current' => toServer'[c] = <<>>
    BY <1>1, <1>2 DEF AgreeInv, Linked
  <2>2. current' \in waiting' /\ waiting' \cap served' = {}
    BY <1>1, <1>3 DEF AgreeInv, Linked
  <2> QED BY <1>1, <2>1, <2>2 DEF AgreeInv, Linked, pageVars, flagVars
<1>6. None(queue', InputsCmds) /\ None(queue', BlackoutCmds)
  BY <1>4, NoneOfEmpty
<1>7. current' \notin served'
  BY <1>1, <1>3
<1> QED BY <1>5, <1>6, <1>7 DEF AgreeInv, MovieHeld, BlackoutHeld, MovieWaits, BlackoutWaits

\* Losing the connection, the page or the server leaves nothing to agree on.
LEMMA CloseAgrees ==
  ASSUME SessionInv, AgreeInv, Close
  PROVE  AgreeInv'
<1>1. /\ opened' = FALSE
      /\ UNCHANGED <<waiting, served, current, FrameInputBytesChanged,
                      RamBlackoutBytesChanged, timer>>
  BY DEF Close, serverVars, tapeVars, pageVars, flagVars
<1>2. PICK n \in 0..Len(toServer[current]) :
        toServer' = [toServer EXCEPT ![current] = SubSeq(toServer[current], 1, n)]
  BY DEF Close
<1>3. \A c \in 1..Connections : c > current => toServer'[c] = toServer[c]
  BY <1>2 DEF SessionInv, ConnInv
<1>4. Linked'
  BY <1>1, <1>3 DEF AgreeInv, Linked
<1> QED BY <1>1, <1>4, ClosedAgrees

LEMMA ReloadAgrees ==
  ASSUME SessionInv, AgreeInv, Reload
  PROVE  AgreeInv'
<1>1. /\ opened' = FALSE /\ timer' = TRUE
      /\ UNCHANGED <<waiting, served, current, toServer>>
  BY DEF Reload, serverVars, tapeVars
<1>2. Linked'
  BY <1>1 DEF AgreeInv, Linked
<1> QED BY <1>1, <1>2, ClosedAgrees

LEMMA RestartAgrees ==
  ASSUME SessionInv, AgreeInv, Restart
  PROVE  AgreeInv'
<1>1. /\ opened' = FALSE /\ waiting' = {} /\ served' = {}
      /\ toServer' = [c \in 1..Connections |-> <<>>]
      /\ UNCHANGED <<FrameInputBytesChanged, RamBlackoutBytesChanged, timer>>
  BY DEF Restart, pageVars, flagVars
<1>2. Linked'
  BY <1>1 DEF AgreeInv, Linked
<1> QED BY <1>1, <1>2, ClosedAgrees

\* The copies that are sent are the server's, and go behind every message
\* that is on its way.
LEMMA ReadyAgrees ==
  ASSUME SessionInv, AgreeInv, NEW c \in 1..Connections, Ready(c)
  PROVE  AgreeInv'
<1>1. /\ c \in waiting /\ waiting' = waiting \ {c} /\ served' = served \cup {c}
      /\ overtaken' = \E d \in served : c < d
      /\ UNCHANGED <<tapeVars, gRamBlackoutBytes, current, opened, toServer,
                      FrameInputBytes, FrameInputBytesChanged, RamBlackoutBytes,
                      RamBlackoutBytesChanged, timer, dropped, crossed>>
      /\ toPage' = IF Reaches(c)
                   THEN toPage \o <<InputsMsg(gInputTimeline), BlackoutMsg(gRamBlackoutBytes)>>
                   ELSE toPage
  BY DEF Ready, pageVars, movieVars, flagVars
<1>2. c \in 1..current /\ current \in Nat /\ served \subseteq 1..current
  BY <1>1 DEF SessionInv, ConnInv
<1>3. Linked'
  BY <1>1 DEF AgreeInv, Linked
<1>4. queue' = queue
  BY <1>1 DEF queue
<1>5. CASE ~opened
  BY <1>1, <1>3, <1>5, ClosedAgrees
<1>6. CASE opened /\ c # current
  <2>1. toPage' = toPage
    BY <1>1, <1>6 DEF Reaches
  <2>2. CASE current \in served
    <3>1. overtaken' /\ current' \notin waiting'
      BY <1>1, <1>2, <1>6, <2>2 DEF AgreeInv, Linked
    <3> QED BY <1>3, <3>1 DEF AgreeInv, MovieHeld, BlackoutHeld
  <2>3. CASE current \notin served
    <3>1. current \in waiting /\ current' \notin served'
      BY <1>1, <1>6, <2>3 DEF AgreeInv, Linked
    <3>2. MovieWaits => MovieWaits'
      BY <1>1, <1>4 DEF MovieWaits
    <3>3. BlackoutWaits => BlackoutWaits'
      BY <1>1, <1>4 DEF BlackoutWaits
    <3> QED BY <1>3, <1>6, <3>1, <3>2, <3>3 DEF AgreeInv, MovieHeld, BlackoutHeld
  <2> QED BY <2>2, <2>3
<1>7. CASE opened /\ c = current
  <2> DEFINE im == InputsMsg(gInputTimeline)
             bm == BlackoutMsg(gRamBlackoutBytes)
             copies == <<im, bm>>
  <2>1. toPage' = toPage \o copies
    BY <1>1, <1>7 DEF Reaches
  <2>2. /\ im \in Messages /\ bm \in Messages
        /\ im \in InputsMsgs /\ bm \notin InputsMsgs /\ bm \in BlackoutMsgs
    <3>1. im \in Messages /\ bm \in Messages
      BY DEF SessionInv, ServerInv, InputsMsg, BlackoutMsg, Messages
    <3> QED BY <3>1, MessagesMade DEF SessionInv, ServerInv
  <2> HIDE DEF im, bm
  <2>3. /\ copies \in Seq(Messages) /\ DOMAIN copies = 1..2
        /\ copies[1] = im /\ copies[2] = bm
    BY <2>2
  <2>4. Last(copies, InputsMsgs, im)
    <3>1. 1 \in DOMAIN copies /\ \A j \in DOMAIN copies : j > 1 => copies[j] = bm
      BY <2>3
    <3> QED BY <2>2, <2>3, <3>1 DEF Last
  <2>5. Last(copies, BlackoutMsgs, bm)
    <3>1. 2 \in DOMAIN copies /\ \A j \in DOMAIN copies : ~(j > 2)
      BY <2>3
    <3> QED BY <2>2, <2>3, <3>1 DEF Last
  <2> HIDE DEF copies
  <2>6. Last(toPage', InputsMsgs, im) /\ Last(toPage', BlackoutMsgs, bm)
    BY <2>1, <2>3, <2>4, <2>5, NoneOrLastOfTwo DEF SessionInv, ConnInv
  <2>7. current' \notin waiting' /\ MovieWaits /\ BlackoutWaits
    BY <1>1, <1>7 DEF AgreeInv, MovieHeld, BlackoutHeld
  <2>8. MovieAgrees'
    BY <1>1, <1>4, <2>6, <2>7 DEF MovieAgrees, MovieComes, MovieWaits, im, tapeVars
  <2>9. BlackoutAgrees'
    BY <1>1, <1>4, <2>6, <2>7 DEF BlackoutAgrees, BlackoutComes, BlackoutWaits,
       LandsBlackout, bm, tapeVars
  <2> QED BY <1>3, <2>7, <2>8, <2>9 DEF AgreeInv, MovieHeld, BlackoutHeld
<1> QED BY <1>5, <1>6, <1>7

\* A command that is handled was the page's last or is not, and no other
\* connection's is unless it is late.
LEMMA HandleAgrees ==
  ASSUME SessionInv, AgreeInv, NEW c \in 1..Connections, Handle(c)
  PROVE  AgreeInv'
<1> DEFINE h == Head(toServer[c])
           rest == Tail(toServer[c])
<1>1. /\ c \in served /\ toServer[c] # <<>>
      /\ toServer' = [toServer EXCEPT ![c] = rest]
      /\ overtaken' = (overtaken \/ \E d \in served : c < d)
      /\ UNCHANGED <<waiting, served, current, opened, FrameInputBytes,
                      FrameInputBytesChanged, RamBlackoutBytes, RamBlackoutBytesChanged,
                      timer, dropped, crossed>>
  BY DEF Handle, pageVars, movieVars, flagVars
<1>2. /\ c \in 1..current /\ current \in Nat /\ served \subseteq 1..current
      /\ toServer \in [1..Connections -> Seq(Commands)] /\ toPage \in Seq(Messages)
  BY <1>1 DEF SessionInv, ConnInv
<1>3. toServer[c] \in Seq(Commands) /\ h \in Commands
  BY <1>1, <1>2, HeadTailProperties
<1>4. /\ h.cmd # "setFrameInputs" => gInputTimeline' = gInputTimeline
      /\ h.cmd = "setFrameInputs" => gInputTimeline' = h.movie
      /\ h.cmd # "setRamBlackoutBytes" => gRamBlackoutBytes' = gRamBlackoutBytes
      /\ h.cmd = "setRamBlackoutBytes" => gRamBlackoutBytes' = h.blackout
  BY DEF Handle, tapeVars
<1>5. \/ toPage' = toPage
      \/ \E f, m : FrameMsg(f, m) \in Messages /\ toPage' = toPage \o <<FrameMsg(f, m)>>
  <2>1. CASE toPage' = toPage
    BY <2>1
  <2>2. CASE toPage' # toPage
    <3>1. h.cmd = "getFrame" /\ toPage' = Append(toPage, FrameMsg(h.frame, PlayedInto(h.frame)))
      BY <2>2 DEF Handle
    <3>2. h.frame \in Nat
      BY <1>3, <3>1 DEF Commands
    <3> DEFINE message == FrameMsg(h.frame, PlayedInto(h.frame))
    <3>3. message \in Messages
      BY <3>2, FrameMsgTyped DEF SessionInv
    <3>4. \E f, m : message = FrameMsg(f, m)
      OBVIOUS
    <3> HIDE DEF message
    <3>5. Append(toPage, message) = toPage \o <<message>>
      BY <1>2, <3>3, AppendIsConcat
    <3> QED BY <3>1, <3>3, <3>4, <3>5 DEF message
  <2> QED BY <2>1, <2>2
<1> HIDE DEF h, rest
<1>6. /\ None(toPage, InputsMsgs) => None(toPage', InputsMsgs)
      /\ \A x : Last(toPage, InputsMsgs, x) => Last(toPage', InputsMsgs, x)
      /\ \A x : Last(toPage, BlackoutMsgs, x) => Last(toPage', BlackoutMsgs, x)
  <2>1. ASSUME NEW f, NEW m, FrameMsg(f, m) \in Messages,
               toPage' = toPage \o <<FrameMsg(f, m)>>
        PROVE  /\ None(toPage, InputsMsgs) => None(toPage', InputsMsgs)
               /\ \A x : Last(toPage, InputsMsgs, x) => Last(toPage', InputsMsgs, x)
               /\ \A x : Last(toPage, BlackoutMsgs, x) => Last(toPage', BlackoutMsgs, x)
    <3> DEFINE one == <<FrameMsg(f, m)>>
    <3>1. None(one, InputsMsgs) /\ None(one, BlackoutMsgs) /\ one \in Seq(Messages)
      BY <2>1, MessagesMade, NoneOrLastOfOne
    <3>2. toPage' = toPage \o one
      BY <2>1
    <3> HIDE DEF one
    <3> QED BY <1>2, <3>1, <3>2, NoneOrLastOfTwo
  <2> QED BY <1>5, <2>1
<1>7. Linked'
  <2>1. \A d \in 1..Connections : d > current => toServer'[d] = toServer[d]
    BY <1>1, <1>2
  <2> QED BY <1>1, <2>1 DEF AgreeInv, Linked
<1>8. CASE ~opened
  BY <1>1, <1>7, <1>8, ClosedAgrees
<1>9. CASE opened /\ c # current
  <2>1. queue' = queue
    BY <1>1, <1>2, <1>9 DEF queue
  <2>2. CASE current \in served
    <3>1. overtaken' /\ current' \notin waiting'
      <4>1. c < current
        BY <1>2, <1>9
      <4>2. \E d \in served : c < d
        BY <2>2, <4>1
      <4>3. overtaken'
        BY <1>1, <4>2
      <4>4. current \notin waiting
        BY <2>2 DEF AgreeInv, Linked
      <4> QED BY <1>1, <4>3, <4>4
    <3> QED BY <1>7, <3>1 DEF AgreeInv, MovieHeld, BlackoutHeld
  <2>3. CASE current \notin served
    <3>1. current \in waiting /\ current' \notin served'
      BY <1>1, <1>9, <2>3 DEF AgreeInv, Linked
    <3>2. MovieWaits => MovieWaits'
      BY <1>1, <2>1 DEF MovieWaits
    <3>3. BlackoutWaits => BlackoutWaits'
      BY <1>1, <2>1 DEF BlackoutWaits
    <3> QED BY <1>7, <1>9, <3>1, <3>2, <3>3 DEF AgreeInv, MovieHeld, BlackoutHeld
  <2> QED BY <2>2, <2>3
<1>10. CASE opened /\ c = current
  <2>1. queue \in Seq(Commands) /\ queue # <<>> /\ queue' = rest /\ rest = Tail(queue)
        /\ h = Head(queue)
    BY <1>1, <1>2, <1>3, <1>10 DEF queue, h, rest
  <2>2. \A S : /\ None(queue, S) => None(rest, S) /\ h \notin S
               /\ \A x : Last(queue, S, x) => Last(rest, S, x) \/ (None(rest, S) /\ h = x)
    BY <2>1, NoneOrLastOfTail
  <2>3. current' \notin waiting' /\ (overtaken => overtaken')
    BY <1>1, <1>10 DEF AgreeInv, Linked
  <2>4. None(queue, InputsCmds) => gInputTimeline' = gInputTimeline
    BY <1>3, <1>4, <2>2, CommandKinds
  <2>5. None(queue, BlackoutCmds) => gRamBlackoutBytes' = gRamBlackoutBytes
    BY <1>3, <1>4, <2>2, CommandKinds
  <2>6. ASSUME NEW m, LandsMovie(queue, m)
        PROVE  LandsMovie(queue, m)'
    <3>1. CASE Last(queue, InputsCmds, InputsCmd(m))
      <4>1. CASE Last(rest, InputsCmds, InputsCmd(m))
        BY <2>1, <4>1 DEF LandsMovie
      <4>2. CASE None(rest, InputsCmds) /\ h = InputsCmd(m)
        <5>1. gInputTimeline' = m
          BY <1>3, <1>4, <4>2, CommandKinds
        <5> QED BY <2>1, <4>2, <5>1 DEF LandsMovie
      <4> QED BY <2>2, <3>1, <4>1, <4>2
    <3>2. CASE None(queue, InputsCmds) /\ m = gInputTimeline
      BY <2>1, <2>2, <2>4, <3>2 DEF LandsMovie
    <3> QED BY <2>6, <3>1, <3>2 DEF LandsMovie
  <2>7. ASSUME LandsBlackout(queue, RamBlackoutBytes)
        PROVE  LandsBlackout(queue, RamBlackoutBytes)'
    <3>1. CASE Last(queue, BlackoutCmds, BlackoutCmd(RamBlackoutBytes))
      <4>1. CASE Last(rest, BlackoutCmds, BlackoutCmd(RamBlackoutBytes))
        BY <1>1, <2>1, <4>1 DEF LandsBlackout
      <4>2. CASE None(rest, BlackoutCmds) /\ h = BlackoutCmd(RamBlackoutBytes)
        <5>1. gRamBlackoutBytes' = RamBlackoutBytes
          BY <1>3, <1>4, <4>2, CommandKinds
        <5> QED BY <1>1, <2>1, <4>2, <5>1 DEF LandsBlackout
      <4> QED BY <2>2, <3>1, <4>1, <4>2
    <3>2. CASE None(queue, BlackoutCmds) /\ RamBlackoutBytes = gRamBlackoutBytes
      BY <1>1, <2>1, <2>2, <2>5, <3>2 DEF LandsBlackout
    <3> QED BY <2>7, <3>1, <3>2 DEF LandsBlackout
  <2>8. MovieComes => MovieComes'
    BY <1>6, <2>1, <2>2, <2>4 DEF MovieComes
  <2>9. MovieLands => MovieLands'
    BY <1>1, <2>6 DEF MovieLands
  <2>10. MovieAgrees => MovieAgrees'
    BY <1>1, <1>6, <2>8, <2>9 DEF MovieAgrees
  <2>11. BlackoutComes => BlackoutComes'
    BY <1>6, <2>1, <2>2, <2>5 DEF BlackoutComes
  <2>12. BlackoutAgrees => BlackoutAgrees'
    BY <1>1, <2>7, <2>11 DEF BlackoutAgrees
  <2>13. MovieHeld' /\ BlackoutHeld'
    BY <1>1, <1>10, <2>3, <2>10, <2>12 DEF AgreeInv, MovieHeld, BlackoutHeld
  <2> QED BY <1>7, <2>13 DEF AgreeInv
<1> QED BY <1>8, <1>9, <1>10

LEMMA AgreeInit ==
  ASSUME Init
  PROVE  AgreeInv
BY DEF Init, NewPage, NewServer, AgreeInv, Linked, MovieHeld, BlackoutHeld

LEMMA AgreeNext ==
  ASSUME SessionInv, AgreeInv, [Next]_vars
  PROVE  AgreeInv'
<1>1. CASE UNCHANGED vars
  BY <1>1 DEF vars, serverVars, tapeVars, connVars, pageVars, movieVars, flagVars, historyVars,
     AgreeInv, Linked, MovieHeld, BlackoutHeld, MovieWaits, BlackoutWaits, MovieAgrees,
     BlackoutAgrees, MovieComes, BlackoutComes, MovieLands, LandsMovie, LandsBlackout, queue
<1>2. CASE User
  BY <1>2, SetFrameInputAgrees, GoToAgrees, SetFrameCountAgrees, LoadFm2Agrees,
     SetBlackoutAgrees, ChooseRomAgrees, ReloadAgrees DEF User
<1> QED BY <1>1, <1>2, SendFrameCommandsAgrees, TakeMessageAgrees, OpenSocketAgrees,
           CloseAgrees, ReadyAgrees, HandleAgrees, RestartAgrees DEF Next

LEMMA AgreementInvariant == Spec => []AgreeInv
<1>1. Init => AgreeInv
  BY AgreeInit
<1>2. SessionInv /\ AgreeInv /\ [Next]_vars => AgreeInv'
  BY AgreeNext
<1> QED BY <1>1, <1>2, SessionInvariant, PTL DEF Spec

\* What is left of the invariant when nothing is on its way.
LEMMA SettledAgrees ==
  ASSUME SessionInv, AgreeInv, Settled, ~dropped, ~crossed, ~overtaken
  PROVE  Alike(FrameInputBytes, gInputTimeline) /\ RamBlackoutBytes = gRamBlackoutBytes
<1>1. /\ opened /\ ~timer /\ waiting = {} /\ toPage = <<>>
      /\ current \in 1..Connections
      /\ \A c \in 1..Connections : toServer[c] = <<>>
  BY SessionAssumption DEF Settled, SessionInv, ConnInv
<1>2. queue = <<>>
  BY <1>1 DEF queue
<1>3. current \in served /\ ~FrameInputBytesChanged /\ ~RamBlackoutBytesChanged
  BY <1>1 DEF AgreeInv, Linked
<1>4. MovieAgrees /\ BlackoutAgrees
  BY <1>1, <1>3 DEF AgreeInv, MovieHeld, BlackoutHeld
<1>5. \A S, x : ~Last(queue, S, x) /\ ~Last(toPage, S, x)
  BY <1>1, <1>2, NoneOfEmpty
<1>6. PICK m \in Seq(Inputs) : LandsMovie(queue, m) /\ Alike(FrameInputBytes, m)
  BY <1>3, <1>4, <1>5 DEF MovieAgrees, MovieComes, MovieLands
<1>7. Alike(FrameInputBytes, gInputTimeline)
  BY <1>5, <1>6 DEF LandsMovie
<1>8. RamBlackoutBytes = gRamBlackoutBytes
  BY <1>3, <1>4, <1>5 DEF BlackoutAgrees, BlackoutComes, LandsBlackout
<1> QED BY <1>7, <1>8

\* Once everything sent is handled, page and server have the same movie and
\* the same blackout bytes (sendFrameCommands, onmessage,
\* websocket_ready_handler, handleSetFrameInputs), but for the three
\* exceptions InStep names.
THEOREM PageAndServerInStep == Spec => []InStep
<1>1. SessionInv /\ AgreeInv => InStep
  <2> SUFFICES ASSUME SessionInv, AgreeInv, Settled, ~dropped, ~crossed, ~overtaken
               PROVE  /\ Same(FrameInputBytes, gInputTimeline)
                      /\ RamBlackoutBytes = gRamBlackoutBytes
    BY DEF InStep
  <2>1. Alike(FrameInputBytes, gInputTimeline) /\ RamBlackoutBytes = gRamBlackoutBytes
    BY SettledAgrees
  <2>2. Len(FrameInputBytes) + Len(gInputTimeline) \in Nat
    BY LenProperties DEF SessionInv, MovieInv, ServerInv, Displayed
  <2>3. \A f \in 0..(Len(FrameInputBytes) + Len(gInputTimeline)) : f \in Nat
    BY <2>2
  <2> QED BY <2>1, <2>3 DEF Alike, Same
<1> QED BY <1>1, AgreementInvariant, SessionInvariant, PTL

-----------------------------------------------------------------------------
(* The screen shows the frame the page stands on. *)

\* What the server plays into the frame the page stands on.
Played == PlayedInto(CurFrame)

FrameMsgs == InputsMsgs \cup [t : {"frame"}, frame : Nat, played : Seq(Inputs)]

\* The frame is on its way to the page, or on the screen.
FrameComes ==
  \/ Last(toPage, FrameMsgs, FrameMsg(CurFrame, Played))
  \/ None(toPage, FrameMsgs) /\ shown = [frame |-> CurFrame, played |-> Played]

\* The page asks for the frame it stands on behind everything else it sent.
FrameAsked == Last(queue, Commands, GetFrameCmd(CurFrame))

FrameAgrees ==
  \/ timer
  \/ ~None(toPage, InputsMsgs)
  \/ FrameAsked
  \/ None(queue, Commands) /\ (romOpen => FrameComes)

ShownInv ==
  opened /\ current \in served /\ ~overtaken => gConn = current /\ FrameAgrees

\* The states recorded inside the movie were stepped with the movie.
Faithful ==
  \A k \in 1..Len(gEmuStateTimeline) :
    k <= Len(gInputTimeline) => gEmuStateTimeline[k] = gInputTimeline[k]

LEMMA GetFrameKind ==
  ASSUME NEW f, NEW c, c = GetFrameCmd(f)
  PROVE  c.cmd = "getFrame" /\ c.frame = f
BY DEF GetFrameCmd

LEMMA FrameMsgKinds ==
  ASSUME NEW m \in Messages
  PROVE  /\ m \notin FrameMsgs <=> m.t = "binRamBlackoutBytes"
         /\ m.t = "frame" => m \in FrameMsgs
         /\ \A f, n : m = FrameMsg(f, n) => m.t = "frame" /\ m.frame = f /\ m.played = n
BY DEF Messages, FrameMsgs, InputsMsgs, FrameMsg

\* The same frame is played the same until a command changes the timeline,
\* and again after it was played.
LEMMA PlayedStays ==
  ASSUME UNCHANGED <<tapeVars, CurFrame>>
  PROVE  Played' = Played
BY DEF Played, PlayedInto, Input, At, tapeVars

LEMMA PlayedAgain ==
  ASSUME SessionInv, CurFrame' = CurFrame, gInputTimeline' = gInputTimeline,
         gEmuStateTimeline' = Filled(CurFrame)
  PROVE  Played' = Played
<1> DEFINE n == Len(Filled(CurFrame))
<1>1. CurFrame \in Nat /\ Len(gEmuStateTimeline) \in Nat
  BY LenProperties DEF SessionInv, MovieInv, ServerInv
<1>2. /\ n = IF CurFrame > Len(gEmuStateTimeline) THEN CurFrame ELSE Len(gEmuStateTimeline)
      /\ \A k \in 1..n : Filled(CurFrame)[k] = Input(k)
  BY <1>1, FilledTyped DEF SessionInv
<1>3. Len(gEmuStateTimeline') = n /\ \A k \in 1..n : gEmuStateTimeline'[k] = Input(k)
  BY <1>2
<1> HIDE DEF n
<1>4. \A k \in 1..CurFrame : k \in 1..n /\ k <= n
  BY <1>1, <1>2
<1>5. ASSUME NEW k \in 1..(CurFrame + 1)
      PROVE  (IF k <= CurFrame THEN Input(k)' ELSE At(gInputTimeline, CurFrame)')
               = IF k <= CurFrame THEN Input(k) ELSE At(gInputTimeline, CurFrame)
  <2>1. CASE k <= CurFrame
    <3>1. k \in 1..CurFrame
      BY <1>1, <2>1
    <3>2. gEmuStateTimeline'[k] = Input(k) /\ k <= Len(gEmuStateTimeline')
      BY <1>3, <1>4, <3>1
    <3>3. Input(k)' = gEmuStateTimeline'[k]
      BY <3>2 DEF Input
    <3> QED BY <2>1, <3>2, <3>3
  <2>2. CASE ~(k <= CurFrame)
    BY <2>2 DEF At
  <2> QED BY <2>1, <2>2
<1> QED BY <1>5 DEF Played, PlayedInto

LEMMA FaithfulNext ==
  ASSUME SessionInv, Faithful, [Next]_vars
  PROVE  Faithful'
<1>1. CASE UNCHANGED tapeVars
  BY <1>1 DEF Faithful, tapeVars
<1>2. CASE Restart
  <2>1. gEmuStateTimeline' = <<>> /\ gInputTimeline' = <<>>
    BY <1>2 DEF Restart
  <2> QED BY <2>1 DEF Faithful
<1>3. ASSUME NEW c \in 1..Connections, Handle(c)
      PROVE  Faithful'
  <2> DEFINE h == Head(toServer[c])
  <2>1. toServer[c] \in Seq(Commands) /\ toServer[c] # <<>>
    BY <1>3 DEF Handle, SessionInv, ConnInv
  <2>2. h \in Commands
    BY <2>1, HeadTailProperties
  <2>3. Len(gEmuStateTimeline) \in Nat /\ Len(gInputTimeline) \in Nat
    BY LenProperties DEF SessionInv, ServerInv
  <2>4. ASSUME h.cmd = "setFrameInputs", gInputTimeline' = h.movie,
               NEW n \in 0..Len(gEmuStateTimeline), Kept(h.movie, n),
               gEmuStateTimeline' = SubSeq(gEmuStateTimeline, 1, n)
        PROVE  Faithful'
    <3>1. h.movie \in Seq(Inputs)
      BY <2>2, <2>4 DEF Commands
    <3>2. Len(h.movie) \in Nat
      BY <3>1, LenProperties
    <3> HIDE DEF h
    <3>3. /\ Len(gEmuStateTimeline') = n
          /\ \A k \in 1..n : gEmuStateTimeline'[k] = gEmuStateTimeline[k]
      <4>1. \A k \in 1..n : gEmuStateTimeline[k] \in Inputs
        BY <2>3, ElementOfSeq DEF SessionInv, ServerInv
      <4> QED BY <2>3, <2>4, <4>1, SubSeqProperties
    <3>4. ASSUME NEW k \in 1..n, k <= Len(h.movie)
          PROVE  gEmuStateTimeline'[k] = h.movie[k]
      <4>1. k \in 1..Len(h.movie) /\ k <= n
        BY <3>2, <3>4
      <4>2. k <= Len(gInputTimeline) /\ gInputTimeline[k] = h.movie[k]
        BY <2>4, <4>1 DEF Kept, Unchanged
      <4>3. k \in 1..Len(gEmuStateTimeline)
        BY <2>3
      <4>4. gEmuStateTimeline[k] = gInputTimeline[k]
        BY <4>2, <4>3 DEF Faithful
      <4> QED BY <3>3, <4>2, <4>4
    <3> QED BY <2>4, <3>3, <3>4 DEF Faithful
  <2>5. CASE gEmuStateTimeline' = <<>>
    BY <2>5 DEF Faithful
  <2>6. CASE /\ h.cmd = "getFrame" /\ gEmuStateTimeline' = Filled(h.frame)
             /\ gInputTimeline' = gInputTimeline
    <3>1. h.frame \in Nat
      BY <2>2, <2>6 DEF Commands
    <3> HIDE DEF h
    <3> DEFINE n == Len(Filled(h.frame))
    <3>2. \A k \in 1..n : Filled(h.frame)[k] = Input(k)
      BY <3>1, FilledTyped DEF SessionInv
    <3>3. Len(gEmuStateTimeline') = n /\ \A k \in 1..n : gEmuStateTimeline'[k] = Input(k)
      BY <2>6, <3>2
    <3> HIDE DEF n
    <3>4. ASSUME NEW k \in 1..n, k <= Len(gInputTimeline)
          PROVE  Input(k) = gInputTimeline[k]
      <4>1. CASE k <= Len(gEmuStateTimeline)
        <5>1. k \in 1..Len(gEmuStateTimeline)
          BY <2>3, <4>1
        <5> QED BY <3>4, <4>1, <5>1 DEF Faithful, Input
      <4>2. CASE ~(k <= Len(gEmuStateTimeline))
        <5>1. k - 1 < Len(gInputTimeline) /\ (k - 1) + 1 = k
          BY <2>3, <3>4
        <5>2. At(gInputTimeline, k - 1) = gInputTimeline[k]
          BY <5>1 DEF At
        <5> QED BY <4>2, <5>2 DEF Input
      <4> QED BY <4>1, <4>2
    <3> QED BY <2>6, <3>3, <3>4 DEF Faithful
  <2>7. \/ UNCHANGED tapeVars
        \/ gEmuStateTimeline' = <<>>
        \/ /\ h.cmd = "getFrame" /\ gEmuStateTimeline' = Filled(h.frame)
           /\ gInputTimeline' = gInputTimeline
        \/ /\ h.cmd = "setFrameInputs" /\ gInputTimeline' = h.movie
           /\ \E n \in 0..Len(gEmuStateTimeline) :
                Kept(h.movie, n) /\ gEmuStateTimeline' = SubSeq(gEmuStateTimeline, 1, n)
    BY <1>3 DEF Handle
  <2> QED BY <1>1, <2>4, <2>5, <2>6, <2>7
<1>4. CASE User
  <2>1. UNCHANGED tapeVars
    BY <1>4 DEF User, SetFrameInput, GoTo, SetFrameCount, LoadFm2, SetBlackout, ChooseRom,
       Reload, serverVars
  <2> QED BY <1>1, <2>1
<1>5. CASE SendFrameCommands \/ TakeMessage \/ OpenSocket \/ Close \/ UNCHANGED vars
  <2>1. UNCHANGED tapeVars
    BY <1>5 DEF SendFrameCommands, TakeMessage, OpenSocket, Close, vars, serverVars
  <2> QED BY <1>1, <2>1
<1>6. ASSUME NEW c \in 1..Connections, Ready(c)
      PROVE  Faithful'
  BY <1>1, <1>6 DEF Ready
<1> QED BY <1>2, <1>3, <1>4, <1>5, <1>6 DEF Next

\* A gesture makes the page ask for its frame again, or changes no frame.
LEMMA GestureShown ==
  ASSUME SessionInv, AgreeInv, ShownInv,
         UNCHANGED <<serverVars, current, opened, toPage, overtaken>>,
         timer' \/ UNCHANGED <<toServer, CurFrame, shown, timer>>
  PROVE  ShownInv'
<1>1. UNCHANGED <<served, gConn, romOpen, tapeVars>>
  BY DEF serverVars
<1>2. CASE timer'
  BY <1>1, <1>2 DEF ShownInv, FrameAgrees
<1>3. CASE UNCHANGED <<toServer, CurFrame, shown, timer>>
  <2>1. queue' = queue
    BY <1>3 DEF queue
  <2>2. Played' = Played
    BY <1>1, <1>3, PlayedStays
  <2> QED BY <1>1, <1>3, <2>1, <2>2 DEF ShownInv, FrameAgrees, FrameAsked, FrameComes
<1> QED BY <1>2, <1>3

LEMMA UserShown ==
  ASSUME SessionInv, AgreeInv, ShownInv, User
  PROVE  ShownInv'
<1>1. ASSUME NEW m, NEW n, NEW f, FrameChanged(m, n, f)
      PROVE  timer'
  BY <1>1 DEF FrameChanged
<1>2. ASSUME NEW f \in Edited, NEW i \in Inputs, SetFrameInput(f, i)
      PROVE  ShownInv'
  <2>1. /\ timer' \/ UNCHANGED <<toServer, CurFrame, shown, timer>>
        /\ UNCHANGED <<serverVars, current, opened, toPage, overtaken>>
    BY <1>1, <1>2 DEF SetFrameInput, connVars, movieVars, historyVars
  <2> QED BY <2>1, GestureShown
<1>3. ASSUME NEW f \in Frames, GoTo(f)
      PROVE  ShownInv'
  <2>1. timer' /\ UNCHANGED <<serverVars, current, opened, toPage, overtaken>>
    BY <1>1, <1>3 DEF GoTo, connVars, historyVars
  <2> QED BY <2>1, GestureShown
<1>4. CASE SetFrameCount
  <2>1. timer' /\ UNCHANGED <<serverVars, current, opened, toPage, overtaken>>
    BY <1>1, <1>4 DEF SetFrameCount, FrameCountChanged, connVars
  <2> QED BY <2>1, GestureShown
<1>5. ASSUME NEW m \in Movies, LoadFm2(m)
      PROVE  ShownInv'
  <2>1. timer' /\ UNCHANGED <<serverVars, current, opened, toPage, overtaken>>
    BY <1>1, <1>5 DEF LoadFm2, connVars
  <2> QED BY <2>1, GestureShown
<1>6. ASSUME NEW b \in Blackouts, SetBlackout(b)
      PROVE  ShownInv'
  <2>1. timer' /\ UNCHANGED <<serverVars, current, opened, toPage, overtaken>>
    BY <1>1, <1>6 DEF SetBlackout, TakeBlackout, connVars, historyVars
  <2> QED BY <2>1, GestureShown
<1>7. CASE ChooseRom
  <2>1. timer' /\ UNCHANGED <<serverVars, current, opened, toPage, overtaken>>
    BY <1>1, <1>7 DEF ChooseRom, historyVars
  <2> QED BY <2>1, GestureShown
<1>8. CASE Reload
  BY <1>8 DEF Reload, ShownInv
<1> QED BY <1>2, <1>3, <1>4, <1>5, <1>6, <1>7, <1>8 DEF User

LEMMA SendFrameCommandsShown ==
  ASSUME SessionInv, AgreeInv, ShownInv, SendFrameCommands
  PROVE  ShownInv'
<1>1. /\ Send(CommandsDue)
      /\ UNCHANGED <<serverVars, current, opened, toPage, overtaken, CurFrame>>
  BY DEF SendFrameCommands, movieVars
<1>2. CASE ~opened
  BY <1>1, <1>2 DEF ShownInv
<1>3. CASE opened
  <2> DEFINE cmds == CommandsDue
             gc == GetFrameCmd(CurFrame)
             one == <<gc>>
             ic == InputsCmd(FrameInputBytes)
             bc == BlackoutCmd(RamBlackoutBytes)
             inputs == IF FrameInputBytesChanged THEN <<ic>> ELSE <<>>
             blackout == IF RamBlackoutBytesChanged THEN <<bc>> ELSE <<>>
             before == inputs \o blackout
  <2>1. cmds \in Seq(Commands) /\ cmds = before \o one
    BY CommandsDueTyped DEF CommandsDue, SessionInv
  <2>2. gc \in Commands /\ ic \in Commands /\ bc \in Commands
    BY DEF Commands, InputsCmd, BlackoutCmd, GetFrameCmd, SessionInv, MovieInv,
           FlagInv, Displayed
  <2>3. FrameInputBytesChanged \in BOOLEAN /\ RamBlackoutBytesChanged \in BOOLEAN
    BY DEF SessionInv, FlagInv
  <2> HIDE DEF cmds, gc, ic, bc
  <2>4. inputs \in Seq(Commands) /\ blackout \in Seq(Commands) /\ one \in Seq(Commands)
    BY <2>2, <2>3, OneOrNone
  <2>5. Last(one, Commands, gc)
    BY <2>2, NoneOrLastOfOne
  <2> HIDE DEF inputs, blackout, one
  <2>6. before \in Seq(Commands)
    BY <2>4, ConcatProperties
  <2> HIDE DEF before
  <2>7. Last(cmds, Commands, gc)
    BY <2>1, <2>4, <2>5, <2>6, NoneOrLastOfTwo
  <2>8. queue' = queue \o cmds /\ queue \in Seq(Commands)
    <3>1. Send(cmds)
      BY <1>1 DEF cmds
    <3> QED BY <1>1, <1>3, <2>1, <3>1, SendQueues
  <2>9. FrameAsked'
    <3>1. Last(queue', Commands, gc)
      BY <2>1, <2>7, <2>8, NoneOrLastOfTwo
    <3> QED BY <1>1, <3>1 DEF FrameAsked, gc
  <2>10. UNCHANGED <<gConn, served>>
    BY <1>1 DEF serverVars, tapeVars
  <2> QED BY <1>1, <1>3, <2>9, <2>10 DEF ShownInv, FrameAgrees
<1> QED BY <1>2, <1>3

LEMMA TakeMessageShown ==
  ASSUME SessionInv, AgreeInv, ShownInv, TakeMessage
  PROVE  ShownInv'
<1> DEFINE h == Head(toPage)
           rest == Tail(toPage)
<1>1. /\ toPage # <<>> /\ toPage' = rest
      /\ UNCHANGED <<serverVars, current, opened, toServer, overtaken>>
  BY DEF TakeMessage
<1>2. toPage \in Seq(Messages) /\ h \in Messages
  BY <1>1, HeadTailProperties DEF SessionInv, ConnInv
<1>3. queue' = queue /\ UNCHANGED <<served, gConn, romOpen, tapeVars>>
  BY <1>1 DEF queue, serverVars
<1>4. /\ None(rest, InputsMsgs) /\ h \notin InputsMsgs => None(toPage, InputsMsgs)
      /\ None(toPage, FrameMsgs) => None(rest, FrameMsgs) /\ h \notin FrameMsgs
      /\ \A x : Last(toPage, FrameMsgs, x) =>
           Last(rest, FrameMsgs, x) \/ (None(rest, FrameMsgs) /\ h = x)
  BY <1>1, <1>2, NoneOrLastOfTail
<1>5. h.t \in {"binFrameInputs", "binRamBlackoutBytes", "frame"}
  BY <1>2 DEF Messages
<1>6. h \in InputsMsgs => h.t = "binFrameInputs"
  BY <1>2, MessageKinds
<1>7. CASE timer'
  BY <1>1, <1>3, <1>7 DEF ShownInv, FrameAgrees
<1>8. CASE ~timer'
  <2>1. h.t # "binFrameInputs"
    BY <1>8 DEF TakeMessage, FrameCountChanged, FrameChanged
  <2>2. None(rest, InputsMsgs) => None(toPage, InputsMsgs)
    BY <1>4, <1>6, <2>1
  <2>3. CASE h.t = "binRamBlackoutBytes"
    <3>1. UNCHANGED <<CurFrame, timer, shown>>
      BY <1>8, <2>3 DEF TakeMessage, TakeBlackout, FrameChanged, movieVars
    <3>2. h \notin FrameMsgs
      BY <1>2, <2>3, FrameMsgKinds
    <3>3. \A f, n : h # FrameMsg(f, n)
      BY <1>2, <2>3, FrameMsgKinds
    <3> HIDE DEF h, rest
    <3>4. FrameComes => FrameComes'
      <4>1. Played' = Played
        BY <1>3, <3>1, PlayedStays
      <4> QED BY <1>1, <1>3, <1>4, <3>1, <3>3, <4>1 DEF FrameComes
    <3> QED BY <1>1, <1>3, <2>2, <3>1, <3>4 DEF ShownInv, FrameAgrees, FrameAsked
  <2>4. CASE h.t = "frame"
    <3>1. /\ shown' = [frame |-> h.frame, played |-> h.played]
          /\ UNCHANGED <<CurFrame, timer>>
      BY <2>4 DEF TakeMessage, movieVars
    <3>2. h \in FrameMsgs
      BY <1>2, <2>4, FrameMsgKinds
    <3>3. h = FrameMsg(CurFrame, Played) => shown' = [frame |-> CurFrame, played |-> Played]
      BY <1>2, <3>1, FrameMsgKinds
    <3>5. Played' = Played
      BY <1>3, <3>1, PlayedStays
    <3> HIDE DEF h, rest
    <3>4. FrameComes => FrameComes'
      <4>1. ASSUME FrameComes
            PROVE  Last(toPage, FrameMsgs, FrameMsg(CurFrame, Played))
        BY <1>4, <3>2, <4>1 DEF FrameComes
      <4>2. CASE Last(rest, FrameMsgs, FrameMsg(CurFrame, Played))
        BY <1>1, <1>3, <3>1, <3>5, <4>2 DEF FrameComes
      <4>3. CASE None(rest, FrameMsgs) /\ h = FrameMsg(CurFrame, Played)
        BY <1>1, <1>3, <3>1, <3>3, <3>5, <4>3 DEF FrameComes
      <4> QED BY <1>4, <4>1, <4>2, <4>3
    <3> QED BY <1>1, <1>3, <2>2, <3>1, <3>4 DEF ShownInv, FrameAgrees, FrameAsked
  <2> QED BY <1>5, <2>1, <2>3, <2>4
<1> QED BY <1>7, <1>8

\* The copies make the page ask again.
LEMMA ReadyShown ==
  ASSUME SessionInv, AgreeInv, ShownInv, NEW c \in 1..Connections, Ready(c)
  PROVE  ShownInv'
<1>1. /\ c \in waiting /\ served' = served \cup {c} /\ gConn' = c
      /\ overtaken' = \E d \in served : c < d
      /\ UNCHANGED <<current, opened>>
      /\ toPage' = IF Reaches(c)
                   THEN toPage \o <<InputsMsg(gInputTimeline), BlackoutMsg(gRamBlackoutBytes)>>
                   ELSE toPage
  BY DEF Ready
<1>2. c \in 1..current /\ current \in Nat
  BY <1>1 DEF SessionInv, ConnInv
<1>3. CASE opened /\ c = current
  <2> DEFINE copies == <<InputsMsg(gInputTimeline), BlackoutMsg(gRamBlackoutBytes)>>
  <2>1. toPage' = toPage \o copies
    BY <1>1, <1>3 DEF Reaches
  <2>2. /\ InputsMsg(gInputTimeline) \in Messages
        /\ BlackoutMsg(gRamBlackoutBytes) \in Messages
        /\ InputsMsg(gInputTimeline) \in InputsMsgs
    BY DEF SessionInv, ServerInv, InputsMsg, BlackoutMsg, Messages, InputsMsgs
  <2>3. copies \in Seq(Messages) /\ 1 \in DOMAIN copies /\ copies[1] \in InputsMsgs
    BY <2>2
  <2> HIDE DEF copies
  <2>4. ~None(toPage', InputsMsgs)
    <3>1. ~None(copies, InputsMsgs)
      BY <2>3 DEF None
    <3> QED BY <2>1, <2>3, <3>1, NoneOrLastOfTwo DEF SessionInv, ConnInv
  <2> QED BY <1>1, <1>3, <2>4 DEF ShownInv, FrameAgrees
<1>4. CASE opened /\ c # current
  <2>1. CASE current \in served
    <3>1. c < current
      BY <1>2, <1>4
    <3>2. \E d \in served : c < d
      BY <2>1, <3>1
    <3> QED BY <1>1, <3>2 DEF ShownInv
  <2>2. CASE current \notin served
    BY <1>1, <1>4, <2>2 DEF ShownInv
  <2> QED BY <2>1, <2>2
<1>5. CASE ~opened
  BY <1>1, <1>5 DEF ShownInv
<1> QED BY <1>3, <1>4, <1>5

\* A frame is played with what the commands before it left.
LEMMA HandleShown ==
  ASSUME SessionInv, AgreeInv, ShownInv, NEW c \in 1..Connections, Handle(c)
  PROVE  ShownInv'
<1> DEFINE h == Head(toServer[c])
           rest == Tail(toServer[c])
<1>1. /\ c \in served /\ toServer[c] # <<>>
      /\ toServer' = [toServer EXCEPT ![c] = rest]
      /\ overtaken' = (overtaken \/ \E d \in served : c < d)
      /\ UNCHANGED <<served, current, opened, gConn, timer, CurFrame, shown>>
  BY DEF Handle, pageVars, movieVars
<1>2. /\ c \in 1..current /\ current \in Nat
      /\ toServer \in [1..Connections -> Seq(Commands)] /\ toPage \in Seq(Messages)
  BY <1>1 DEF SessionInv, ConnInv
<1>3. CASE ~opened
  BY <1>1, <1>3 DEF ShownInv
<1>4. CASE opened /\ c # current
  <2>1. CASE current \in served
    <3>1. c < current
      BY <1>2, <1>4
    <3>2. \E d \in served : c < d
      BY <2>1, <3>1
    <3> QED BY <1>1, <3>2 DEF ShownInv
  <2>2. CASE current \notin served
    BY <1>1, <2>2 DEF ShownInv
  <2> QED BY <2>1, <2>2
<1>5. CASE opened /\ c = current
  <2>1. /\ queue \in Seq(Commands) /\ queue # <<>> /\ queue' = rest /\ rest = Tail(queue)
        /\ h = Head(queue) /\ h \in Commands
    <3>1. toServer[c] \in Seq(Commands)
      BY <1>2
    <3>2. h \in Commands
      BY <1>1, <3>1, HeadTailProperties
    <3> QED BY <1>1, <1>2, <1>5, <3>1, <3>2 DEF queue
  <2>2. /\ h.cmd = "getFrame" /\ romOpen =>
             /\ UNCHANGED <<romOpen, gInputTimeline>>
             /\ gEmuStateTimeline' = Filled(h.frame)
             /\ toPage' = IF Reaches(gConn)
                          THEN Append(toPage, FrameMsg(h.frame, PlayedInto(h.frame)))
                          ELSE toPage
        /\ h.cmd = "getFrame" /\ ~romOpen => UNCHANGED <<romOpen, toPage>>
        /\ h.cmd # "getFrame" => toPage' = toPage
    BY DEF Handle
  <2>3. h.cmd = "getFrame" => FrameMsg(h.frame, PlayedInto(h.frame)) \in Messages
    <3>1. ASSUME h.cmd = "getFrame"
          PROVE  h.frame \in Nat
      BY <2>1, <3>1 DEF Commands
    <3> QED BY <3>1, FrameMsgTyped DEF SessionInv
  <2>4. /\ None(queue, Commands) => None(rest, Commands) /\ h \notin Commands
        /\ \A x : Last(queue, Commands, x) =>
             Last(rest, Commands, x) \/ (None(rest, Commands) /\ h = x)
    BY <2>1, NoneOrLastOfTail
  <2>5. h = GetFrameCmd(CurFrame) => h.cmd = "getFrame" /\ h.frame = CurFrame
    BY GetFrameKind
  <2> HIDE DEF h, rest
  <2>6. CASE overtaken \/ ~(current \in served)
    BY <1>1, <2>6 DEF ShownInv
  <2>7. CASE ~overtaken /\ current \in served
    <3>1. gConn = current /\ FrameAgrees
      BY <1>5, <2>7 DEF ShownInv
    <3>2. CASE timer
      BY <1>1, <3>1, <3>2 DEF ShownInv, FrameAgrees
    <3>3. CASE ~None(toPage, InputsMsgs)
      <4>1. ~None(toPage', InputsMsgs)
        <5>1. CASE toPage' = toPage
          BY <3>3, <5>1
        <5>2. CASE toPage' # toPage
          <6> DEFINE message == FrameMsg(h.frame, PlayedInto(h.frame))
          <6>1. toPage' = Append(toPage, message) /\ message \in Messages
            BY <2>2, <2>3, <5>2
          <6> HIDE DEF message
          <6>2. toPage' = toPage \o <<message>> /\ <<message>> \in Seq(Messages)
            BY <1>2, <6>1, AppendIsConcat
          <6> DEFINE one == <<message>>
          <6> HIDE DEF one
          <6>3. toPage' = toPage \o one /\ one \in Seq(Messages)
            BY <6>2 DEF one
          <6> QED BY <1>2, <3>3, <6>3, NoneOrLastOfTwo
        <5> QED BY <5>1, <5>2
      <4> QED BY <1>1, <3>1, <4>1 DEF ShownInv, FrameAgrees
    <3>4. CASE FrameAsked
      <4>1. CASE Last(rest, Commands, GetFrameCmd(CurFrame))
        <5>1. FrameAsked'
          BY <1>1, <2>1, <4>1 DEF FrameAsked
        <5> QED BY <1>1, <3>1, <5>1 DEF ShownInv, FrameAgrees
      <4>2. CASE None(rest, Commands) /\ h = GetFrameCmd(CurFrame)
        <5>1. /\ romOpen' = romOpen
              /\ romOpen => toPage' = Append(toPage, FrameMsg(CurFrame, Played))
              /\ FrameMsg(CurFrame, Played) \in Messages
          BY <1>5, <2>2, <2>3, <2>5, <3>1, <4>2 DEF Reaches, Played
        <5>2. romOpen => FrameComes'
          <6> DEFINE message == FrameMsg(CurFrame, Played)
                     one == <<message>>
          <6>1. message \in FrameMsgs /\ message \in Messages
            BY <5>1, FrameMsgKinds DEF FrameMsg
          <6> HIDE DEF message
          <6>2. Last(one, FrameMsgs, message) /\ one \in Seq(Messages)
            BY <6>1, NoneOrLastOfOne
          <6>3. Append(toPage, message) = toPage \o one
            BY <1>2, <6>1, AppendIsConcat
          <6> HIDE DEF one
          <6>4. Last(toPage \o one, FrameMsgs, message)
            BY <1>2, <6>2, NoneOrLastOfTwo
          <6>5. romOpen => toPage' = toPage \o one
            BY <5>1, <6>3 DEF message
          <6>6. romOpen => Played' = Played
            BY <1>1, <2>2, <2>5, <4>2, PlayedAgain
          <6>7. romOpen => message = FrameMsg(CurFrame', Played')
            BY <1>1, <6>6 DEF message
          <6> QED BY <6>4, <6>5, <6>7 DEF FrameComes
        <5> QED BY <1>1, <2>1, <3>1, <4>2, <5>1, <5>2 DEF ShownInv, FrameAgrees
      <4> QED BY <2>4, <3>4, <4>1, <4>2 DEF FrameAsked
    <3>5. CASE None(queue, Commands) /\ (romOpen => FrameComes)
      BY <2>1, <2>4, <3>5
    <3> QED BY <3>1, <3>2, <3>3, <3>4, <3>5 DEF FrameAgrees
  <2> QED BY <2>6, <2>7
<1> QED BY <1>3, <1>4, <1>5

LEMMA ShownNext ==
  ASSUME SessionInv, AgreeInv, ShownInv, [Next]_vars
  PROVE  ShownInv'
<1>1. CASE OpenSocket
  <2>1. current' = current + 1 /\ UNCHANGED served
    BY <1>1 DEF OpenSocket
  <2>2. current \in Nat /\ served \subseteq 1..current
    BY SessionAssumption DEF SessionInv, ConnInv
  <2>3. current' \notin served'
    BY <2>1, <2>2
  <2> QED BY <2>3 DEF ShownInv
<1>2. CASE Close \/ Restart
  BY <1>2 DEF Close, Restart, ShownInv
<1>3. CASE UNCHANGED vars
  <2>1. UNCHANGED <<serverVars, connVars, overtaken, CurFrame, shown, timer>>
    BY <1>3 DEF vars, pageVars, movieVars, historyVars
  <2>2. UNCHANGED <<current, opened, toServer, toPage>>
    BY <2>1 DEF connVars
  <2> QED BY <2>1, <2>2, GestureShown
<1> QED BY <1>1, <1>2, <1>3, UserShown, SendFrameCommandsShown, TakeMessageShown,
           ReadyShown, HandleShown DEF Next

\* And the screen shows the frame the page stands on, played with the inputs
\* the page displays, but for the presses left over behind the end of the
\* server's movie (cmd_getFrame, emulateToFrame, cmd_setFrameInputs, onmessage).
THEOREM ScreenIsCurrent == Spec => []ShownIsCurrent
<1>1. Spec => []AgreeInv
  BY AgreementInvariant
<1>2. Spec => []ShownInv
  <2>1. Init => ShownInv
    BY DEF Init, ShownInv
  <2>2. SessionInv /\ AgreeInv /\ ShownInv /\ [Next]_vars => ShownInv'
    BY ShownNext
  <2> QED BY <1>1, <2>1, <2>2, SessionInvariant, PTL DEF Spec
<1>3. Spec => []Faithful
  <2>1. Init => Faithful
    BY DEF Init, NewServer, Faithful
  <2>2. SessionInv /\ Faithful /\ [Next]_vars => Faithful'
    BY FaithfulNext
  <2> QED BY <2>1, <2>2, SessionInvariant, PTL DEF Spec
<1>4. SessionInv /\ AgreeInv /\ ShownInv /\ Faithful => ShownIsCurrent
  <2> SUFFICES ASSUME SessionInv, AgreeInv, ShownInv, Faithful,
                      Settled, ~dropped, ~crossed, ~overtaken, romOpen
               PROVE  /\ shown.frame = CurFrame /\ DOMAIN shown.played = 1..(CurFrame + 1)
                      /\ \A k \in 1..(CurFrame + 1) :
                           \/ shown.played[k] = At(FrameInputBytes, k - 1)
                           \/ k <= CurFrame /\ LeftOver(k)
    BY DEF ShownIsCurrent
  <2>1. /\ opened /\ ~timer /\ waiting = {} /\ toPage = <<>>
        /\ current \in 1..Connections
        /\ \A c \in 1..Connections : toServer[c] = <<>>
    BY SessionAssumption DEF Settled, SessionInv, ConnInv
  <2>2. queue = <<>> /\ current \in served
    BY <2>1 DEF queue, AgreeInv, Linked
  <2>3. Alike(FrameInputBytes, gInputTimeline)
    BY SettledAgrees
  <2>4. \A S, x : ~Last(queue, S, x) /\ ~Last(toPage, S, x) /\ None(toPage, S)
    BY <2>1, <2>2, NoneOfEmpty
  <2>5. FrameAgrees
    BY <2>1, <2>2 DEF ShownInv
  <2>6. shown = [frame |-> CurFrame, played |-> Played]
    BY <2>1, <2>4, <2>5 DEF FrameAgrees, FrameAsked, FrameComes
  <2>7. CurFrame \in Nat /\ Len(gEmuStateTimeline) \in Nat /\ Len(gInputTimeline) \in Nat
        /\ DOMAIN gEmuStateTimeline = 1..Len(gEmuStateTimeline)
    BY LenProperties DEF SessionInv, MovieInv, ServerInv
  <2>8. /\ DOMAIN Played = 1..(CurFrame + 1)
        /\ \A k \in 1..(CurFrame + 1) :
             Played[k] = IF k <= CurFrame THEN Input(k) ELSE At(gInputTimeline, CurFrame)
    BY <2>7, PlayedTyped DEF Played, SessionInv
  <2>9. ASSUME NEW k \in 1..(CurFrame + 1)
        PROVE  Played[k] = At(FrameInputBytes, k - 1) \/ (k <= CurFrame /\ LeftOver(k))
    <3>1. k - 1 \in Nat /\ At(gInputTimeline, k - 1) = At(FrameInputBytes, k - 1)
      BY <2>3, <2>7 DEF Alike
    <3>2. CASE ~(k <= CurFrame)
      <4>1. k - 1 = CurFrame
        BY <2>7, <3>2
      <4> QED BY <2>8, <3>1, <3>2, <4>1
    <3>3. CASE k <= CurFrame /\ ~(k <= Len(gEmuStateTimeline))
      BY <2>8, <3>1, <3>3 DEF Input
    <3>4. CASE k <= CurFrame /\ k <= Len(gEmuStateTimeline)
      <4>1. k \in 1..Len(gEmuStateTimeline) /\ Played[k] = gEmuStateTimeline[k]
        BY <2>7, <2>8, <3>4 DEF Input
      <4>2. CASE k <= Len(gInputTimeline)
        <5>1. k - 1 < Len(gInputTimeline) /\ (k - 1) + 1 = k
          BY <2>7, <4>2
        <5>2. At(gInputTimeline, k - 1) = gInputTimeline[k]
          BY <5>1 DEF At
        <5> QED BY <3>1, <4>1, <4>2, <5>2 DEF Faithful
      <4>3. CASE ~(k <= Len(gInputTimeline))
        <5>1. At(gInputTimeline, k - 1) = NoInput
          BY <2>7, <4>3 DEF At
        <5> QED BY <2>7, <3>1, <3>4, <4>1, <4>3, <5>1 DEF LeftOver
      <4> QED BY <4>2, <4>3
    <3> QED BY <3>2, <3>3, <3>4
  <2> QED BY <2>6, <2>8, <2>9
<1> QED BY <1>1, <1>2, <1>3, <1>4, SessionInvariant, PTL

=============================================================================
