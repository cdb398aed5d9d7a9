------------------------------ MODULE NetServer ------------------------------
(***************************************************************************)
(* The network play server of fceux (src/fceux/fceux-server/server.cpp):   *)
(* clients connect, log in to a game, and from then on the server collects *)
(* the buttons of everybody in the game and sends them to all of them, as  *)
(* it does their commands.                                                 *)
(*                                                                         *)
(* The server is one loop over its two tables, which never blocks; an      *)
(* action is what the loop does for one client or one game when something  *)
(* has arrived, and arrivals come in any order.  A message is read in      *)
(* pieces; the pieces that change nothing are left out.  What the peers of *)
(* a game run is decided by the order in which the server sends, and one   *)
(* connection keeps that order, so the model counts what it sends.         *)
(*                                                                         *)
(* A peer may be gone at any time.  A closed connection is not noticed by  *)
(* reading from it (recv returns 0, which ends the loop quietly), and what *)
(* the peer sent before is still read; sending to it fails.  No game id is *)
(* all zeros.  Nicknames and the texts about who comes and goes are left   *)
(* out, apart from the sends that fail.                                    *)
(***************************************************************************)
EXTENDS Integers, FiniteSets

CONSTANTS
  Clients,   \* the entries of the table of clients
  NoClient,
  GameSlots, \* the entries of the table of games, which is as long
  NoGame,
  Ids,       \* what identifies a game session
  NoId,
  MaxPlayers,\* the seats of a game, 4 in the code
  Inputs,    \* the buttons of one player
  NoInput    \* no button, what a new game starts with

Seats == 1..MaxPlayers

ASSUME NetServerAssumption ==
  /\ IsFiniteSet(Clients) /\ NoClient \notin Clients
  /\ GameSlots \subseteq Nat /\ IsFiniteSet(GameSlots)
  /\ Cardinality(GameSlots) = Cardinality(Clients)
  /\ NoGame \notin GameSlots
  /\ NoId \notin Ids
  /\ MaxPlayers \in Nat \ {0}
  /\ NoInput \in Inputs

VARIABLES
  clients, \* the table of clients
  games,   \* the table of games
  gone,    \* the clients whose peer is no longer there
  server,  \* "up", or what it died of
  lag,     \* history: what the game of a client sent since it came, less what it was sent
  input    \* history: what each client sent last, for its players in turn

vars == <<clients, games, gone, server, lag, input>>

-----------------------------------------------------------------------------
Free == [receive |-> "nothing", game |-> NoGame, localplayers |-> 0]

FreeGame ==
  [id |-> NoId, joybuf |-> [x \in Seats |-> NoInput],
   players |-> [x \in Seats |-> NoClient], unique |-> [x \in Seats |-> FALSE]]

SeatsOf(c, g) == {x \in Seats : games[g].players[x] = c}
PlayersOf(g) == {games[g].players[x] : x \in Seats} \ {NoClient}
GoneFrom(g) == gone \cap PlayersOf(g)
LoggingIn == {c \in Clients : clients[c].receive \in {"loginlen", "login"}}

\* Mutant: a game nobody plays any more is kept.
WithoutKeepsEmpty(game, dead) ==
  [game EXCEPT !.players =
     [x \in Seats |-> IF game.players[x] \in dead THEN NoClient ELSE game.players[x]]]

\* A game without these clients; one without players is destroyed.
Without(game, dead) ==
  LET left == [x \in Seats |-> IF game.players[x] \in dead THEN NoClient ELSE game.players[x]]
  IN IF \A x \in Seats : left[x] = NoClient THEN FreeGame
     ELSE [game EXCEPT !.players = left]

\* What these clients had sent is gone with them, and their entries are free.
Forgotten(dead) ==
  /\ input' = [c \in Clients |-> IF c \in dead THEN <<>> ELSE input[c]]
  /\ gone' = gone \ dead

\* The table of clients when these are killed: their entries are cleared.
Given(dead) == [c \in Clients |-> IF c \in dead THEN Free ELSE clients[c]]

\* Mutant: whoever is killed because telling him failed keeps his seats.
KillClientKeepsSeats(c) ==
  LET g == clients[c].game
      dead == {c} \cup IF g = NoGame THEN {} ELSE GoneFrom(g)
  IN /\ clients' = Given(dead)
     /\ games' = [h \in GameSlots |-> IF h = g THEN Without(games[h], {c}) ELSE games[h]]
     /\ lag' = [d \in Clients |-> IF d \in dead THEN 0 ELSE lag[d]]
     /\ Forgotten(dead)

\* KillClient tells the others of the game, and whoever that fails for is
\* killed in turn.
KillClient(c) ==
  LET g == clients[c].game
      dead == {c} \cup IF g = NoGame THEN {} ELSE GoneFrom(g)
  IN /\ clients' = Given(dead)
     /\ games' = [h \in GameSlots |-> IF h = g THEN Without(games[h], dead) ELSE games[h]]
     /\ lag' = [d \in Clients |-> IF d \in dead THEN 0 ELSE lag[d]]
     /\ Forgotten(dead)

-----------------------------------------------------------------------------
Init ==
  /\ clients = [c \in Clients |-> Free]
  /\ games = [g \in GameSlots |-> FreeGame]
  /\ gone = {}
  /\ server = "up"
  /\ lag = [c \in Clients |-> 0]
  /\ input = [c \in Clients |-> <<>>]

\* main: a connection is accepted into a free entry.
Accept(c) ==
  /\ server = "up" /\ clients[c].receive = "nothing"
  /\ clients' = [clients EXCEPT ![c].receive = "loginlen"]
  /\ UNCHANGED <<games, gone, server, lag, input>>

\* The peer closes the connection, or the network does.
PeerGone(c) ==
  /\ clients[c].receive # "nothing" /\ c \notin gone
  /\ gone' = gone \cup {c}
  /\ UNCHANGED <<clients, games, server, lag, input>>

\* main: a client takes too long to log in.
LoginTimeout(c) ==
  /\ server = "up" /\ c \in LoggingIn
  /\ KillClient(c)
  /\ UNCHANGED server

\* CheckNBTCPReceive throws: the connection is broken, whatever was to come,
\* or what was read is no length, password, number of players or command.
Rejected(c) ==
  /\ server = "up" /\ clients[c].receive # "nothing"
  /\ KillClient(c)
  /\ UNCHANGED server

\* CheckNBTCPReceive, NBTCP_LOGINLEN
LoginLen(c) ==
  /\ server = "up" /\ clients[c].receive = "loginlen"
  /\ clients' = [clients EXCEPT ![c].receive = "login"]
  /\ UNCHANGED <<games, gone, server, lag, input>>

\* The first of these entries of the table.
First(slots) == CHOOSE g \in slots : \A h \in slots : g <= h

\* Mutant: a free entry before the game is taken for it.
GameForFreeFirst(id) == First({g \in GameSlots : games[g].id \in {id, NoId}})

\* AddClientToGame looks for the game with this id, else for a free entry.
GameFor(id) ==
  LET same == {g \in GameSlots : games[g].id = id}
  IN IF same # {} THEN First(same) ELSE First({g \in GameSlots : games[g].id = NoId})

\* Mutant: every seat of a client counts as one of its own.
SeatedAllUnique(game, c, seats) ==
  [game EXCEPT !.players = [x \in Seats |-> IF x \in seats THEN c ELSE @[x]],
               !.unique = [x \in Seats |-> x \in seats \/ @[x]]]

\* The client takes these seats; only its first one is sent to.
Seated(game, c, seats) ==
  [game EXCEPT
     !.players = [x \in Seats |-> IF x \in seats THEN c ELSE @[x]],
     !.unique = [x \in Seats |->
                   IF x \in seats THEN \A y \in seats : x <= y ELSE @[x]]]

\* The lowest n of the free seats of a game.
FirstFree(game, n) ==
  {x \in Seats :
     /\ game.players[x] = NoClient
     /\ Cardinality({y \in 1..x : game.players[y] = NoClient}) <= n}

\* AddClientToGame asks the first player of the game for its state.  If that
\* one is gone, it is killed, and everybody who is gone with it.
AfterRequest(g) ==
  IF PlayersOf(g) = {} THEN {}
  ELSE LET first == CHOOSE x \in Seats : games[g].players[x] # NoClient
                      /\ \A y \in Seats : games[g].players[y] # NoClient => x <= y
       IN IF games[g].players[first] \in gone THEN GoneFrom(g) ELSE {}

\* CheckNBTCPReceive, NBTCP_LOGIN: the client is put into the game, if there
\* is room for its players; a game whose players all turn out to be gone is
\* made anew, in the first free entry.  Then everybody is told of everybody,
\* which kills whoever is gone; if that is not the client itself, the server
\* goes on to read the entry it removed (tg->Players[x]->nickname).
Login(c, id, n) ==
  LET g == GameFor(id)
      asked == AfterRequest(g)
      left == Without(games[g], asked)
      h == IF left.id # NoId THEN g ELSE First({g} \cup {k \in GameSlots : games[k].id = NoId})
      game == IF left.id # NoId THEN left ELSE [FreeGame EXCEPT !.id = id]
      seats == FirstFree(game, n)
      fits == Cardinality(seats) = n
      dead == IF fits THEN GoneFrom(g) \cup ({c} \cap gone) ELSE asked \cup {c}
  IN /\ server = "up" /\ clients[c].receive = "login"
     /\ clients' = [d \in Clients |->
                      IF d \in dead THEN Free
                      ELSE IF d = c THEN [receive |-> "update", game |-> h, localplayers |-> n]
                      ELSE clients[d]]
     /\ games' = [games EXCEPT
                    ![g] = left,
                    ![h] = Without(IF fits THEN Seated(game, c, seats) ELSE game, dead)]
     /\ Forgotten(dead)
     /\ lag' = [d \in Clients |-> IF d \in dead THEN 0 ELSE lag[d]]
     /\ server' = IF fits /\ c \notin gone /\ GoneFrom(g) \ asked # {}
                  THEN "removed entry read" ELSE "up"

\* Mutant: the buttons go to the seats with the numbers of the players.
SetInputBySeat(c, buttons) ==
  [x \in Seats |-> IF x \in SeatsOf(c, clients[c].game) /\ x \in DOMAIN buttons
                   THEN buttons[x] ELSE games[clients[c].game].joybuf[x]]

\* The buttons of the client's players go to its seats in turn.
SetInput(c, buttons) ==
  LET seats == SeatsOf(c, clients[c].game)
  IN [x \in Seats |->
        IF x \in seats THEN buttons[Cardinality({y \in seats : y <= x})]
        ELSE games[clients[c].game].joybuf[x]]

\* CheckNBTCPReceive, NBTCP_UPDATEDATA
UpdateData(c, buttons) ==
  /\ server = "up" /\ clients[c].receive = "update"
  /\ games' = [games EXCEPT ![clients[c].game].joybuf = SetInput(c, buttons)]
  /\ input' = [input EXCEPT ![c] = buttons]
  /\ UNCHANGED <<clients, gone, server, lag>>

\* CheckNBTCPReceive, NBTCP_UPDATEDATA of the byte that announces a command.
CommandComes(c) ==
  /\ server = "up" /\ clients[c].receive = "update"
  /\ clients' = [clients EXCEPT ![c].receive = "commandlen"]
  /\ UNCHANGED <<games, gone, server, lag, input>>

\* CheckNBTCPReceive, NBTCP_COMMANDLEN of a command that carries data, or is
\* to carry some and has none.
CommandLen(c) ==
  /\ server = "up" /\ clients[c].receive = "commandlen"
  /\ \E receive \in {"command", "update"} :
       clients' = [clients EXCEPT ![c].receive = receive]
  /\ UNCHANGED <<games, gone, server, lag, input>>

\* Mutant: a player that cannot be sent to is left in the game.
SendToAllKeepsGone(g) ==
  /\ clients' = clients /\ games' = games /\ input' = input /\ gone' = gone
  /\ lag' = [c \in Clients |->
       IF clients[c].game # g THEN lag[c]
       ELSE lag[c] + 1 - Cardinality({x \in SeatsOf(c, g) : games[g].unique[x]})]

\* SendToAll, and the loop of main that sends the buttons: every unique seat
\* is sent the same, and whoever cannot be sent to is killed.
SendToAll(g) ==
  LET dead == GoneFrom(g)
  IN /\ clients' = Given(dead)
     /\ games' = [games EXCEPT ![g] = Without(@, dead)]
     /\ lag' = [c \in Clients |->
          IF c \in dead THEN 0
          ELSE IF clients[c].game # g THEN lag[c]
          ELSE lag[c] + 1 - Cardinality({x \in SeatsOf(c, g) : games[g].unique[x]})]
     /\ Forgotten(dead)

\* CheckNBTCPReceive, NBTCP_COMMAND, and NBTCP_COMMANDLEN of a command without
\* data: it is sent to all, the sender included, after which the sender's
\* entry is made ready for its next input.  If sending killed the sender, the
\* entry asks for no bytes: reading on throws, and the server kills whoever
\* sits in the sender's seat, which is empty.
Command(c) ==
  /\ server = "up" /\ clients[c].receive \in {"command", "commandlen"}
  /\ SendToAll(clients[c].game)
  /\ server' = IF c \in gone THEN "nothing to receive" ELSE "up"

\* main: the buttons of all are sent to every client of the game.
Update(g) ==
  /\ server = "up" /\ games[g].id # NoId
  /\ SendToAll(g)
  /\ UNCHANGED server

Next ==
  \/ \E c \in Clients :
       \/ Accept(c) \/ PeerGone(c) \/ LoginTimeout(c) \/ Rejected(c) \/ LoginLen(c)
       \/ CommandComes(c) \/ CommandLen(c) \/ Command(c)
       \/ \E id \in Ids, n \in Seats : Login(c, id, n)
       \/ \E buttons \in [1..clients[c].localplayers -> Inputs] : UpdateData(c, buttons)
  \/ \E g \in GameSlots : Update(g)

\* The loop comes round to every game and to every client that is late.
Fairness ==
  /\ \A g \in GameSlots : WF_vars(Update(g))
  /\ \A c \in Clients : WF_vars(LoginTimeout(c))

Spec == Init /\ [][Next]_vars /\ Fairness

-----------------------------------------------------------------------------
TypeOK ==
  /\ clients \in [Clients ->
       [receive : {"nothing", "loginlen", "login", "update", "commandlen", "command"},
        game : GameSlots \cup {NoGame}, localplayers : 0..MaxPlayers]]
  /\ games \in [GameSlots ->
       [id : Ids \cup {NoId}, joybuf : [Seats -> Inputs],
        players : [Seats -> Clients \cup {NoClient}], unique : [Seats -> BOOLEAN]]]
  /\ \A c \in Clients :
       /\ clients[c].game = NoGame <=> clients[c].receive \in {"nothing", "loginlen", "login"}
       /\ clients[c].game = NoGame <=> clients[c].localplayers = 0
  /\ gone \subseteq Clients
  /\ server \in {"up", "removed entry read", "nothing to receive"}
  /\ lag \in [Clients -> Int]
  /\ \A c \in Clients : input[c] = <<>> \/ input[c] \in [1..clients[c].localplayers -> Inputs]

\* A client sits in the seats of the game its entry names, as many as it has
\* players, and in no other; no seat holds an entry that was given up.
SeatsAgree ==
  \A c \in Clients, g \in GameSlots :
    Cardinality(SeatsOf(c, g)) = IF clients[c].game = g THEN clients[c].localplayers ELSE 0

\* A game exists as long as somebody plays it.
GamesPlayed ==
  \A g \in GameSlots : games[g].id = NoId <=> PlayersOf(g) = {}

\* The two tables agree, whoever comes, goes or dies in the middle of a
\* broadcast (KillClient, AddClientToGame).
TablesAgree == SeatsAgree /\ GamesPlayed

\* No two games have the same id: players who want to play together do.
OneGamePerId ==
  \A g, h \in GameSlots : games[g].id = games[h].id /\ games[g].id # NoId => g = h

\* Everybody in a game is sent everything the game sends, once, whatever
\* seats were given up and taken again: the emulators, which wait for each
\* update, run the same frames and commands (IsUnique).
InLockstep ==
  \A c \in Clients : lag[c] = 0

\* The buttons in the seats of a client are those it sent last, its first
\* player's in its first seat (the copying loop of NBTCP_UPDATEDATA).
CarriesInput ==
  \A c \in Clients : clients[c].game # NoGame /\ input[c] # <<>> =>
    LET seats == SeatsOf(c, clients[c].game)
    IN \A x \in seats :
         games[clients[c].game].joybuf[x] = input[c][Cardinality({y \in seats : y <= x})]

\* A client that logs in finds an entry for a new game: the table of games
\* is as long as the table of clients, and AddClientToGame does not look
\* whether it found one.
FreeGameForLogin ==
  LoggingIn # {} => \E g \in GameSlots : games[g].id = NoId

\* A client whose peer is gone is removed, although reading from it says
\* nothing: unless the server died.
GoneAreRemoved ==
  \A c \in Clients : c \in gone ~> c \notin gone \/ server # "up"

=============================================================================
