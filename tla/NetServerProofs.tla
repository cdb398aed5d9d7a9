---------------------------- MODULE NetServerProofs ----------------------------
(***************************************************************************)
(* Proofs about the network play server, for any number of clients, games  *)
(* and players: its two tables agree whoever comes, goes or dies, and so   *)
(* everybody in a game is sent the same.                                   *)
(*                                                                         *)
(* What a step does to the tables is some clients being removed from both, *)
(* a client being seated, or one after the other.  The invariant is stated *)
(* of any pair of tables, so that it can be followed through the tables a  *)
(* login passes through.                                                   *)
(***************************************************************************)
EXTENDS NetServer, FiniteSetTheorems, WellFoundedInduction, TLAPS

Entry == [receive : {"nothing", "loginlen", "login", "update", "commandlen", "command"},
          game : GameSlots \cup {NoGame}, localplayers : 0..MaxPlayers]

Game == [id : Ids \cup {NoId}, joybuf : [Seats -> Inputs],
         players : [Seats -> Clients \cup {NoClient}], unique : [Seats -> BOOLEAN]]

\* The seats of client c in game g of the table.
Taken(table, c, g) == {x \in Seats : table[g].players[x] = c}

Typed(cs, gs, sent) ==
  /\ cs \in [Clients -> Entry]
  /\ gs \in [GameSlots -> Game]
  /\ DOMAIN sent = Clients
  /\ \A c \in Clients :
       /\ cs[c].game = NoGame <=> cs[c].receive \in {"nothing", "loginlen", "login"}
       /\ cs[c].game = NoGame <=> cs[c].localplayers = 0
       /\ sent[c] = <<>> \/ sent[c] \in [1..cs[c].localplayers -> Inputs]

\* Whoever sits in a seat of a game is in that game.
SeatedAreIn(cs, gs) ==
  \A g \in GameSlots, x \in Seats :
    gs[g].players[x] # NoClient => cs[gs[g].players[x]].game = g

\* Whoever is in a game has a seat for each of its players there.
InAreSeated(cs, gs) ==
  \A c \in Clients, g \in GameSlots :
    cs[c].game = g => Cardinality(Taken(gs, c, g)) = cs[c].localplayers

\* An entry of the table of games is cleared or somebody plays.
PlayedOrFree(gs) ==
  \A g \in GameSlots :
    \/ gs[g] = FreeGame
    \/ gs[g].id # NoId /\ \E x \in Seats : gs[g].players[x] # NoClient

IdsDiffer(gs) ==
  \A g, h \in GameSlots : gs[g].id = gs[h].id /\ gs[g].id # NoId => g = h

\* One of the seats of a client is marked to be sent to.
SentOnce(cs, gs) ==
  \A c \in Clients, g \in GameSlots :
    cs[c].game = g =>
      \E x \in Taken(gs, c, g) : \A y \in Taken(gs, c, g) : gs[g].unique[y] <=> y = x

\* The seats hold the buttons that were sent.
Pressed(cs, gs, sent) ==
  \A c \in Clients, g \in GameSlots :
    cs[c].game = g /\ sent[c] # <<>> =>
      \A x \in Taken(gs, c, g) :
        gs[g].joybuf[x] = sent[c][Cardinality({y \in Taken(gs, c, g) : y <= x})]

Good(cs, gs, sent) ==
  /\ Typed(cs, gs, sent)
  /\ SeatedAreIn(cs, gs)
  /\ InAreSeated(cs, gs)
  /\ PlayedOrFree(gs)
  /\ IdsDiffer(gs)
  /\ SentOnce(cs, gs)
  /\ Pressed(cs, gs, sent)

\* Good says of the tables what a later step needs; that nobody was sent more
\* or less than his game sent follows from SentOnce.
ServerInv ==
  /\ Good(clients, games, input)
  /\ gone \subseteq Clients
  /\ server \in {"up", "removed entry read", "nothing to receive"}
  /\ lag = [c \in Clients |-> 0]

-----------------------------------------------------------------------------
(* Constants. *)

LEMMA SeatsFinite ==
  /\ IsFiniteSet(Seats)
  /\ \A S : S \subseteq Seats => IsFiniteSet(S) /\ Cardinality(S) \in 0..MaxPlayers
<1>1. IsFiniteSet(Seats) /\ Cardinality(Seats) = MaxPlayers
  BY NetServerAssumption, FS_Interval DEF Seats
<1>2. ASSUME NEW S, S \subseteq Seats
      PROVE  IsFiniteSet(S) /\ Cardinality(S) \in 0..MaxPlayers
  <2>1. IsFiniteSet(S) /\ Cardinality(S) <= MaxPlayers
    BY <1>1, <1>2, FS_Subset
  <2>2. Cardinality(S) \in Nat
    BY <2>1, FS_CardinalityType
  <2> QED BY <2>1, <2>2, NetServerAssumption
<1> QED BY <1>1, <1>2

\* A set of naturals that is not empty has a least element, which is First of
\* the entries of the table.
LEMMA FirstIsThere ==
  ASSUME NEW slots, slots \subseteq Nat, slots # {}
  PROVE  First(slots) \in slots /\ \A h \in slots : First(slots) <= h
<1> DEFINE Less == {ss \in Nat \X Nat : ss[1] < ss[2]}
<1>1. IsWellFoundedOn(Less, Nat)
  BY NatLessThanWellFounded DEF OpToRel
<1>2. PICK g \in slots : \A h \in slots : <<h, g>> \notin Less
  <2> HIDE DEF Less
  <2> QED BY <1>1, WFMin
<1>3. \A h \in slots : ~ (h < g)
  BY <1>2
<1>4. \A h \in slots : g <= h
  BY <1>3
<1> QED BY <1>4 DEF First

LEMMA FreeTypes == Free \in Entry /\ FreeGame \in Game
BY NetServerAssumption DEF Free, FreeGame, Entry, Game

-----------------------------------------------------------------------------
(* Removing clients. *)

\* Whether the game goes on or is destroyed, the seats of the dead are free
\* and the others are as they were.
LEMMA WithoutPlayers ==
  ASSUME NEW game \in Game, NEW dead
  PROVE  /\ Without(game, dead) \in Game
         /\ \A x \in Seats :
              Without(game, dead).players[x] =
                IF game.players[x] \in dead THEN NoClient ELSE game.players[x]
         /\ \/ Without(game, dead) = FreeGame
            \/ /\ Without(game, dead) = [game EXCEPT !.players = Without(game, dead).players]
               /\ \E x \in Seats : Without(game, dead).players[x] # NoClient
<1> DEFINE left == [x \in Seats |-> IF game.players[x] \in dead THEN NoClient ELSE game.players[x]]
<1>1. left \in [Seats -> Clients \cup {NoClient}]
  BY DEF Game
<1>2. CASE \A x \in Seats : left[x] = NoClient
  <2>1. Without(game, dead) = FreeGame
    BY <1>2 DEF Without
  <2>2. \A x \in Seats : FreeGame.players[x] = NoClient
    BY DEF FreeGame
  <2> QED BY <1>2, <2>1, <2>2, FreeTypes
<1>3. CASE ~ \A x \in Seats : left[x] = NoClient
  <2>1. Without(game, dead) = [game EXCEPT !.players = left]
    BY <1>3 DEF Without
  <2>2. [game EXCEPT !.players = left] \in Game
    BY <1>1 DEF Game
  <2>3. [game EXCEPT !.players = left].players = left
    BY DEF Game
  <2> QED BY <1>3, <2>1, <2>2, <2>3
<1> QED BY <1>2, <1>3

\* A game none of the dead plays stays as it is.
LEMMA WithoutOthers ==
  ASSUME NEW game \in Game, NEW dead, NoClient \notin dead,
         \A x \in Seats : game.players[x] \notin dead,
         \/ game = FreeGame
         \/ \E x \in Seats : game.players[x] # NoClient
  PROVE  Without(game, dead) = game
<1> DEFINE left == [x \in Seats |-> IF game.players[x] \in dead THEN NoClient ELSE game.players[x]]
<1>1. left = game.players
  BY DEF Game
<1>2. [game EXCEPT !.players = game.players] = game
  BY DEF Game
<1>3. CASE game = FreeGame
  <2>1. \A x \in Seats : left[x] = NoClient
    BY <1>1, <1>3 DEF FreeGame
  <2> QED BY <1>3, <2>1 DEF Without
<1>4. CASE \E x \in Seats : game.players[x] # NoClient
  <2>1. ~ \A x \in Seats : left[x] = NoClient
    BY <1>1, <1>4
  <2> HIDE DEF left
  <2>2. Without(game, dead) = [game EXCEPT !.players = left]
    BY <2>1 DEF Without, left
  <2> QED BY <1>1, <1>2, <2>2
<1> QED BY <1>3, <1>4

\* The tables and what was sent without these clients.
ClientsWithout(cs, dead) == [c \in Clients |-> IF c \in dead THEN Free ELSE cs[c]]
GamesWithout(gs, dead) == [g \in GameSlots |-> Without(gs[g], dead)]
SentWithout(sent, dead) == [c \in Clients |-> IF c \in dead THEN <<>> ELSE sent[c]]

\* Clients that are removed leave the tables of the others alone.
LEMMA RemovalKeeps ==
  ASSUME NEW cs, NEW gs, NEW sent, Good(cs, gs, sent),
         NEW dead, dead \subseteq Clients
  PROVE  Good(ClientsWithout(cs, dead), GamesWithout(gs, dead), SentWithout(sent, dead))
<1> DEFINE cs1 == [c \in Clients |-> IF c \in dead THEN Free ELSE cs[c]]
           gs1 == [g \in GameSlots |-> Without(gs[g], dead)]
           sent1 == [c \in Clients |-> IF c \in dead THEN <<>> ELSE sent[c]]
<1>1. \A g \in GameSlots : gs[g] \in Game
  BY DEF Good, Typed
<1>2. \A g \in GameSlots, x \in Seats :
        /\ gs[g].players[x] \in Clients \cup {NoClient}
        /\ gs1[g].players[x] =
             IF gs[g].players[x] \in dead THEN NoClient ELSE gs[g].players[x]
  BY <1>1, WithoutPlayers DEF Game
<1>3. \A c \in Clients : /\ c \in dead => cs1[c] = Free /\ sent1[c] = <<>>
                         /\ c \notin dead => cs1[c] = cs[c] /\ sent1[c] = sent[c]
  OBVIOUS
<1>4. \A g \in GameSlots :
        \/ gs1[g] = FreeGame
        \/ /\ gs1[g].id = gs[g].id /\ gs1[g].joybuf = gs[g].joybuf
           /\ gs1[g].unique = gs[g].unique
           /\ \E x \in Seats : gs1[g].players[x] # NoClient
  <2> SUFFICES ASSUME NEW g \in GameSlots, Without(gs[g], dead) # FreeGame
               PROVE  LET game == Without(gs[g], dead)
                      IN /\ game.id = gs[g].id /\ game.joybuf = gs[g].joybuf
                         /\ game.unique = gs[g].unique
                         /\ \E x \in Seats : game.players[x] # NoClient
    OBVIOUS
  <2> DEFINE p == Without(gs[g], dead).players
  <2>1. /\ Without(gs[g], dead) = [gs[g] EXCEPT !.players = p]
        /\ \E x \in Seats : p[x] # NoClient
    BY <1>1, WithoutPlayers
  <2> HIDE DEF p
  <2>2. /\ [gs[g] EXCEPT !.players = p].id = gs[g].id
        /\ [gs[g] EXCEPT !.players = p].joybuf = gs[g].joybuf
        /\ [gs[g] EXCEPT !.players = p].unique = gs[g].unique
    BY <1>1 DEF Game
  <2> QED BY <2>1, <2>2 DEF p
<1>5. ASSUME NEW c \in Clients, NEW g \in GameSlots, cs1[c].game = g
      PROVE  /\ c \notin dead /\ cs[c].game = g
             /\ Taken(gs1, c, g) = Taken(gs, c, g)
             /\ gs1[g].joybuf = gs[g].joybuf /\ gs1[g].unique = gs[g].unique
  <2>1. c \notin dead /\ cs[c].game = g
    BY <1>3, <1>5, NetServerAssumption DEF Free
  <2>2. Taken(gs1, c, g) = Taken(gs, c, g)
    BY <1>2, <2>1, NetServerAssumption DEF Taken
  <2>3. PICK x \in Taken(gs, c, g) : TRUE
    BY <2>1 DEF Good, SentOnce
  <2>4. gs1[g].players[x] = c
    BY <2>2, <2>3 DEF Taken
  <2>5. gs1[g] # FreeGame
    BY <2>3, <2>4, NetServerAssumption DEF FreeGame, Taken
  <2> QED BY <1>4, <2>1, <2>2, <2>5
<1> HIDE DEF cs1, gs1, sent1
<1>6. Typed(cs1, gs1, sent1)
  <2>1. gs1 \in [GameSlots -> Game]
    BY <1>1, WithoutPlayers DEF gs1
  <2>2. cs1 \in [Clients -> Entry]
    BY FreeTypes DEF cs1, Good, Typed
  <2>3. DOMAIN sent1 = Clients
    BY DEF sent1
  <2>4. ASSUME NEW c \in Clients
        PROVE  /\ cs1[c].game = NoGame <=> cs1[c].receive \in {"nothing", "loginlen", "login"}
               /\ cs1[c].game = NoGame <=> cs1[c].localplayers = 0
               /\ sent1[c] = <<>> \/ sent1[c] \in [1..cs1[c].localplayers -> Inputs]
    <3>1. CASE c \in dead
      BY <1>3, <3>1 DEF Free
    <3>2. CASE c \notin dead
      BY <1>3, <3>2 DEF Good, Typed
    <3> QED BY <3>1, <3>2
  <2> QED BY <2>1, <2>2, <2>3, <2>4 DEF Typed
<1>7. SeatedAreIn(cs1, gs1)
  <2> SUFFICES ASSUME NEW g \in GameSlots, NEW x \in Seats, gs1[g].players[x] # NoClient
               PROVE  cs1[gs1[g].players[x]].game = g
    BY DEF SeatedAreIn
  <2>1. gs1[g].players[x] = gs[g].players[x] /\ gs[g].players[x] \in Clients \ dead
    BY <1>2
  <2>2. cs[gs[g].players[x]].game = g
    BY <2>1, NetServerAssumption DEF Good, SeatedAreIn
  <2> QED BY <1>3, <2>1, <2>2
<1>8. InAreSeated(cs1, gs1)
  BY <1>3, <1>5 DEF Good, InAreSeated
<1>9. PlayedOrFree(gs1)
  <2> SUFFICES ASSUME NEW g \in GameSlots, gs1[g] # FreeGame
               PROVE  gs1[g].id # NoId /\ \E x \in Seats : gs1[g].players[x] # NoClient
    BY DEF PlayedOrFree
  <2>1. gs1[g].id = gs[g].id /\ \E x \in Seats : gs1[g].players[x] # NoClient
    BY <1>4
  <2>2. PICK x \in Seats : gs1[g].players[x] # NoClient
    BY <2>1
  <2>3. gs[g].players[x] # NoClient
    BY <1>2, <2>2
  <2>4. gs[g] # FreeGame
    BY <2>3 DEF FreeGame
  <2> QED BY <2>1, <2>4 DEF Good, PlayedOrFree
<1>10. IdsDiffer(gs1)
  <2>1. \A g \in GameSlots : gs1[g].id # NoId => gs1[g].id = gs[g].id
    BY <1>4 DEF FreeGame
  <2> QED BY <2>1 DEF Good, IdsDiffer
<1>11. SentOnce(cs1, gs1)
  <2> SUFFICES ASSUME NEW c \in Clients, NEW g \in GameSlots, cs1[c].game = g
               PROVE  \E x \in Taken(gs1, c, g) :
                        \A y \in Taken(gs1, c, g) : gs1[g].unique[y] <=> y = x
    BY DEF SentOnce
  <2>1. /\ cs[c].game = g
        /\ Taken(gs1, c, g) = Taken(gs, c, g) /\ gs1[g].unique = gs[g].unique
    BY <1>5
  <2>2. SentOnce(cs, gs)
    BY DEF Good
  <2>3. \E x \in Taken(gs, c, g) : \A y \in Taken(gs, c, g) : gs[g].unique[y] <=> y = x
    BY <2>1, <2>2 DEF SentOnce
  <2> QED BY <2>1, <2>3
<1>12. Pressed(cs1, gs1, sent1)
  <2> SUFFICES ASSUME NEW c \in Clients, NEW g \in GameSlots, cs1[c].game = g,
                      sent1[c] # <<>>, NEW x \in Taken(gs1, c, g)
               PROVE  gs1[g].joybuf[x] =
                        sent1[c][Cardinality({y \in Taken(gs1, c, g) : y <= x})]
    BY DEF Pressed
  <2>1. /\ c \notin dead /\ cs[c].game = g
        /\ Taken(gs1, c, g) = Taken(gs, c, g)
        /\ gs1[g].joybuf = gs[g].joybuf
    BY <1>5
  <2>2. sent1[c] = sent[c]
    BY <1>3, <2>1
  <2>3. gs[g].joybuf[x] = sent[c][Cardinality({y \in Taken(gs, c, g) : y <= x})]
    BY <2>1, <2>2 DEF Good, Pressed
  <2> QED BY <2>1, <2>2, <2>3
<1> QED BY <1>6, <1>7, <1>8, <1>9, <1>10, <1>11, <1>12
        DEF Good, cs1, gs1, sent1, ClientsWithout, GamesWithout, SentWithout

-----------------------------------------------------------------------------
(* Seating a client. *)

\* One of the seats of a set is its first.
LEMMA FirstSeat ==
  ASSUME NEW seats, seats \subseteq Seats, seats # {}
  PROVE  \E x \in seats : \A y \in seats : x <= y
<1>1. seats \subseteq Nat
  BY NetServerAssumption DEF Seats
<1> QED BY <1>1, FirstIsThere

\* The tables with client c in n seats of game h.
ClientsWith(cs, c, h, n) ==
  [cs EXCEPT ![c] = [receive |-> "update", game |-> h, localplayers |-> n]]
GamesWith(gs, h, game, c, seats) == [gs EXCEPT ![h] = Seated(game, c, seats)]

\* A client that was in no game takes free seats of a game, or of a new game
\* that has an id of its own.
LEMMA SeatingKeeps ==
  ASSUME NEW cs, NEW gs, NEW sent, Good(cs, gs, sent),
         NEW c \in Clients, cs[c].game = NoGame,
         NEW h \in GameSlots, NEW n \in Seats, NEW game \in Game,
         \/ game = gs[h] /\ gs[h].id # NoId
         \/ /\ gs[h] = FreeGame
            /\ \E id \in Ids : /\ game = [FreeGame EXCEPT !.id = id]
                               /\ \A g \in GameSlots : gs[g].id # id,
         NEW seats, seats \subseteq Seats, Cardinality(seats) = n,
         \A x \in seats : game.players[x] = NoClient
  PROVE  Good(ClientsWith(cs, c, h, n), GamesWith(gs, h, game, c, seats), sent)
<1> DEFINE seated == Seated(game, c, seats)
           entry == [receive |-> "update", game |-> h, localplayers |-> n]
           cs1 == [cs EXCEPT ![c] = entry]
           gs1 == [gs EXCEPT ![h] = seated]
<1>1. \A g \in GameSlots : gs[g] \in Game
  BY DEF Good, Typed
<1>2. /\ seated \in Game
      /\ seated.id = game.id /\ seated.joybuf = game.joybuf
      /\ \A x \in Seats : seated.players[x] = IF x \in seats THEN c ELSE game.players[x]
      /\ \A x \in Seats : seated.unique[x] = IF x \in seats THEN \A y \in seats : x <= y
                                             ELSE game.unique[x]
  BY DEF Seated, Game
<1>3. game.id # NoId /\ game.id \in Ids
  BY <1>1, NetServerAssumption DEF FreeGame, Game
<1>4. \A x \in Seats : game.players[x] = gs[h].players[x]
  BY DEF FreeGame
<1>5. \/ game = gs[h] 
      \/ \A x \in Seats : gs[h].players[x] = NoClient
  BY DEF FreeGame
<1>6. seats # {}
  <2>1. Cardinality(seats) # 0
    BY DEF Seats
  <2> QED BY <2>1, FS_EmptySet
<1>7. \A g \in GameSlots : g # h => gs1[g] = gs[g]
  BY DEF Good, Typed
<1>8. gs1[h] = seated
  BY DEF Good, Typed
<1>9. cs1[c] = entry /\ \A d \in Clients : d # c => cs1[d] = cs[d]
  BY DEF Good, Typed
<1> HIDE DEF seated, cs1, gs1
<1>10. \A g \in GameSlots : Taken(gs, c, g) = {}
  BY NetServerAssumption DEF Good, SeatedAreIn, Taken
<1>11. Taken(gs1, c, h) = seats
  BY <1>2, <1>4, <1>8, <1>10 DEF Taken
<1>12. \A d \in Clients, g \in GameSlots : d # c => Taken(gs1, d, g) = Taken(gs, d, g)
  <2> SUFFICES ASSUME NEW d \in Clients, NEW g \in GameSlots, d # c
               PROVE  Taken(gs1, d, g) = Taken(gs, d, g)
    OBVIOUS
  <2>1. CASE g = h
    BY <1>2, <1>4, <1>8, <2>1, NetServerAssumption DEF Taken
  <2>2. CASE g # h
    BY <1>7, <2>2 DEF Taken
  <2> QED BY <2>1, <2>2
<1>13. sent[c] = <<>>
  <2>1. sent[c] = <<>> \/ sent[c] \in [1..0 -> Inputs]
    BY DEF Good, Typed
  <2> QED BY <2>1
<1>14. Typed(cs1, gs1, sent)
  <2>1. entry \in Entry
    BY DEF Entry, Seats
  <2>2. cs1 \in [Clients -> Entry]
    BY <2>1 DEF cs1, Good, Typed
  <2>3. gs1 \in [GameSlots -> Game]
    BY <1>2 DEF gs1, Good, Typed
  <2>4. /\ cs1[c].game # NoGame /\ cs1[c].receive = "update"
        /\ cs1[c].localplayers # 0
    BY <1>9, NetServerAssumption DEF Seats
  <2> QED BY <1>9, <1>13, <2>2, <2>3, <2>4 DEF Good, Typed
<1>15. SeatedAreIn(cs1, gs1)
  <2> SUFFICES ASSUME NEW g \in GameSlots, NEW x \in Seats, gs1[g].players[x] # NoClient
               PROVE  cs1[gs1[g].players[x]].game = g
    BY DEF SeatedAreIn
  <2>1. CASE gs1[g].players[x] = c
    <3>1. x \in Taken(gs1, c, g)
      BY <2>1 DEF Taken
    <3>2. g = h
      BY <1>7, <1>10, <3>1 DEF Taken
    <3> QED BY <1>9, <2>1, <3>2
  <2>2. CASE gs1[g].players[x] # c
    <3>1. gs1[g].players[x] = gs[g].players[x]
      BY <1>2, <1>4, <1>7, <1>8, <2>2
    <3>2. gs[g].players[x] \in Clients
      BY <1>1, <3>1 DEF Game
    <3>3. cs[gs[g].players[x]].game = g
      BY <3>1 DEF Good, SeatedAreIn
    <3> QED BY <1>9, <2>2, <3>1, <3>2, <3>3
  <2> QED BY <2>1, <2>2
<1>16. InAreSeated(cs1, gs1)
  <2> SUFFICES ASSUME NEW d \in Clients, NEW g \in GameSlots, cs1[d].game = g
               PROVE  Cardinality(Taken(gs1, d, g)) = cs1[d].localplayers
    BY DEF InAreSeated
  <2>1. CASE d = c
    BY <1>9, <1>11, <2>1
  <2>2. CASE d # c
    BY <1>9, <1>12, <2>2 DEF Good, InAreSeated
  <2> QED BY <2>1, <2>2
<1>17. PlayedOrFree(gs1)
  <2>1. gs1[h].id # NoId /\ \E x \in Seats : gs1[h].players[x] # NoClient
    BY <1>2, <1>3, <1>6, <1>8, NetServerAssumption
  <2> QED BY <1>7, <2>1 DEF Good, PlayedOrFree
<1>18. IdsDiffer(gs1)
  <2>1. \A g \in GameSlots : g # h => gs[g].id # game.id
    BY DEF Good, IdsDiffer, FreeGame
  <2> QED BY <1>2, <1>7, <1>8, <2>1 DEF Good, IdsDiffer
<1>19. SentOnce(cs1, gs1)
  <2> SUFFICES ASSUME NEW d \in Clients, NEW g \in GameSlots, cs1[d].game = g
               PROVE  \E x \in Taken(gs1, d, g) :
                        \A y \in Taken(gs1, d, g) : gs1[g].unique[y] <=> y = x
    BY DEF SentOnce
  <2>1. CASE d = c
    <3>1. g = h
      BY <1>9, <2>1
    <3>2. PICK x \in seats : \A y \in seats : x <= y
      BY <1>6, FirstSeat
    <3>3. \A y \in seats : gs1[h].unique[y] <=> \A z \in seats : y <= z
      BY <1>2, <1>8
    <3>4. \A y \in seats : (\A z \in seats : y <= z) <=> y = x
      BY <3>2, NetServerAssumption DEF Seats
    <3> QED BY <1>11, <2>1, <3>1, <3>3, <3>4
  <2>2. CASE d # c
    <3>1. Taken(gs1, d, g) = Taken(gs, d, g) /\ cs[d].game = g
      BY <1>9, <1>12, <2>2
    <3>2. PICK x \in Taken(gs, d, g) : \A y \in Taken(gs, d, g) : gs[g].unique[y] <=> y = x
      BY <3>1 DEF Good, SentOnce
    <3>3. ASSUME NEW y \in Taken(gs, d, g)
          PROVE  gs1[g].unique[y] = gs[g].unique[y]
      <4>1. CASE g = h
        <5>1. y \in Seats /\ gs[h].players[y] # NoClient /\ y \notin seats
          BY <1>4, <4>1, NetServerAssumption DEF Taken
        <5>2. game = gs[h]
          BY <1>5, <5>1
        <5> QED BY <1>2, <1>8, <4>1, <5>1, <5>2
      <4>2. CASE g # h
        BY <1>7, <4>2
      <4> QED BY <4>1, <4>2
    <3> QED BY <3>1, <3>2, <3>3
  <2> QED BY <2>1, <2>2
<1>20. Pressed(cs1, gs1, sent)
  <2> SUFFICES ASSUME NEW d \in Clients, NEW g \in GameSlots, cs1[d].game = g,
                      sent[d] # <<>>, NEW x \in Taken(gs1, d, g)
               PROVE  gs1[g].joybuf[x] =
                        sent[d][Cardinality({y \in Taken(gs1, d, g) : y <= x})]
    BY DEF Pressed
  <2>1. d # c
    BY <1>13
  <2>2. Taken(gs1, d, g) = Taken(gs, d, g) /\ cs[d].game = g
    BY <1>9, <1>12, <2>1
  <2>3. gs[g].joybuf[x] = sent[d][Cardinality({y \in Taken(gs, d, g) : y <= x})]
    BY <2>2 DEF Good, Pressed
  <2>4. gs1[g].joybuf = gs[g].joybuf
    <3>1. CASE g = h
      <4>1. x \in Seats /\ gs[h].players[x] # NoClient
        BY <2>2, <3>1, NetServerAssumption DEF Taken
      <4> QED BY <1>2, <1>5, <1>8, <3>1, <4>1
    <3>2. CASE g # h
      BY <1>7, <3>2
    <3> QED BY <3>1, <3>2
  <2> QED BY <2>2, <2>3, <2>4
<1> QED BY <1>14, <1>15, <1>16, <1>17, <1>18, <1>19, <1>20
        DEF Good, cs1, gs1, seated, ClientsWith, GamesWith

-----------------------------------------------------------------------------
(* The steps of the server. *)

\* While somebody is in no game there is an entry for a new one: every game
\* that is played has somebody in it who is in no other.
LEMMA EntryIsFree ==
  ASSUME Good(clients, games, input), NEW c \in Clients, clients[c].game = NoGame
  PROVE  \E g \in GameSlots : games[g].id = NoId
<1> SUFFICES ASSUME \A g \in GameSlots : games[g].id # NoId PROVE FALSE
  OBVIOUS
<1>1. \A g \in GameSlots : games[g] # FreeGame
  BY DEF FreeGame
<1>2. \A g \in GameSlots : \E x \in Seats : games[g].players[x] # NoClient
  BY <1>1 DEF Good, PlayedOrFree
<1>3. \A g \in GameSlots, x \in Seats : games[g].players[x] \in Clients \cup {NoClient}
  BY DEF Good, Typed, Game
<1>4. \A g \in GameSlots : \E d \in Clients : clients[d].game = g
  <2> SUFFICES ASSUME NEW g \in GameSlots
               PROVE  \E d \in Clients : clients[d].game = g
    OBVIOUS
  <2>1. PICK x \in Seats : games[g].players[x] # NoClient
    BY <1>2
  <2>2. games[g].players[x] \in Clients
    BY <1>3, <2>1
  <2>3. clients[games[g].players[x]].game = g
    BY <2>1 DEF Good, SeatedAreIn
  <2> QED BY <2>2, <2>3
<1> DEFINE player == [g \in GameSlots |-> CHOOSE d \in Clients : clients[d].game = g]
<1>5. \A g \in GameSlots : player[g] \in Clients /\ clients[player[g]].game = g
  BY <1>4
<1>6. player \in Injection(GameSlots, Clients \ {c})
  <2>1. player \in [GameSlots -> Clients \ {c}]
    BY <1>5, NetServerAssumption
  <2>2. \A g, h \in GameSlots : player[g] = player[h] => g = h
    BY <1>5
  <2> HIDE DEF player
  <2> QED BY <2>1, <2>2 DEF Injection, IsInjective
<1>7. /\ IsFiniteSet(Clients \ {c})
      /\ Cardinality(Clients \ {c}) = Cardinality(Clients) - 1
  BY NetServerAssumption, FS_RemoveElement
<1>8. Cardinality(GameSlots) <= Cardinality(Clients \ {c})
  BY <1>6, <1>7, FS_Injection
<1>9. Cardinality(Clients) \in Nat
  BY NetServerAssumption, FS_CardinalityType
<1> QED BY <1>7, <1>8, <1>9, NetServerAssumption

\* The client that is removed and those it turns out are gone from one game
\* are in no other, so that removing them from that game removes them from all.
LEMMA RemovedFromOne ==
  ASSUME Good(clients, games, input), NEW g \in GameSlots,
         NEW dead, dead \subseteq Clients,
         \A d \in dead : clients[d].game \in {g, NoGame}
  PROVE  [games EXCEPT ![g] = Without(@, dead)] = GamesWithout(games, dead)
<1>1. ASSUME NEW h \in GameSlots, h # g
      PROVE  Without(games[h], dead) = games[h]
  <2>1. games[h] \in Game
    BY DEF Good, Typed
  <2>2. \A x \in Seats : games[h].players[x] \notin dead
    BY <1>1, NetServerAssumption DEF Good, SeatedAreIn
  <2>3. \/ games[h] = FreeGame
        \/ \E x \in Seats : games[h].players[x] # NoClient
    BY DEF Good, PlayedOrFree
  <2> QED BY <2>1, <2>2, <2>3, WithoutOthers, NetServerAssumption
<1> QED BY <1>1 DEF Good, Typed, GamesWithout

\* Whoever is gone from a game is in it.
LEMMA GoneAreIn ==
  ASSUME Good(clients, games, input), gone \subseteq Clients, NEW g \in GameSlots
  PROVE  /\ GoneFrom(g) \subseteq Clients
         /\ \A d \in GoneFrom(g) : clients[d].game = g
BY DEF GoneFrom, PlayersOf, Good, SeatedAreIn

\* SendToAll sends once to everybody in the game who is still there.
LEMMA SendToAllKeeps ==
  ASSUME ServerInv, NEW g \in GameSlots, SendToAll(g)
  PROVE  /\ Good(clients, games, input)'
         /\ lag' = [c \in Clients |-> 0]
         /\ gone' \subseteq Clients
<1> DEFINE dead == GoneFrom(g)
<1>1. dead \subseteq Clients /\ \A d \in dead : clients[d].game = g
  BY GoneAreIn DEF ServerInv
<1>2. /\ clients' = ClientsWithout(clients, dead)
      /\ games' = GamesWithout(games, dead)
      /\ input' = SentWithout(input, dead)
      /\ gone' \subseteq Clients
  BY <1>1, RemovedFromOne
  DEF ServerInv, SendToAll, Given, Forgotten, ClientsWithout, SentWithout
<1>3. Good(clients', games', input')
  <2> HIDE DEF dead
  <2> QED BY <1>1, <1>2, RemovalKeeps DEF ServerInv
<1>4. ASSUME NEW c \in Clients
      PROVE  (IF c \in dead THEN 0
              ELSE IF clients[c].game # g THEN lag[c]
              ELSE lag[c] + 1 - Cardinality({x \in SeatsOf(c, g) : games[g].unique[x]})) = 0
  <2>1. lag[c] = 0
    BY DEF ServerInv
  <2>2. CASE clients[c].game = g
    <3>1. SentOnce(clients, games)
      BY DEF ServerInv, Good
    <3>2. PICK x \in Taken(games, c, g) :
            \A y \in Taken(games, c, g) : games[g].unique[y] <=> y = x
      BY <2>2, <3>1 DEF SentOnce
    <3>3. {y \in SeatsOf(c, g) : games[g].unique[y]} = {x}
      BY <3>2 DEF SeatsOf, Taken
    <3>4. Cardinality({x}) = 1
      BY FS_Singleton
    <3> QED BY <2>1, <3>3, <3>4
  <2> QED BY <2>1, <2>2
<1>5. lag' = [c \in Clients |-> 0]
  BY <1>4 DEF SendToAll
<1> QED BY <1>2, <1>3, <1>5

\* KillClient removes the client and whoever it cannot be told.
LEMMA KillClientKeeps ==
  ASSUME ServerInv, NEW c \in Clients, KillClient(c)
  PROVE  /\ Good(clients, games, input)'
         /\ lag' = [d \in Clients |-> 0]
         /\ gone' \subseteq Clients
<1> DEFINE g == clients[c].game
           dead == {c} \cup IF g = NoGame THEN {} ELSE GoneFrom(g)
<1>1. g \in GameSlots \cup {NoGame}
  BY DEF ServerInv, Good, Typed, Entry
<1>2. dead \subseteq Clients /\ \A d \in dead : clients[d].game = g
  BY <1>1, GoneAreIn DEF ServerInv
<1>3. games' = GamesWithout(games, dead)
  <2>1. games' = [h \in GameSlots |-> IF h = g THEN Without(games[h], dead) ELSE games[h]]
    BY DEF KillClient
  <2>2. ASSUME NEW h \in GameSlots, h # g
        PROVE  Without(games[h], dead) = games[h]
    <3>1. games[h] \in Game
      BY DEF ServerInv, Good, Typed
    <3>2. \A x \in Seats : games[h].players[x] \notin dead
      BY <1>2, <2>2, NetServerAssumption DEF ServerInv, Good, SeatedAreIn
    <3>3. \/ games[h] = FreeGame
          \/ \E x \in Seats : games[h].players[x] # NoClient
      BY DEF ServerInv, Good, PlayedOrFree
    <3>4. NoClient \notin dead
      BY <1>2, NetServerAssumption
    <3> HIDE DEF dead
    <3> QED BY <3>1, <3>2, <3>3, <3>4, WithoutOthers
  <2> QED BY <2>1, <2>2 DEF GamesWithout
<1>4. /\ clients' = ClientsWithout(clients, dead)
      /\ input' = SentWithout(input, dead)
      /\ gone' \subseteq Clients
      /\ lag' = [d \in Clients |-> IF d \in dead THEN 0 ELSE lag[d]]
  BY DEF ServerInv, KillClient, Given, Forgotten, ClientsWithout, SentWithout
<1> HIDE DEF dead
<1>5. Good(clients', games', input')
  BY <1>2, <1>3, <1>4, RemovalKeeps DEF ServerInv
<1>6. lag' = [d \in Clients |-> 0]
  BY <1>4 DEF ServerInv
<1> QED BY <1>4, <1>5, <1>6

\* A game with these players only is destroyed without them.
LEMMA WithoutAll ==
  ASSUME NEW game \in Game, NEW dead, \A x \in Seats : game.players[x] \in dead \cup {NoClient}
  PROVE  Without(game, dead) = FreeGame
BY DEF Without

\* The entry a login is for: the game with the id, or a free one if there is
\* no such game.
LEMMA GameForIsThere ==
  ASSUME Good(clients, games, input), NEW c \in Clients, clients[c].game = NoGame,
         NEW id \in Ids
  PROVE  /\ GameFor(id) \in GameSlots
         /\ \/ games[GameFor(id)].id = id
            \/ games[GameFor(id)] = FreeGame /\ \A k \in GameSlots : games[k].id # id
<1> DEFINE same == {g \in GameSlots : games[g].id = id}
           free == {g \in GameSlots : games[g].id = NoId}
<1>1. CASE same # {}
  <2>1. First(same) \in same
    BY <1>1, FirstIsThere, NetServerAssumption
  <2> QED BY <1>1, <2>1 DEF GameFor
<1>2. CASE same = {}
  <2>1. free # {}
    BY EntryIsFree
  <2>2. First(free) \in free
    BY <2>1, FirstIsThere, NetServerAssumption
  <2> QED BY <1>2, <2>2 DEF GameFor, Good, PlayedOrFree
<1> QED BY <1>1, <1>2

\* Whoever AddClientToGame turns out to be gone was in the game.
LEMMA AskedAreGone ==
  ASSUME NEW g
  PROVE  AfterRequest(g) \subseteq GoneFrom(g)
BY DEF AfterRequest

LEMMA LoginKeeps ==
  ASSUME ServerInv, NEW c \in Clients, NEW id \in Ids, NEW n \in Seats, Login(c, id, n)
  PROVE  /\ Good(clients, games, input)'
         /\ lag' = [d \in Clients |-> 0]
         /\ gone' \subseteq Clients
         /\ server' \in {"up", "removed entry read"}
<1> DEFINE g == GameFor(id)
           asked == AfterRequest(g)
           left == Without(games[g], asked)
           h == IF left.id # NoId THEN g
                ELSE First({g} \cup {k \in GameSlots : games[k].id = NoId})
           game == IF left.id # NoId THEN left ELSE [FreeGame EXCEPT !.id = id]
           seats == FirstFree(game, n)
           fits == Cardinality(seats) = n
           dead == IF fits THEN GoneFrom(g) \cup ({c} \cap gone) ELSE asked \cup {c}
           cs1 == ClientsWithout(clients, asked)
           gs1 == GamesWithout(games, asked)
           sent1 == SentWithout(input, asked)
<1>1. /\ clients' = [d \in Clients |->
                       IF d \in dead THEN Free
                       ELSE IF d = c THEN [receive |-> "update", game |-> h, localplayers |-> n]
                       ELSE clients[d]]
      /\ games' = [games EXCEPT
                     ![g] = left,
                     ![h] = Without(IF fits THEN Seated(game, c, seats) ELSE game, dead)]
      /\ input' = [d \in Clients |-> IF d \in dead THEN <<>> ELSE input[d]]
      /\ gone' = gone \ dead
      /\ lag' = [d \in Clients |-> IF d \in dead THEN 0 ELSE lag[d]]
      /\ server' \in {"up", "removed entry read"}
      /\ clients[c].receive = "login"
  BY DEF Login, Forgotten
<1>2. lag' = [d \in Clients |-> 0] /\ gone' \subseteq Clients
  BY <1>1 DEF ServerInv
<1>3. Good(clients, games, input) /\ clients[c].game = NoGame
  BY <1>1 DEF ServerInv, Good, Typed
<1>4. /\ g \in GameSlots
      /\ \/ games[g].id = id
         \/ games[g] = FreeGame /\ \A k \in GameSlots : games[k].id # id
  BY <1>3, GameForIsThere
<1>5. /\ asked \subseteq GoneFrom(g)
      /\ GoneFrom(g) \subseteq Clients
      /\ \A d \in GoneFrom(g) : clients[d].game = g
  BY <1>3, <1>4, AskedAreGone, GoneAreIn DEF ServerInv
<1>6. Good(cs1, gs1, sent1)
  <2>1. asked \subseteq Clients
    BY <1>5
  <2> HIDE DEF asked
  <2> QED BY <1>3, <2>1, RemovalKeeps
<1>7. c \notin GoneFrom(g) /\ cs1[c] = clients[c]
  BY <1>3, <1>4, <1>5, NetServerAssumption DEF ClientsWithout
<1>8. /\ gs1[g] = left
      /\ \A k \in GameSlots : k # g => gs1[k] = games[k]
  <2>1. [games EXCEPT ![g] = left] = gs1
    BY <1>3, <1>4, <1>5, RemovedFromOne
  <2>2. games \in [GameSlots -> Game]
    BY <1>3 DEF Good, Typed
  <2> HIDE DEF gs1, left
  <2> QED BY <1>4, <2>1, <2>2
<1>9. \A k \in GameSlots : /\ gs1[k] \in Game
                           /\ \/ gs1[k] = FreeGame
                              \/ gs1[k].id # NoId /\ \E x \in Seats : gs1[k].players[x] # NoClient
  BY <1>6 DEF Good, Typed, PlayedOrFree
<1>10. left.id # NoId => left.id = id
  <2>1. games[g] \in Game
    BY <1>3, <1>4 DEF Good, Typed
  <2>2. left.id \in {NoId, games[g].id}
    BY <1>3, <1>4, <2>1 DEF Without, FreeGame, Game
  <2> QED BY <1>4, <2>2 DEF FreeGame
<1>11. ASSUME left.id = NoId
       PROVE  /\ h \in GameSlots /\ gs1[h] = FreeGame
              /\ \A k \in GameSlots : gs1[k].id # id
  <2> DEFINE open == {g} \cup {k \in GameSlots : games[k].id = NoId}
  <2>1. open \subseteq Nat /\ open # {}
    BY <1>4, NetServerAssumption
  <2>2. First(open) \in open
    <3> HIDE DEF open
    <3> QED BY <2>1, FirstIsThere
  <2>3. h = First(open)
    BY <1>11
  <2>4. h \in open
    <3> HIDE DEF open, h
    <3> QED BY <2>2, <2>3
  <2> HIDE DEF h, left, gs1
  <2>5. h \in GameSlots /\ gs1[h].id = NoId
    BY <1>4, <1>8, <1>11, <2>4
  <2>6. ASSUME NEW k \in GameSlots
        PROVE  gs1[k].id # id
    <3>1. CASE k = g
      BY <1>8, <1>11, <3>1, NetServerAssumption
    <3>2. CASE k # g
      BY <1>3, <1>4, <1>8, <3>2, NetServerAssumption DEF Good, IdsDiffer
    <3> QED BY <3>1, <3>2
  <2> QED BY <1>9, <2>5, <2>6
<1>12. h \in GameSlots
  BY <1>4, <1>11
<1>13. game \in Game
  <2>1. CASE left.id = NoId
    BY <2>1, FreeTypes DEF Game
  <2>2. CASE left.id # NoId
    <3> HIDE DEF left, gs1
    <3> QED BY <1>4, <1>8, <1>9, <2>2
  <2> QED BY <2>1, <2>2
<1>14. \/ game = gs1[h] /\ gs1[h].id # NoId
       \/ /\ gs1[h] = FreeGame
          /\ \E i \in Ids : /\ game = [FreeGame EXCEPT !.id = i]
                            /\ \A k \in GameSlots : gs1[k].id # i
  <2>1. CASE left.id = NoId
    BY <1>11, <2>1
  <2>2. CASE left.id # NoId
    BY <1>8, <2>2
  <2> QED BY <2>1, <2>2
<1>15. seats \subseteq Seats /\ \A x \in seats : game.players[x] = NoClient
  BY DEF FirstFree
<1>16. /\ games \in [GameSlots -> Game]
       /\ h # g => left = FreeGame
  <2>1. h # g => left.id = NoId
    OBVIOUS
  <2>2. left.id = NoId => left = FreeGame
    <3> HIDE DEF left, gs1
    <3> QED BY <1>4, <1>8, <1>9
  <2> QED BY <1>3, <2>1, <2>2 DEF Good, Typed
<1> HIDE DEF g, asked, left, h, game, seats, cs1, gs1, sent1
<1>17. CASE fits
  <2> DEFINE cs2 == ClientsWith(cs1, c, h, n)
             gs2 == GamesWith(gs1, h, game, c, seats)
  <2>1. Good(cs2, gs2, sent1)
    BY <1>3, <1>6, <1>7, <1>12, <1>13, <1>14, <1>15, <1>17, SeatingKeeps
  <2>2. dead = GoneFrom(g) \cup ({c} \cap gone)
    BY <1>17
  <2>3. dead \subseteq Clients /\ asked \subseteq dead
    BY <1>5, <2>2
  <2> HIDE DEF dead, fits
  <2>4. Good(ClientsWithout(cs2, dead), GamesWithout(gs2, dead), SentWithout(sent1, dead))
    <3> HIDE DEF cs2, gs2
    <3> QED BY <2>1, <2>3, RemovalKeeps
  <2>5. clients' = ClientsWithout(cs2, dead)
    <3>1. cs1 \in [Clients -> Entry] /\ DOMAIN cs1 = Clients
      BY <1>6 DEF Good, Typed
    <3>2. \A d \in Clients : d \notin asked => cs1[d] = clients[d]
      BY DEF cs1, ClientsWithout
    <3>3. ASSUME NEW d \in Clients
          PROVE  clients'[d] = ClientsWithout(cs2, dead)[d]
      <4>1. CASE d \in dead
        BY <1>1, <4>1 DEF ClientsWithout
      <4>2. CASE d \notin dead /\ d = c
        BY <1>1, <3>1, <4>2 DEF ClientsWithout, ClientsWith
      <4>3. CASE d \notin dead /\ d # c
        <5>1. ClientsWithout(cs2, dead)[d] = cs1[d]
          BY <3>1, <4>3 DEF ClientsWithout, ClientsWith
        <5> QED BY <1>1, <2>3, <3>2, <4>3, <5>1
      <4> QED BY <4>1, <4>2, <4>3
    <3>4. clients' = [d \in Clients |-> clients'[d]]
      BY <1>1
    <3>5. ClientsWithout(cs2, dead) = [d \in Clients |-> ClientsWithout(cs2, dead)[d]]
      BY DEF ClientsWithout
    <3> QED BY <3>3, <3>4, <3>5
  <2>6. games' = GamesWithout(gs2, dead)
    <3>1. gs1 \in [GameSlots -> Game]
      BY <1>6 DEF Good, Typed
    <3>2. /\ gs2[h] = Seated(game, c, seats)
          /\ \A k \in GameSlots : k # h => gs2[k] = gs1[k]
      BY <1>12, <3>1 DEF GamesWith
    <3>3. ASSUME NEW k \in GameSlots
          PROVE  games'[k] = Without(gs2[k], dead)
      <4>1. CASE k = h
        BY <1>1, <1>12, <1>16, <1>17, <3>2, <4>1
      <4>2. CASE k # h /\ k = g
        <5>1. games'[k] = left /\ gs2[k] = left /\ left = FreeGame
          BY <1>1, <1>4, <1>8, <1>16, <3>2, <4>2
        <5>2. Without(FreeGame, dead) = FreeGame
          BY FreeTypes, WithoutAll DEF FreeGame
        <5> QED BY <5>1, <5>2
      <4>3. CASE k # h /\ k # g
        <5>1. games'[k] = games[k] /\ gs2[k] = games[k]
          BY <1>1, <1>8, <1>16, <3>2, <4>3
        <5>2. \A x \in Seats : games[k].players[x] \notin dead
          BY <1>3, <1>5, <2>2, <4>3, NetServerAssumption DEF Good, SeatedAreIn
        <5>3. \/ games[k] = FreeGame
              \/ \E x \in Seats : games[k].players[x] # NoClient
          BY <1>3 DEF Good, PlayedOrFree
        <5>4. games[k] \in Game /\ NoClient \notin dead
          BY <1>16, <2>3, NetServerAssumption
        <5> QED BY <5>1, <5>2, <5>3, <5>4, WithoutOthers
      <4> QED BY <4>1, <4>2, <4>3
    <3>4. games' = [k \in GameSlots |-> games'[k]]
      BY <1>1, <1>16
    <3> QED BY <3>3, <3>4 DEF GamesWithout
  <2>7. input' = SentWithout(sent1, dead)
    BY <1>1, <2>3 DEF SentWithout, sent1
  <2> HIDE DEF cs2, gs2
  <2>8. Good(clients', games', input')
    BY <2>4, <2>5, <2>6, <2>7
  <2> QED BY <1>1, <1>2, <2>8
<1>18. CASE ~ fits
  <2>1. dead = asked \cup {c}
    BY <1>18
  <2> HIDE DEF dead, fits
  <2>2. Good(ClientsWithout(cs1, {c}), GamesWithout(gs1, {c}), SentWithout(sent1, {c}))
    BY <1>6, RemovalKeeps
  <2>3. \A k \in GameSlots, x \in Seats : gs1[k].players[x] \notin dead
    <3>1. ASSUME NEW k \in GameSlots, NEW x \in Seats, gs1[k].players[x] \in dead
          PROVE  FALSE
      <4>1. gs1[k].players[x] # NoClient
        BY <1>5, <2>1, <3>1, NetServerAssumption
      <4>2. gs1[k].players[x] \notin asked
        <5>1. games[k] \in Game
          BY <1>16
        <5>2. gs1[k].players[x] =
                IF games[k].players[x] \in asked THEN NoClient ELSE games[k].players[x]
          BY <5>1, WithoutPlayers DEF gs1, GamesWithout
        <5> QED BY <4>1, <5>2
      <4>3. gs1[k].players[x] = c
        BY <2>1, <3>1, <4>2
      <4>4. cs1[c].game = k
        BY <1>6, <4>1, <4>3 DEF Good, SeatedAreIn
      <4> QED BY <1>3, <1>7, <4>4, NetServerAssumption
    <3> QED BY <3>1
  <2>4. NoClient \notin dead
    BY <1>5, <2>1, NetServerAssumption
  <2>5. GamesWithout(gs1, {c}) = gs1
    <3>1. \A k \in GameSlots : Without(gs1[k], {c}) = gs1[k]
      BY <1>9, <2>1, <2>3, <2>4, WithoutOthers
    <3> QED BY <1>6, <3>1 DEF GamesWithout, Good, Typed
  <2>6. clients' = ClientsWithout(cs1, {c})
    BY <1>1, <2>1 DEF ClientsWithout, cs1
  <2>7. input' = SentWithout(sent1, {c})
    BY <1>1, <2>1 DEF SentWithout, sent1
  <2>8. games' = gs1
    <3>1. ASSUME NEW k \in GameSlots
          PROVE  games'[k] = gs1[k]
      <4>1. CASE k = h
        <5>1. games'[k] = Without(game, dead)
          BY <1>1, <1>12, <1>16, <1>18, <4>1
        <5>2. CASE game = gs1[h]
          BY <1>9, <1>12, <2>3, <2>4, <4>1, <5>1, <5>2, WithoutOthers
        <5>3. CASE gs1[h] = FreeGame /\ \E i \in Ids : game = [FreeGame EXCEPT !.id = i]
          <6>1. \A x \in Seats : game.players[x] = NoClient
            BY <5>3 DEF FreeGame
          <6> QED BY <1>13, <4>1, <5>1, <5>3, <6>1, WithoutAll
        <5> QED BY <1>14, <5>2, <5>3
      <4>2. CASE k # h /\ k = g
        BY <1>1, <1>4, <1>8, <1>16, <4>2
      <4>3. CASE k # h /\ k # g
        BY <1>1, <1>8, <1>16, <4>3
      <4> QED BY <4>1, <4>2, <4>3
    <3>2. games' = [k \in GameSlots |-> games'[k]]
      BY <1>1, <1>16
    <3>3. gs1 = [k \in GameSlots |-> gs1[k]]
      BY DEF gs1, GamesWithout
    <3> QED BY <3>1, <3>2, <3>3
  <2>9. Good(clients', games', input')
    BY <2>2, <2>5, <2>6, <2>7, <2>8
  <2> QED BY <1>1, <1>2, <2>9
<1> QED BY <1>17, <1>18

\* A client whose entry waits for something else, and is in a game or in none
\* as before, changes nothing in the games.
LEMMA ReceiveKeeps ==
  ASSUME Good(clients, games, input), NEW c \in Clients,
         NEW receive \in {"loginlen", "login", "update", "commandlen", "command"},
         clients[c].game = NoGame <=> receive \in {"loginlen", "login"}
  PROVE  Good([clients EXCEPT ![c].receive = receive], games, input)
<1> DEFINE cs == [clients EXCEPT ![c].receive = receive]
<1>1. clients \in [Clients -> Entry]
  BY DEF Good, Typed
<1>2. /\ cs \in [Clients -> Entry]
      /\ \A d \in Clients : /\ cs[d].game = clients[d].game
                            /\ cs[d].localplayers = clients[d].localplayers
                            /\ cs[d].receive = IF d = c THEN receive ELSE clients[d].receive
  BY <1>1 DEF Entry
<1> HIDE DEF cs
<1>3. Typed(cs, games, input)
  BY <1>2 DEF Good, Typed
<1>4. SeatedAreIn(cs, games)
  <2>1. \A g \in GameSlots, x \in Seats : games[g].players[x] \in Clients \cup {NoClient}
    BY DEF Good, Typed, Game
  <2> QED BY <1>2, <2>1 DEF Good, SeatedAreIn
<1>5. InAreSeated(cs, games)
  BY <1>2 DEF Good, InAreSeated
<1>6. SentOnce(cs, games)
  <2>1. SentOnce(clients, games)
    BY DEF Good
  <2>2. \A d \in Clients : cs[d].game = clients[d].game
    BY <1>2
  <2> QED BY <2>1, <2>2 DEF SentOnce
<1>7. Pressed(cs, games, input)
  BY <1>2 DEF Good, Pressed
<1> QED BY <1>3, <1>4, <1>5, <1>6, <1>7 DEF Good, cs

\* The buttons a client sends end up in its own seats.
LEMMA UpdateDataKeeps ==
  ASSUME ServerInv, NEW c \in Clients,
         NEW buttons \in [1..clients[c].localplayers -> Inputs], UpdateData(c, buttons)
  PROVE  Good(clients, games, input)'
<1> DEFINE h == clients[c].game
           seats == SeatsOf(c, h)
           pressed == SetInput(c, buttons)
<1>1. Good(clients, games, input) /\ h \in GameSlots
  BY DEF ServerInv, Good, Typed, Entry, UpdateData
<1>2. /\ clients' = clients
      /\ games' = [games EXCEPT ![h].joybuf = pressed]
      /\ input' = [input EXCEPT ![c] = buttons]
  BY DEF UpdateData
<1>3. Cardinality(seats) = clients[c].localplayers /\ IsFiniteSet(seats)
  <2>1. seats = Taken(games, c, h)
    BY DEF SeatsOf, Taken
  <2>2. seats \subseteq Seats
    BY DEF SeatsOf
  <2> QED BY <1>1, <2>1, <2>2, SeatsFinite DEF Good, InAreSeated
<1>4. ASSUME NEW x \in seats
      PROVE  Cardinality({y \in seats : y <= x}) \in 1..clients[c].localplayers
  <2> DEFINE upto == {y \in seats : y <= x}
  <2>1. upto \subseteq seats
    OBVIOUS
  <2>2. x \in upto
    BY <1>4, NetServerAssumption DEF SeatsOf, Seats
  <2> HIDE DEF upto, seats
  <2>3. IsFiniteSet(upto) /\ Cardinality(upto) <= clients[c].localplayers
    BY <1>3, <2>1, FS_Subset
  <2>4. Cardinality(upto) \in Nat /\ Cardinality(upto) # 0
    BY <2>2, <2>3, FS_CardinalityType, FS_EmptySet
  <2>5. clients[c].localplayers \in Nat
    BY <1>1, NetServerAssumption DEF Good, Typed, Entry
  <2> QED BY <2>3, <2>4, <2>5 DEF upto
<1>5. /\ pressed \in [Seats -> Inputs]
      /\ \A x \in Seats :
           pressed[x] = IF x \in seats THEN buttons[Cardinality({y \in seats : y <= x})]
                        ELSE games[h].joybuf[x]
  <2>1. \A x \in Seats : games[h].joybuf[x] \in Inputs
    BY <1>1 DEF Good, Typed, Game
  <2>2. \A x \in seats : buttons[Cardinality({y \in seats : y <= x})] \in Inputs
    BY <1>4
  <2>3. pressed = [x \in Seats |->
                     IF x \in seats THEN buttons[Cardinality({y \in seats : y <= x})]
                     ELSE games[h].joybuf[x]]
    BY DEF SetInput
  <2> HIDE DEF seats, pressed
  <2> QED BY <2>1, <2>2, <2>3
<1> HIDE DEF pressed
<1>6. /\ games' \in [GameSlots -> Game]
      /\ \A g \in GameSlots :
           /\ games'[g].players = games[g].players /\ games'[g].unique = games[g].unique
           /\ games'[g].id = games[g].id
           /\ games'[g].joybuf = IF g = h THEN pressed ELSE games[g].joybuf
           /\ g # h => games'[g] = games[g]
  <2>1. games \in [GameSlots -> Game] /\ pressed \in [Seats -> Inputs]
    BY <1>1, <1>5 DEF Good, Typed
  <2>2. games' = [games EXCEPT ![h] = [games[h] EXCEPT !.joybuf = pressed]]
    BY <1>2
  <2>3. /\ [games[h] EXCEPT !.joybuf = pressed] \in Game
        /\ [games[h] EXCEPT !.joybuf = pressed].players = games[h].players
        /\ [games[h] EXCEPT !.joybuf = pressed].unique = games[h].unique
        /\ [games[h] EXCEPT !.joybuf = pressed].id = games[h].id
        /\ [games[h] EXCEPT !.joybuf = pressed].joybuf = pressed
    BY <1>1, <2>1 DEF Game
  <2> DEFINE changed == [games[h] EXCEPT !.joybuf = pressed]
  <2> HIDE DEF changed
  <2>4. games' \in [GameSlots -> Game]
    BY <1>1, <2>1, <2>2, <2>3 DEF changed
  <2>5. games'[h] = changed /\ \A g \in GameSlots : g # h => games'[g] = games[g]
    BY <1>1, <2>1, <2>2 DEF changed
  <2>6. /\ changed.players = games[h].players /\ changed.unique = games[h].unique
        /\ changed.id = games[h].id /\ changed.joybuf = pressed
    BY <2>3 DEF changed
  <2> QED BY <2>4, <2>5, <2>6
<1>7. \A d \in Clients, g \in GameSlots : Taken(games', d, g) = Taken(games, d, g)
  BY <1>6 DEF Taken
<1>8. /\ DOMAIN input = Clients
      /\ input'[c] = buttons /\ DOMAIN input' = Clients
      /\ \A d \in Clients : d # c => input'[d] = input[d]
  BY <1>1, <1>2 DEF Good, Typed
<1>9. Typed(clients, games', input')
  BY <1>1, <1>6, <1>8 DEF Good, Typed
<1>10. SeatedAreIn(clients, games')
  BY <1>1, <1>6 DEF Good, SeatedAreIn
<1>11. InAreSeated(clients, games')
  BY <1>1, <1>7 DEF Good, InAreSeated
<1>12. PlayedOrFree(games')
  <2>1. games[h].id # NoId /\ \E x \in Seats : games[h].players[x] # NoClient
    <3>1. SentOnce(clients, games)
      BY <1>1 DEF Good
    <3>2. PICK x \in Taken(games, c, h) : TRUE
      BY <1>1, <3>1 DEF SentOnce
    <3>3. x \in Seats /\ games[h].players[x] # NoClient
      BY <3>2, NetServerAssumption DEF Taken
    <3>4. games[h] # FreeGame
      BY <3>3 DEF FreeGame
    <3> QED BY <1>1, <3>3, <3>4 DEF Good, PlayedOrFree
  <2> QED BY <1>1, <1>6, <2>1 DEF Good, PlayedOrFree
<1>13. IdsDiffer(games')
  BY <1>1, <1>6 DEF Good, IdsDiffer
<1>14. SentOnce(clients, games')
  <2> SUFFICES ASSUME NEW d \in Clients, NEW g \in GameSlots, clients[d].game = g
               PROVE  \E x \in Taken(games', d, g) :
                        \A y \in Taken(games', d, g) : games'[g].unique[y] <=> y = x
    BY DEF SentOnce
  <2>1. SentOnce(clients, games)
    BY <1>1 DEF Good
  <2>2. \E x \in Taken(games, d, g) : \A y \in Taken(games, d, g) : games[g].unique[y] <=> y = x
    BY <2>1 DEF SentOnce
  <2>3. Taken(games', d, g) = Taken(games, d, g) /\ games'[g].unique = games[g].unique
    BY <1>6, <1>7
  <2> QED BY <2>2, <2>3
<1>15. Pressed(clients, games', input')
  <2> SUFFICES ASSUME NEW d \in Clients, NEW g \in GameSlots, clients[d].game = g,
                      input'[d] # <<>>, NEW x \in Taken(games', d, g)
               PROVE  games'[g].joybuf[x] =
                        input'[d][Cardinality({y \in Taken(games', d, g) : y <= x})]
    BY DEF Pressed
  <2>1. /\ Taken(games', d, g) = Taken(games, d, g)
        /\ x \in Taken(games, d, g) /\ x \in Seats
    BY <1>7 DEF Taken
  <2>2. CASE d = c
    <3>1. g = h /\ Taken(games, d, g) = seats
      BY <2>2 DEF SeatsOf, Taken
    <3> HIDE DEF seats
    <3> QED BY <1>5, <1>6, <1>8, <2>1, <2>2, <3>1
  <2>3. CASE d # c
    <3>1. Pressed(clients, games, input) /\ input[d] # <<>> /\ input'[d] = input[d]
      BY <1>1, <1>8, <2>3 DEF Good
    <3>2. games[g].joybuf[x] = input[d][Cardinality({y \in Taken(games, d, g) : y <= x})]
      BY <2>1, <3>1 DEF Pressed
    <3>3. games'[g].joybuf[x] = games[g].joybuf[x]
      <4>1. g = h => x \notin seats
        BY <2>1, <2>3 DEF Taken, SeatsOf
      <4> HIDE DEF seats
      <4> QED BY <1>5, <1>6, <2>1, <4>1
    <3> QED BY <2>1, <3>1, <3>2, <3>3
  <2> QED BY <2>2, <2>3
<1> QED BY <1>2, <1>9, <1>10, <1>11, <1>12, <1>13, <1>14, <1>15 DEF Good

LEMMA InitGood == Init => ServerInv
<1> SUFFICES ASSUME Init PROVE ServerInv
  OBVIOUS
<1>1. \A g \in GameSlots, x \in Seats : games[g].players[x] = NoClient
  BY DEF Init, FreeGame
<1>2. \A c \in Clients : clients[c] = Free /\ input[c] = <<>>
  BY DEF Init
<1>3. Typed(clients, games, input)
  BY FreeTypes DEF Init, Typed, Free
<1>4. SeatedAreIn(clients, games)
  BY <1>1 DEF SeatedAreIn
<1>5. \A c \in Clients, g \in GameSlots : clients[c].game # g
  BY <1>2, NetServerAssumption DEF Free
<1>6. InAreSeated(clients, games) /\ SentOnce(clients, games) /\ Pressed(clients, games, input)
  BY <1>5 DEF InAreSeated, SentOnce, Pressed
<1>7. PlayedOrFree(games) /\ IdsDiffer(games)
  BY DEF Init, PlayedOrFree, IdsDiffer, FreeGame
<1> QED BY <1>3, <1>4, <1>6, <1>7 DEF Init, ServerInv, Good

LEMMA NextKeeps == ServerInv /\ [Next]_vars => ServerInv'
<1> SUFFICES ASSUME ServerInv, [Next]_vars PROVE ServerInv'
  OBVIOUS
<1> USE DEF ServerInv
<1>1. ASSUME NEW c \in Clients, Accept(c)
      PROVE  ServerInv'
  <2>1. clients[c].game = NoGame
    BY <1>1 DEF Accept, Good, Typed
  <2>2. Good([clients EXCEPT ![c].receive = "loginlen"], games, input)
    BY <2>1, ReceiveKeeps
  <2> QED BY <1>1, <2>2 DEF Accept
<1>2. ASSUME NEW c \in Clients, PeerGone(c)
      PROVE  ServerInv'
  BY <1>2 DEF PeerGone
<1>3. ASSUME NEW c \in Clients, LoginTimeout(c) \/ Rejected(c)
      PROVE  ServerInv'
  BY <1>3, KillClientKeeps DEF LoginTimeout, Rejected
<1>4. ASSUME NEW c \in Clients, LoginLen(c)
      PROVE  ServerInv'
  <2>1. clients[c].game = NoGame
    BY <1>4 DEF LoginLen, Good, Typed
  <2>2. Good([clients EXCEPT ![c].receive = "login"], games, input)
    BY <2>1, ReceiveKeeps
  <2> QED BY <1>4, <2>2 DEF LoginLen
<1>5. ASSUME NEW c \in Clients, CommandComes(c)
      PROVE  ServerInv'
  <2>1. clients[c].game # NoGame
    BY <1>5 DEF CommandComes, Good, Typed
  <2>2. Good([clients EXCEPT ![c].receive = "commandlen"], games, input)
    BY <2>1, ReceiveKeeps
  <2> QED BY <1>5, <2>2 DEF CommandComes
<1>6. ASSUME NEW c \in Clients, CommandLen(c)
      PROVE  ServerInv'
  <2>1. clients[c].game # NoGame
    BY <1>6 DEF CommandLen, Good, Typed
  <2>2. PICK receive \in {"command", "update"} :
          clients' = [clients EXCEPT ![c].receive = receive]
    BY <1>6 DEF CommandLen
  <2>3. Good([clients EXCEPT ![c].receive = receive], games, input)
    BY <2>1, ReceiveKeeps
  <2> QED BY <1>6, <2>2, <2>3 DEF CommandLen
<1>7. ASSUME NEW c \in Clients, Command(c)
      PROVE  ServerInv'
  <2>1. clients[c].game \in GameSlots
    BY <1>7 DEF Command, Good, Typed, Entry
  <2> QED BY <1>7, <2>1, SendToAllKeeps DEF Command
<1>8. ASSUME NEW c \in Clients, NEW id \in Ids, NEW n \in Seats, Login(c, id, n)
      PROVE  ServerInv'
  BY <1>8, LoginKeeps
<1>9. ASSUME NEW c \in Clients, NEW buttons \in [1..clients[c].localplayers -> Inputs],
             UpdateData(c, buttons)
      PROVE  ServerInv'
  BY <1>9, UpdateDataKeeps DEF UpdateData
<1>10. ASSUME NEW g \in GameSlots, Update(g)
       PROVE  ServerInv'
  BY <1>10, SendToAllKeeps DEF Update
<1>11. CASE UNCHANGED vars
  BY <1>11 DEF vars
<1> QED BY <1>1, <1>2, <1>3, <1>4, <1>5, <1>6, <1>7, <1>8, <1>9, <1>10, <1>11 DEF Next

LEMMA ServerInvariant == Spec => []ServerInv
BY InitGood, NextKeeps, PTL DEF Spec

-----------------------------------------------------------------------------
(* What follows. *)

\* Every reachable state of the server is well typed; an entry waits for a
\* login exactly as long as it is in no game.
THEOREM ServerTypeCorrect == Spec => []TypeOK
<1>1. ServerInv => TypeOK
  <2> SUFFICES ASSUME ServerInv PROVE TypeOK
    OBVIOUS
  <2>1. Typed(clients, games, input)
    BY DEF ServerInv, Good
  <2>2. /\ gone \subseteq Clients /\ lag \in [Clients -> Int]
        /\ server \in {"up", "removed entry read", "nothing to receive"}
    <3>1. lag = [c \in Clients |-> 0]
      BY DEF ServerInv
    <3>2. lag \in [Clients -> Int]
      BY <3>1
    <3> QED BY <3>2 DEF ServerInv
  <2>3. clients \in [Clients -> Entry] /\ games \in [GameSlots -> Game]
    BY <2>1 DEF Typed
  <2>4. \A c \in Clients :
          /\ clients[c].game = NoGame <=> clients[c].receive \in {"nothing", "loginlen", "login"}
          /\ clients[c].game = NoGame <=> clients[c].localplayers = 0
          /\ input[c] = <<>> \/ input[c] \in [1..clients[c].localplayers -> Inputs]
    BY <2>1 DEF Typed
  <2>5. clients \in [Clients -> [receive : {"nothing", "loginlen", "login", "update",
                                            "commandlen", "command"},
                               game : GameSlots \cup {NoGame}, localplayers : 0..MaxPlayers]]
    BY <2>3 DEF Entry
  <2>6. games \in [GameSlots ->
          [id : Ids \cup {NoId}, joybuf : [Seats -> Inputs],
           players : [Seats -> Clients \cup {NoClient}], unique : [Seats -> BOOLEAN]]]
    BY <2>3 DEF Game
  <2> QED BY <2>2, <2>4, <2>5, <2>6 DEF TypeOK
<1> QED BY <1>1, ServerInvariant, PTL

\* The table of clients and the table of games say the same, through every
\* KillClient in the middle of a broadcast or of a login.
THEOREM TablesAlwaysAgree == Spec => []TablesAgree
<1>1. ServerInv => TablesAgree
  <2> SUFFICES ASSUME ServerInv PROVE TablesAgree
    OBVIOUS
  <2>0. Good(clients, games, input)
    BY DEF ServerInv
  <2>1. SeatsAgree
    <3> SUFFICES ASSUME NEW c \in Clients, NEW g \in GameSlots
                 PROVE  Cardinality(SeatsOf(c, g)) =
                          IF clients[c].game = g THEN clients[c].localplayers ELSE 0
      BY DEF SeatsAgree
    <3>1. CASE clients[c].game = g
      BY <2>0, <3>1 DEF Good, InAreSeated, SeatsOf, Taken
    <3>2. CASE clients[c].game # g
      <4>1. SeatsOf(c, g) = {}
        BY <2>0, <3>2, NetServerAssumption DEF Good, SeatedAreIn, SeatsOf
      <4> QED BY <3>2, <4>1, FS_EmptySet
    <3> QED BY <3>1, <3>2
  <2>2. GamesPlayed
    <3> SUFFICES ASSUME NEW g \in GameSlots
                 PROVE  games[g].id = NoId <=> PlayersOf(g) = {}
      BY DEF GamesPlayed
    <3>1. PlayersOf(g) = {} <=> \A x \in Seats : games[g].players[x] = NoClient
      BY DEF PlayersOf
    <3>2. \/ games[g] = FreeGame
          \/ games[g].id # NoId /\ \E x \in Seats : games[g].players[x] # NoClient
      BY <2>0 DEF Good, PlayedOrFree
    <3>3. FreeGame.id = NoId /\ \A x \in Seats : FreeGame.players[x] = NoClient
      BY DEF FreeGame
    <3> QED BY <3>1, <3>2, <3>3
  <2> QED BY <2>1, <2>2 DEF TablesAgree
<1> QED BY <1>1, ServerInvariant, PTL

\* Two players who log in with the same id play the same game.
THEOREM SameIdSameGame == Spec => []OneGamePerId
<1>1. ServerInv => OneGamePerId
  BY DEF ServerInv, Good, IdsDiffer, OneGamePerId
<1> QED BY <1>1, ServerInvariant, PTL

\* Everybody in a game is sent everything it sends exactly once.
THEOREM SentTheSame == Spec => []InLockstep
<1>1. ServerInv => InLockstep
  BY DEF ServerInv, InLockstep
<1> QED BY <1>1, ServerInvariant, PTL

\* What a client sent last is in its own seats.
THEOREM InputArrives == Spec => []CarriesInput
<1>1. ServerInv => CarriesInput
  <2> SUFFICES ASSUME ServerInv, NEW c \in Clients, clients[c].game # NoGame, input[c] # <<>>
               PROVE  LET seats == SeatsOf(c, clients[c].game)
                      IN \A x \in seats : games[clients[c].game].joybuf[x] =
                           input[c][Cardinality({y \in seats : y <= x})]
    BY DEF CarriesInput
  <2>1. clients[c].game \in GameSlots
    BY DEF ServerInv, Good, Typed, Entry
  <2> QED BY <2>1 DEF ServerInv, Good, Pressed, SeatsOf, Taken
<1> QED BY <1>1, ServerInvariant, PTL

\* AddClientToGame finds an entry, which it does not check.
THEOREM LoginFindsEntry == Spec => []FreeGameForLogin
<1>1. ServerInv => FreeGameForLogin
  BY EntryIsFree DEF ServerInv, FreeGameForLogin, LoggingIn, Good, Typed
<1> QED BY <1>1, ServerInvariant, PTL

=============================================================================
