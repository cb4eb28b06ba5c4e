-------------------------------- MODULE Games -------------------------------
(***************************************************************************)
(* The game catalogue and its memberships: internal/server/{games,members} *)
(* over internal/store/{games,members}.go.                                 *)
(*                                                                         *)
(* A PATCH reads the game (and the seat), works out what the caller may do *)
(* in reads of their own, and writes the whole row back in a last          *)
(* statement; another request may commit between any two of them.  Only    *)
(* the insertion of a seat is a transaction of two statements, begun       *)
(* DEFERRED on a WAL database: it reads from the snapshot of its SELECT,   *)
(* and SQLite refuses its INSERT once anybody else has committed.          *)
(*                                                                         *)
(* requireAuth has run: a request knows its account and whether the row it *)
(* read was an admin's.  A refusal writes nothing and is Abort.  The       *)
(* description column follows name (without the UNIQUE) and is left out.   *)
(***************************************************************************)
EXTENDS Integers, FiniteSets

CONSTANTS
  Games, Accounts, Names,
  Requests,
  Callers,     \* <<account, admin>>: whom requireAuth may hand over
  MaxSeats,    \* bound on the seats of a game
  Moves,       \* the statuses clients ask for (bounds a run)
  Sights,      \* the visibilities clients ask for (bounds a run)
  None

Track == <<"draft", "recruiting", "active", "paused", "complete", "archived">>
Status == {Track[i] : i \in DOMAIN Track}
Rank(status) == CHOOSE i \in DOMAIN Track : Track[i] = status

SeatIds == 1 .. MaxSeats
GameRow == [name: Names, status: Status, visible: BOOLEAN]
Seat == [account: Accounts, gm: BOOLEAN, active: BOOLEAN]

ASSUME Parameters ==
  /\ Callers \subseteq Accounts \X BOOLEAN
  /\ MaxSeats \in Nat /\ Moves \subseteq Status /\ Sights \subseteq BOOLEAN
  /\ None \notin Games /\ None \notin Accounts /\ None \notin Names
  /\ None \notin Status /\ None \notin BOOLEAN /\ None \notin Int
  /\ None \notin GameRow /\ None \notin Seat

VARIABLES
  games,      \* the games table
  seats,      \* game_account_role: (game, player id) -> seat
  req,        \* the requests in flight
  fresh,      \* requests whose transaction still sees the latest commit
  appointed   \* history: <<game, account>> somebody entitled to made a GM

vars == <<games, seats, req, fresh, appointed>>

Blank == [pc |-> "idle", op |-> None, by |-> None, admin |-> FALSE,
          game |-> None, row |-> None, id |-> None, seat |-> None,
          manager |-> FALSE]

Request == [pc: {"idle", "seat", "authorize", "ready", "insert"},
            op: {"game", "add", "seat", None},
            by: Accounts \cup {None}, admin: BOOLEAN,
            game: Games \cup {None},
            row: GameRow \cup {None},            \* the game as it was read
            id: (1 .. MaxSeats + 1) \cup {None},
            seat: Seat \cup {None},              \* the seat as read, or to insert
            manager: BOOLEAN]                    \* an admin, or the game's active GM

Init ==
  /\ games = [g \in Games |-> None]
  /\ seats = [g \in Games |-> [n \in SeatIds |-> None]]
  /\ req = [r \in Requests |-> Blank]
  /\ fresh = {}
  /\ appointed = {}

-----------------------------------------------------------------------------
(* The store. *)

NameTaken(g, name) ==
  \E h \in Games \ {g} : games[h] # None /\ games[h].name = name

(* Every statement that commits makes older snapshots unfit for writing. *)
Commit == fresh' = {}

(* The UNIQUE name makes the UPDATE fail and leaves the table as it was. *)
UpdateGame(g, row) ==
  IF NameTaken(g, row.name)
  THEN UNCHANGED <<games, fresh>>
  ELSE games' = [games EXCEPT ![g] = row] /\ Commit

(* Mutant of SeatHeld: a dropped seat no longer counts. *)
SeatHeldActively(g, a) ==
  \E n \in SeatIds : seats[g][n] # None /\ seats[g][n].account = a /\ seats[g][n].active

SeatHeld(g, a) == \E n \in SeatIds : seats[g][n] # None /\ seats[g][n].account = a

CallerIsActiveGM(g, a) ==
  \E n \in SeatIds : seats[g][n] # None /\ seats[g][n].account = a
                       /\ seats[g][n].gm /\ seats[g][n].active

(* Mutant of NextSeatId: the number of active seats, plus one. *)
NextFreeSeat(g) ==
  1 + Cardinality({n \in SeatIds : seats[g][n] # None /\ seats[g][n].active})

(* One past the highest id ever used in the game: seats are never deleted. *)
NextSeatId(g) ==
  CHOOSE n \in 1 .. MaxSeats + 1 :
    /\ \A m \in SeatIds : seats[g][m] # None => m < n
    /\ n = 1 \/ seats[g][n - 1] # None

-----------------------------------------------------------------------------
Reply(r) == req' = [req EXCEPT ![r] = Blank] /\ fresh' = fresh \ {r}

Advance(r, q) == req' = [req EXCEPT ![r] = q]

Abort(r) ==
  /\ req[r].pc # "idle"
  /\ Reply(r)
  /\ UNCHANGED <<games, seats, appointed>>

(* POST /games: one INSERT; a game starts as a hidden draft. *)
CreateGame(r, c, g, name) ==
  /\ req[r].pc = "idle" /\ c[2]
  /\ games[g] = None /\ ~NameTaken(g, name)
  /\ games' = [games EXCEPT ![g] =
       [name |-> name, status |-> "draft", visible |-> FALSE]]
  /\ Commit
  /\ UNCHANGED <<seats, req, appointed>>

(* PATCH a game, POST a member, PATCH a member: all three read the game first. *)
ReadGame(r, c, op, g) ==
  /\ req[r].pc = "idle"
  /\ games[g] # None
  /\ Advance(r, [pc |-> IF op = "seat" THEN "seat" ELSE "authorize", op |-> op,
                  by |-> c[1], admin |-> c[2], game |-> g, row |-> games[g],
                  id |-> None, seat |-> None, manager |-> FALSE])
  /\ UNCHANGED <<games, seats, fresh, appointed>>

(* Mutant of ReadSeat: no test of the archived status. *)
ReadSeatOfAnyGame(r, n) ==
  /\ req[r].pc = "seat"
  /\ seats[req[r].game][n] # None
  /\ Advance(r, [req[r] EXCEPT !.pc = "authorize", !.id = n,
                               !.seat = seats[req[r].game][n]])
  /\ UNCHANGED <<games, seats, fresh, appointed>>

(* PATCH a member reads the seat next and stops if the game it read before is
   archived. *)
ReadSeat(r, n) ==
  /\ req[r].pc = "seat"
  /\ seats[req[r].game][n] # None
  /\ req[r].row.status # "archived"
  /\ Advance(r, [req[r] EXCEPT !.pc = "authorize", !.id = n,
                               !.seat = seats[req[r].game][n]])
  /\ UNCHANGED <<games, seats, fresh, appointed>>

(* The caller's authority; an admin's needs no read.  Only PATCH member goes on
   without it, since members may drop themselves. *)
Authorize(r) ==
  LET manager == req[r].admin \/ CallerIsActiveGM(req[r].game, req[r].by) IN
  /\ req[r].pc = "authorize"
  /\ manager \/ req[r].op = "seat"
  /\ Advance(r, [req[r] EXCEPT !.pc = "ready", !.manager = manager])
  /\ UNCHANGED <<games, seats, fresh, appointed>>

(* What the lifecycle allows, judged on the row that was read. *)
StatusMove(from, to, admin) ==
  \/ Rank(to) >= Rank(from)
  \/ admin /\ (from = "archived" \/ <<from, to>> = <<"paused", "active">>)

MayUpdate(q, name, status, visible) ==
  /\ <<name, status, visible>> # <<None, None, None>>
  /\ visible # None => q.admin /\ q.row.status # "archived"
  /\ name # None => q.row.status # "archived"
  /\ status # None => StatusMove(q.row.status, status, q.admin)

(* Mutant of Given: an omitted field is written as NULL. *)
GivenAlways(value, current) == IF value = None THEN None ELSE value

Given(value, current) == IF value = None THEN current ELSE value

(* PATCH /games/{id} writes all four columns back. *)
WriteGame(r, name, status, visible) ==
  LET q == req[r] IN
  /\ q.pc = "ready" /\ q.op = "game"
  /\ MayUpdate(q, name, status, visible)
  /\ UpdateGame(q.game, [name |-> Given(name, q.row.name),
                         status |-> Given(status, q.row.status),
                         visible |-> Given(visible, q.row.visible)])
  /\ Advance(r, Blank)
  /\ UNCHANGED <<seats, appointed>>

(* POST /games/{id}/members: the window, then the transaction's SELECT ... *)
MintSeatId(r, a, gm) ==
  LET q == req[r] IN
  /\ q.pc = "ready" /\ q.op = "add"
  /\ q.row.status # "archived"
  /\ q.row.status = "recruiting" \/ gm \/ q.admin
  /\ Advance(r, [q EXCEPT !.pc = "insert", !.id = NextSeatId(q.game),
                   !.seat = [account |-> a, gm |-> gm, active |-> TRUE]])
  /\ fresh' = fresh \cup {r}
  /\ UNCHANGED <<games, seats, appointed>>

(* ... and its INSERT, which keeps both keys of the table unique. *)
InsertSeat(r) ==
  LET q == req[r] IN
  /\ q.pc = "insert" /\ r \in fresh /\ q.id \in SeatIds
  /\ seats[q.game][q.id] = None /\ ~SeatHeld(q.game, q.seat.account)
  /\ seats' = [seats EXCEPT ![q.game][q.id] = q.seat]
  /\ appointed' = IF q.seat.gm /\ q.manager
                  THEN appointed \cup {<<q.game, q.seat.account>>} ELSE appointed
  /\ Commit
  /\ Advance(r, Blank)
  /\ UNCHANGED games

(* Mutant of WriteSeat: members may promote themselves. *)
WriteSeatUnchecked(r, active, promote) ==
  LET q == req[r] IN
  /\ q.pc = "ready" /\ q.op = "seat"
  /\ active # None \/ promote
  /\ active # None => q.manager \/ (~active /\ q.seat.account = q.by)
  /\ promote => q.manager \/ q.seat.account = q.by
  /\ seats' = [seats EXCEPT ![q.game][q.id] =
       [account |-> @.account, gm |-> promote \/ q.seat.gm,
        active |-> Given(active, q.seat.active)]]
  /\ appointed' = IF promote /\ q.manager
                  THEN appointed \cup {<<q.game, q.seat.account>>} ELSE appointed
  /\ Commit
  /\ Advance(r, Blank)
  /\ UNCHANGED games

(* Mutant of WriteSeat: a member may set his own isActive either way. *)
WriteSeatReactivating(r, active, promote) ==
  LET q == req[r] IN
  /\ q.pc = "ready" /\ q.op = "seat"
  /\ active # None \/ promote
  /\ active # None => q.manager \/ q.seat.account = q.by
  /\ promote => q.manager /\ (q.admin \/ q.row.status = "recruiting")
  /\ seats' = [seats EXCEPT ![q.game][q.id] =
       [account |-> @.account, gm |-> promote \/ q.seat.gm,
        active |-> Given(active, q.seat.active)]]
  /\ appointed' = IF promote /\ q.manager
                  THEN appointed \cup {<<q.game, q.seat.account>>} ELSE appointed
  /\ Commit
  /\ Advance(r, Blank)
  /\ UNCHANGED games

(* PATCH /games/{id}/members/{id}: drop, reactivate, promote.  Both flags are
   written back, the one the body leaves out as it was read. *)
WriteSeat(r, active, promote) ==
  LET q == req[r] IN
  /\ q.pc = "ready" /\ q.op = "seat"
  /\ active # None \/ promote
  /\ active # None => q.manager \/ (~active /\ q.seat.account = q.by)
  /\ promote => q.manager /\ (q.admin \/ q.row.status = "recruiting")
  /\ seats' = [seats EXCEPT ![q.game][q.id] =
       [account |-> @.account, gm |-> promote \/ q.seat.gm,
        active |-> Given(active, q.seat.active)]]
  /\ appointed' = IF promote /\ q.manager
                  THEN appointed \cup {<<q.game, q.seat.account>>} ELSE appointed
  /\ Commit
  /\ Advance(r, Blank)
  /\ UNCHANGED games

Step(r) ==
  \/ Abort(r)
  \/ \E c \in Callers, g \in Games :
       \/ \E name \in Names : CreateGame(r, c, g, name)
       \/ \E op \in {"game", "add", "seat"} : ReadGame(r, c, op, g)
  \/ \E n \in SeatIds : ReadSeat(r, n)
  \/ Authorize(r)
  \/ \E name \in Names \cup {None}, status \in Moves \cup {None},
        visible \in Sights \cup {None} : WriteGame(r, name, status, visible)
  \/ \E a \in Accounts, gm \in BOOLEAN : MintSeatId(r, a, gm)
  \/ InsertSeat(r)
  \/ \E active \in BOOLEAN \cup {None}, promote \in BOOLEAN : WriteSeat(r, active, promote)

Next == \E r \in Requests : Step(r)

Spec == Init /\ [][Next]_vars

-----------------------------------------------------------------------------
(* Properties. *)

(* Rows and requests have the shape of the Go structs and the columns. *)
TypeOK ==
  /\ games \in [Games -> GameRow \cup {None}]
  /\ seats \in [Games -> [SeatIds -> Seat \cup {None}]]
  /\ req \in [Requests -> Request]
  /\ fresh \subseteq Requests
  /\ appointed \subseteq Games \X Accounts

(* "Concurrent seatings cannot collide on a player_id" (store/members.go): when
   a transaction's INSERT may still commit, the id it drew is unused and is the
   next one, so a refused INSERT always means the account is seated already. *)
SeatingsNeverCollide ==
  \A r \in fresh :
    LET q == req[r] IN
    q.pc = "insert" /\ \A m \in SeatIds : m < q.id <=> seats[q.game][m] # None

(* The GM flag is only ever put on a seat by an admin or an active GM of that
   game, though every write of a seat writes the flag (members.go). *)
GMsAreAppointed ==
  \A g \in Games, n \in SeatIds :
    seats[g][n] # None /\ seats[g][n].gm => <<g, seats[g][n].account>> \in appointed

(* Somebody who is neither an admin nor was ever made a GM of the game changes
   nothing of it, except to drop his own seat: no stale authority or stale seat
   lets him reactivate or promote anybody, or edit the game. *)
OutsidersOnlyLeave ==
  [][\A r \in Requests :
       LET q == req[r] IN
       req'[r] # q /\ q.pc # "idle" /\ ~q.admin /\ <<q.game, q.by>> \notin appointed =>
         /\ games' = games
         /\ \A g \in Games, n \in SeatIds :
              seats'[g][n] # seats[g][n] =>
                /\ seats[g][n] # None /\ seats[g][n].account = q.by
                /\ seats'[g][n] = [seats[g][n] EXCEPT !.active = FALSE]]_vars

(* An archived game is frozen: only a request that read the row before it
   became what it is, or an admin's change of the status, touches it or its
   seats; the two later reads and the transaction add no other way in. *)
ArchivedIsFrozen ==
  [][\A g \in Games :
       games[g] # None /\ games[g].status = "archived"
         /\ (seats'[g] # seats[g] \/ games'[g] # games[g]) =>
           \E r \in Requests :
             /\ req'[r] # req[r] /\ req[r].game = g
             /\ \/ req[r].row # games[g]
                \/ /\ req[r].admin /\ seats'[g] = seats[g]
                   /\ games'[g] = [games[g] EXCEPT !.status = games'[g].status]]_vars

(* "Backward moves are rejected except the two admin-only exceptions"
   (games.go): no other step lowers a game's status. *)
ForwardOnly ==
  [][\A g \in Games, r \in Requests :
       games[g] # None /\ req'[r] # req[r] /\ ~req[r].admin =>
         Rank(games'[g].status) >= Rank(games[g].status)]_vars

(* The roster the seatings promise. *)
Roster == INSTANCE Roster WITH
  holder <- [g \in Games |-> [n \in SeatIds |->
               IF seats[g][n] = None THEN None ELSE seats[g][n].account]]

RosterSpec == Roster!Spec
=============================================================================
