----------------------------- MODULE GamesProofs ----------------------------
(* What TLAPS proves of Games, for any games, accounts and requests and any bound on the
   seats of a game. *)
EXTENDS Games, TLAPS

(* What a request knows at a given step, by what it has read and decided itself. *)
Wellformed(q) ==
  /\ q.pc # "idle" =>
       /\ q.game \in Games /\ q.by \in Accounts /\ q.row \in GameRow
       /\ q.op \in {"game", "add", "seat"}
  /\ q.pc = "seat" => q.op = "seat"
  /\ q.pc = "insert" =>
       q.op = "add" /\ q.seat \in Seat /\ q.id \in 1 .. MaxSeats + 1
         /\ q.row.status # "archived"
  /\ q.pc \in {"authorize", "ready"} /\ q.op = "seat" =>
       q.seat \in Seat /\ q.id \in SeatIds /\ q.row.status # "archived"
  /\ q.pc \in {"ready", "insert"} => q.manager \/ q.op = "seat"

(* What it may rely on, although the tables have moved on: a caller who managed the
   game then was made GM of it, the seat it read is still that account's, and a GM flag
   it read was put there by somebody entitled to. *)
Vouched(q) ==
  /\ q.pc \in {"ready", "insert"} /\ q.manager /\ ~q.admin => <<q.game, q.by>> \in appointed
  /\ q.pc \in {"authorize", "ready"} /\ q.op = "seat" =>
       /\ seats[q.game][q.id] # None
       /\ seats[q.game][q.id].account = q.seat.account
       /\ q.seat.gm => <<q.game, q.seat.account>> \in appointed

(* The seats of a game are numbered from 1 without a gap. *)
SeatsArePrefix ==
  \A g \in Games : \E k \in 0 .. MaxSeats : \A m \in SeatIds : seats[g][m] # None <=> m <= k

IInv ==
  /\ TypeOK
  /\ \A r \in Requests : Wellformed(req[r]) /\ Vouched(req[r])
  /\ SeatsArePrefix
  /\ SeatingsNeverCollide
  /\ GMsAreAppointed

-----------------------------------------------------------------------------
LEMMA Statuses ==
  /\ Status = {"draft", "recruiting", "active", "paused", "complete", "archived"}
  /\ \A s \in Status : Rank(s) >= Rank("archived") => s = "archived"
  <1>1. Status = {"draft", "recruiting", "active", "paused", "complete", "archived"}
    BY DEF Status, Track
  <1>2. /\ Rank("draft") = 1 /\ Rank("recruiting") = 2 /\ Rank("active") = 3
        /\ Rank("paused") = 4 /\ Rank("complete") = 5 /\ Rank("archived") = 6
    BY DEF Rank, Track
  <1> QED BY <1>1, <1>2

LEMMA BlankShape == Blank \in Request /\ Wellformed(Blank) /\ Vouched(Blank)
  BY DEF Blank, Request, Wellformed, Vouched

LEMMA RequestType ==
  ASSUME IInv, NEW r \in Requests
  PROVE  req[r] \in Request /\ Wellformed(req[r]) /\ Vouched(req[r])
  BY DEF IInv, TypeOK

LEMMA InitInv == Init => IInv
  <1> SUFFICES ASSUME Init PROVE IInv
    OBVIOUS
  <1>1. TypeOK
    BY BlankShape DEF Init, TypeOK
  <1>2. \A r \in Requests : Wellformed(req[r]) /\ Vouched(req[r])
    BY BlankShape DEF Init
  <1>3. SeatsArePrefix
    <2>1. 0 \in 0 .. MaxSeats /\ \A m \in SeatIds : ~(m <= 0)
      BY Parameters DEF SeatIds
    <2>2. \A g \in Games, m \in SeatIds : seats[g][m] = None
      BY DEF Init
    <2> QED BY <2>1, <2>2 DEF SeatsArePrefix
  <1> QED BY <1>1, <1>2, <1>3 DEF Init, IInv, SeatingsNeverCollide, GMsAreAppointed

(* The next id is one past the seats taken. *)
LEMMA NextSeatIdIsNext ==
  ASSUME IInv, NEW g \in Games
  PROVE  /\ NextSeatId(g) \in 1 .. MaxSeats + 1
         /\ \A m \in SeatIds : m < NextSeatId(g) <=> seats[g][m] # None
  <1>1. PICK k \in 0 .. MaxSeats : \A m \in SeatIds : seats[g][m] # None <=> m <= k
    BY DEF IInv, SeatsArePrefix
  <1> DEFINE P(n) == /\ \A m \in SeatIds : seats[g][m] # None => m < n
                     /\ n = 1 \/ seats[g][n - 1] # None
  <1>2. k + 1 \in 1 .. MaxSeats + 1 /\ P(k + 1)
    <2>1. \A m \in SeatIds : seats[g][m] # None => m < k + 1
      BY <1>1, Parameters DEF SeatIds
    <2>2. CASE k = 0
      BY <2>1, <2>2, Parameters
    <2>3. CASE k # 0
      <3>1. k \in SeatIds /\ (k + 1) - 1 = k
        BY <2>3, Parameters DEF SeatIds
      <3> QED BY <1>1, <2>1, <3>1, Parameters
    <2> QED BY <2>2, <2>3
  <1>3. NextSeatId(g) = CHOOSE n \in 1 .. MaxSeats + 1 : P(n)
    BY DEF NextSeatId
  <1> DEFINE n == NextSeatId(g)
  <1>4. n \in 1 .. MaxSeats + 1 /\ P(n)
    <2> HIDE DEF P
    <2> QED BY <1>2, <1>3
  <1> HIDE DEF n
  <1>5. n = k + 1
    <2>1. CASE n = 1
      <3>1. CASE k = 0
        BY <2>1, <3>1
      <3>2. CASE k # 0
        <4>1. k \in SeatIds
          BY <3>2, Parameters DEF SeatIds
        <4>2. k < n
          BY <1>1, <1>4, <4>1
        <4> QED BY <2>1, <3>2, <4>2
      <3> QED BY <3>1, <3>2
    <2>2. CASE n # 1
      <3>1. n - 1 \in SeatIds /\ seats[g][n - 1] # None
        BY <1>4, <2>2, Parameters DEF SeatIds
      <3>2. n - 1 <= k /\ k \in SeatIds
        BY <1>1, <3>1, Parameters DEF SeatIds
      <3>3. k < n
        BY <1>1, <1>4, <3>2
      <3> QED BY <1>4, <3>2, <3>3, Parameters
    <2> QED BY <2>1, <2>2
  <1>6. \A m \in SeatIds : m < n <=> seats[g][m] # None
    BY <1>1, <1>5, Parameters DEF SeatIds
  <1> QED BY <1>4, <1>6 DEF n

-----------------------------------------------------------------------------
(* The steps that only move a request on. *)
Authorized(q, manager) == [q EXCEPT !.pc = "ready", !.manager = manager]

WithSeat(q, pc, n, seat) == [q EXCEPT !.pc = pc, !.id = n, !.seat = seat]

LEMMA AuthorizedType ==
  ASSUME NEW q \in Request, NEW manager \in BOOLEAN
  PROVE  LET p == Authorized(q, manager) IN
         /\ p \in Request /\ p.pc = "ready" /\ p.manager = manager
         /\ p.op = q.op /\ p.by = q.by /\ p.admin = q.admin /\ p.game = q.game
         /\ p.row = q.row /\ p.id = q.id /\ p.seat = q.seat
  <1> DEFINE p1 == [q EXCEPT !.pc = "ready"]
  <1>1. /\ p1 \in Request /\ p1.pc = "ready"
        /\ p1.op = q.op /\ p1.by = q.by /\ p1.admin = q.admin /\ p1.game = q.game
        /\ p1.row = q.row /\ p1.id = q.id /\ p1.seat = q.seat
    BY DEF Request
  <1> DEFINE p == [p1 EXCEPT !.manager = manager]
  <1>2. Authorized(q, manager) = p
    BY DEF Authorized
  <1> HIDE DEF p1
  <1> QED BY <1>1, <1>2 DEF Request

LEMMA WithSeatType ==
  ASSUME NEW q \in Request, NEW pc \in {"authorize", "insert"}, NEW n \in 1 .. MaxSeats + 1,
         NEW seat \in Seat
  PROVE  LET p == WithSeat(q, pc, n, seat) IN
         /\ p \in Request /\ p.pc = pc /\ p.id = n /\ p.seat = seat
         /\ p.op = q.op /\ p.by = q.by /\ p.admin = q.admin /\ p.game = q.game
         /\ p.row = q.row /\ p.manager = q.manager
  <1> DEFINE p1 == [q EXCEPT !.pc = pc]
  <1> DEFINE p2 == [p1 EXCEPT !.id = n]
  <1>1. /\ p1 \in Request /\ p1.pc = pc
        /\ p1.op = q.op /\ p1.by = q.by /\ p1.admin = q.admin /\ p1.game = q.game
        /\ p1.row = q.row /\ p1.manager = q.manager
    BY DEF Request
  <1> DEFINE p == [p2 EXCEPT !.seat = seat]
  <1>2. WithSeat(q, pc, n, seat) = p
    BY DEF WithSeat
  <1> HIDE DEF p1
  <1>3. /\ p2 \in Request /\ p2.pc = pc /\ p2.id = n
        /\ p2.op = p1.op /\ p2.by = p1.by /\ p2.admin = p1.admin /\ p2.game = p1.game
        /\ p2.row = p1.row /\ p2.manager = p1.manager
    BY <1>1 DEF Request
  <1> HIDE DEF p2
  <1> QED BY <1>1, <1>2, <1>3 DEF Request

(* A request that goes on while the tables stay as they are. *)
LEMMA AdvanceInv ==
  ASSUME IInv, NEW r \in Requests, req[r].pc # "insert", NEW q \in Request,
         Wellformed(q), Vouched(q), q.pc # "insert",
         Advance(r, q), UNCHANGED <<games, seats, fresh, appointed>>
  PROVE  IInv'
  <1>1. r \notin fresh
    BY DEF IInv, SeatingsNeverCollide
  <1>2. \A x \in Requests : req'[x] = IF x = r THEN q ELSE req[x]
    BY DEF IInv, TypeOK, Advance
  <1>3. TypeOK'
    BY DEF IInv, TypeOK, Advance
  <1>4. \A x \in Requests : Wellformed(req'[x]) /\ Vouched(req'[x])
    BY <1>2 DEF IInv
  <1>5. (\A x \in Requests : Wellformed(req[x]) /\ Vouched(req[x]))'
    BY <1>4 DEF Wellformed, Vouched
  <1>6. SeatingsNeverCollide'
    BY <1>1, <1>2 DEF IInv, TypeOK, SeatingsNeverCollide
  <1> QED BY <1>3, <1>5, <1>6 DEF IInv, SeatsArePrefix, GMsAreAppointed

LEMMA AbortInv ==
  ASSUME IInv, NEW r \in Requests, Abort(r)
  PROVE  IInv'
  <1>1. \A x \in Requests : req'[x] = IF x = r THEN Blank ELSE req[x]
    BY DEF IInv, TypeOK, Abort, Reply
  <1>2. TypeOK'
    BY BlankShape DEF IInv, TypeOK, Abort, Reply
  <1>3. (\A x \in Requests : Wellformed(req[x]) /\ Vouched(req[x]))'
    BY <1>1, BlankShape DEF IInv, Abort, Wellformed, Vouched
  <1>4. SeatingsNeverCollide'
    BY <1>1 DEF IInv, TypeOK, Abort, Reply, SeatingsNeverCollide
  <1> QED BY <1>2, <1>3, <1>4 DEF IInv, Abort, SeatsArePrefix, GMsAreAppointed

(* The steps of a PATCH or POST up to its write. *)
LEMMA ReadInv ==
  ASSUME IInv, NEW r \in Requests,
         \/ \E c \in Callers, g \in Games, op \in {"game", "add", "seat"} :
              ReadGame(r, c, op, g)
         \/ \E n \in SeatIds : ReadSeat(r, n)
         \/ Authorize(r)
  PROVE  IInv'
  <1> DEFINE q == req[r]
  <1>1. q \in Request /\ Wellformed(q) /\ Vouched(q)
    BY RequestType
  <1>2. ASSUME NEW c \in Callers, NEW g \in Games, NEW op \in {"game", "add", "seat"},
               ReadGame(r, c, op, g)
        PROVE  IInv'
    <2> DEFINE pc == IF op = "seat" THEN "seat" ELSE "authorize"
    <2> DEFINE p == [pc |-> pc, op |-> op, by |-> c[1], admin |-> c[2], game |-> g,
                     row |-> games[g], id |-> None, seat |-> None, manager |-> FALSE]
    <2>1. c[1] \in Accounts /\ c[2] \in BOOLEAN /\ games[g] \in GameRow
      BY <1>2, Parameters DEF ReadGame, IInv, TypeOK
    <2>2. pc \in {"seat", "authorize"} /\ (pc = "seat" <=> op = "seat")
      OBVIOUS
    <2>3. Advance(r, p) /\ q.pc = "idle" /\ UNCHANGED <<games, seats, fresh, appointed>>
      BY <1>2 DEF ReadGame
    <2> HIDE DEF pc
    <2>4. p \in Request
      BY <2>1, <2>2 DEF Request
    <2>5. Wellformed(p) /\ Vouched(p)
      BY <2>1, <2>2 DEF Wellformed, Vouched
    <2>6. p.pc # "insert"
      BY <2>2
    <2> HIDE DEF p
    <2> QED BY <2>3, <2>4, <2>5, <2>6, AdvanceInv
  <1>3. ASSUME NEW n \in SeatIds, ReadSeat(r, n) PROVE IInv'
    <2> DEFINE seat == seats[q.game][n]
    <2> DEFINE p == WithSeat(q, "authorize", n, seat)
    <2>1. /\ q.pc = "seat" /\ q.op = "seat" /\ q.game \in Games /\ q.row.status # "archived"
          /\ seat # None /\ Advance(r, p) /\ UNCHANGED <<games, seats, fresh, appointed>>
      BY <1>1, <1>3 DEF ReadSeat, WithSeat, Wellformed
    <2>2. seat \in Seat /\ n \in 1 .. MaxSeats + 1
      BY <2>1, Parameters DEF IInv, TypeOK, SeatIds
    <2>3. /\ p \in Request /\ p.pc = "authorize" /\ p.id = n /\ p.seat = seat
          /\ p.op = q.op /\ p.by = q.by /\ p.game = q.game /\ p.row = q.row
      BY <1>1, <2>2, WithSeatType
    <2>4. Wellformed(p) /\ Vouched(p)
      BY <1>1, <2>1, <2>2, <2>3 DEF Wellformed, Vouched, IInv, GMsAreAppointed
    <2> HIDE DEF p
    <2> QED BY <2>1, <2>3, <2>4, AdvanceInv
  <1>4. CASE Authorize(r)
    <2> DEFINE manager == q.admin \/ CallerIsActiveGM(q.game, q.by)
    <2> DEFINE p == Authorized(q, manager)
    <2>1. /\ q.pc = "authorize" /\ q.game \in Games /\ (manager \/ q.op = "seat")
          /\ Advance(r, p) /\ UNCHANGED <<games, seats, fresh, appointed>>
      BY <1>1, <1>4 DEF Authorize, Authorized, Wellformed
    <2>2. manager \in BOOLEAN
      BY <1>1, Zenon DEF Request
    <2>3. manager /\ ~q.admin => <<q.game, q.by>> \in appointed
      BY <2>1 DEF CallerIsActiveGM, IInv, GMsAreAppointed
    <2> HIDE DEF manager
    <2>4. /\ p \in Request /\ p.pc = "ready" /\ p.manager = manager /\ p.admin = q.admin
          /\ p.id = q.id /\ p.seat = q.seat
          /\ p.op = q.op /\ p.by = q.by /\ p.game = q.game /\ p.row = q.row
      BY <1>1, <2>2, AuthorizedType
    <2>5. Wellformed(p) /\ Vouched(p)
      BY <1>1, <2>1, <2>2, <2>3, <2>4 DEF Wellformed, Vouched
    <2> HIDE DEF p
    <2> QED BY <2>1, <2>4, <2>5, AdvanceInv
  <1> QED BY <1>2, <1>3, <1>4

(* Steps that change the games and leave the seats. *)
LEMMA CatalogInv ==
  ASSUME IInv, NEW r \in Requests,
         \/ \E c \in Callers, g \in Games, name \in Names : CreateGame(r, c, g, name)
         \/ \E name \in Names \cup {None}, status \in Moves \cup {None},
               visible \in Sights \cup {None} : WriteGame(r, name, status, visible)
  PROVE  IInv'
  <1> DEFINE q == req[r]
  <1>1. q \in Request /\ Wellformed(q) /\ Vouched(q)
    BY RequestType
  <1>2. ASSUME NEW c \in Callers, NEW g \in Games, NEW name \in Names,
               CreateGame(r, c, g, name)
        PROVE  IInv'
    <2> DEFINE row == [name |-> name, status |-> "draft", visible |-> FALSE]
    <2>1. row \in GameRow
      BY Statuses DEF GameRow
    <2>2. games' = [games EXCEPT ![g] = row] /\ fresh' = {} /\ UNCHANGED <<seats, req, appointed>>
      BY <1>2 DEF CreateGame, Commit
    <2> HIDE DEF row
    <2>3. TypeOK'
      BY <2>1, <2>2 DEF IInv, TypeOK
    <2> QED
      BY <2>2, <2>3
      DEF IInv, Wellformed, Vouched, SeatsArePrefix, SeatingsNeverCollide, GMsAreAppointed
  <1>3. ASSUME NEW name \in Names \cup {None}, NEW status \in Moves \cup {None},
               NEW visible \in Sights \cup {None}, WriteGame(r, name, status, visible)
        PROVE  IInv'
    <2> DEFINE row == [name |-> Given(name, q.row.name),
                       status |-> Given(status, q.row.status),
                       visible |-> Given(visible, q.row.visible)]
    <2>1. /\ q.pc = "ready" /\ q.game \in Games /\ q.row \in GameRow
          /\ UpdateGame(q.game, row) /\ Advance(r, Blank) /\ UNCHANGED <<seats, appointed>>
      BY <1>1, <1>3 DEF WriteGame, Wellformed
    <2>2. /\ Given(name, q.row.name) \in Names
          /\ Given(status, q.row.status) \in Status
          /\ Given(visible, q.row.visible) \in BOOLEAN
      BY <2>1, Parameters DEF Given, GameRow
    <2>3. row \in GameRow
      BY <2>2 DEF GameRow
    <2> HIDE DEF row
    <2>4. games' \in [Games -> GameRow \cup {None}] /\ (fresh' = fresh \/ fresh' = {})
      BY <2>1, <2>3 DEF UpdateGame, Commit, IInv, TypeOK
    <2>5. \A x \in Requests : req'[x] = IF x = r THEN Blank ELSE req[x]
      BY <2>1 DEF IInv, TypeOK, Advance
    <2>6. TypeOK'
      BY <2>1, <2>4, BlankShape DEF IInv, TypeOK, Advance
    <2>7. (\A x \in Requests : Wellformed(req[x]) /\ Vouched(req[x]))'
      BY <2>1, <2>5, BlankShape DEF IInv, Wellformed, Vouched
    <2>8. SeatingsNeverCollide'
      BY <2>1, <2>4, <2>5 DEF IInv, TypeOK, SeatingsNeverCollide
    <2> QED BY <2>1, <2>6, <2>7, <2>8 DEF IInv, SeatsArePrefix, GMsAreAppointed
  <1> QED BY <1>2, <1>3

(* The transaction's SELECT: its snapshot is the table, and the id the next one. *)
LEMMA MintInv ==
  ASSUME IInv, NEW r \in Requests, NEW a \in Accounts, NEW gm \in BOOLEAN,
         MintSeatId(r, a, gm)
  PROVE  IInv'
  <1> DEFINE q == req[r]
  <1> DEFINE n == NextSeatId(q.game)
  <1> DEFINE seat == [account |-> a, gm |-> gm, active |-> TRUE]
  <1> DEFINE p == WithSeat(q, "insert", n, seat)
  <1>1. q \in Request /\ Wellformed(q) /\ Vouched(q)
    BY RequestType
  <1>2. /\ q.pc = "ready" /\ q.op = "add" /\ q.game \in Games /\ q.row.status # "archived"
        /\ Advance(r, p) /\ fresh' = fresh \cup {r} /\ UNCHANGED <<games, seats, appointed>>
    BY <1>1 DEF MintSeatId, WithSeat, Wellformed
  <1>3. n \in 1 .. MaxSeats + 1 /\ \A m \in SeatIds : m < n <=> seats[q.game][m] # None
    BY <1>2, NextSeatIdIsNext
  <1>4. seat \in Seat
    BY DEF Seat
  <1> HIDE DEF n, seat
  <1>5. /\ p \in Request /\ p.pc = "insert" /\ p.id = n /\ p.seat = seat
        /\ p.op = q.op /\ p.by = q.by /\ p.admin = q.admin /\ p.game = q.game
        /\ p.row = q.row /\ p.manager = q.manager
    BY <1>1, <1>3, <1>4, WithSeatType
  <1> HIDE DEF p
  <1>6. Wellformed(p) /\ Vouched(p)
    BY <1>1, <1>2, <1>3, <1>4, <1>5 DEF Wellformed, Vouched
  <1>7. \A x \in Requests : req'[x] = IF x = r THEN p ELSE req[x]
    BY <1>2 DEF IInv, TypeOK, Advance
  <1>8. TypeOK'
    BY <1>2, <1>5 DEF IInv, TypeOK, Advance
  <1>9. (\A x \in Requests : Wellformed(req[x]) /\ Vouched(req[x]))'
    BY <1>2, <1>6, <1>7 DEF IInv, Wellformed, Vouched
  <1>10. SeatingsNeverCollide'
    BY <1>2, <1>3, <1>5, <1>7 DEF IInv, TypeOK, SeatingsNeverCollide
  <1> QED BY <1>2, <1>8, <1>9, <1>10 DEF IInv, SeatsArePrefix, GMsAreAppointed

(* What the transaction's INSERT does to the seats. *)
LEMMA InsertEffect ==
  ASSUME IInv, NEW r \in Requests, InsertSeat(r)
  PROVE  LET q == req[r] IN
         /\ q.game \in Games /\ q.id \in SeatIds /\ q.seat \in Seat /\ q.manager
         /\ seats[q.game][q.id] = None
         /\ \A m \in SeatIds : m < q.id <=> seats[q.game][m] # None
         /\ seats' \in [Games -> [SeatIds -> Seat \cup {None}]]
         /\ \A g \in Games, m \in SeatIds :
              seats'[g][m] = IF g = q.game /\ m = q.id THEN q.seat ELSE seats[g][m]
         /\ fresh' = {} /\ req' = [req EXCEPT ![r] = Blank] /\ games' = games
         /\ appointed \subseteq appointed' /\ appointed' \subseteq Games \X Accounts
         /\ q.seat.gm => <<q.game, q.seat.account>> \in appointed'
  <1> DEFINE q == req[r]
  <1>1. /\ q.pc = "insert" /\ q.game \in Games /\ q.id \in SeatIds /\ q.seat \in Seat
        /\ q.manager /\ r \in fresh /\ seats[q.game][q.id] = None
    BY RequestType DEF InsertSeat, Wellformed
  <1>2. /\ seats' = [seats EXCEPT ![q.game][q.id] = q.seat]
        /\ appointed' = IF q.seat.gm /\ q.manager
                        THEN appointed \cup {<<q.game, q.seat.account>>} ELSE appointed
        /\ fresh' = {} /\ req' = [req EXCEPT ![r] = Blank] /\ games' = games
    BY DEF InsertSeat, Commit, Advance
  <1>3. \A m \in SeatIds : m < q.id <=> seats[q.game][m] # None
    BY <1>1 DEF IInv, SeatingsNeverCollide
  <1>4. seats \in [Games -> [SeatIds -> Seat \cup {None}]] /\ appointed \subseteq Games \X Accounts
    BY DEF IInv, TypeOK
  <1>5. seats' \in [Games -> [SeatIds -> Seat \cup {None}]]
    BY <1>1, <1>2, <1>4
  <1>6. \A g \in Games, m \in SeatIds :
          seats'[g][m] = IF g = q.game /\ m = q.id THEN q.seat ELSE seats[g][m]
    BY <1>1, <1>2, <1>4
  <1>7. /\ appointed \subseteq appointed' /\ appointed' \subseteq Games \X Accounts
        /\ q.seat.gm => <<q.game, q.seat.account>> \in appointed'
    BY <1>1, <1>2, <1>4 DEF Seat
  <1> QED BY <1>1, <1>2, <1>3, <1>5, <1>6, <1>7

LEMMA InsertInv ==
  ASSUME IInv, NEW r \in Requests, InsertSeat(r)
  PROVE  IInv'
  <1> DEFINE q == req[r]
  <1>1. /\ q.game \in Games /\ q.id \in SeatIds /\ q.seat \in Seat /\ seats[q.game][q.id] = None
        /\ \A m \in SeatIds : m < q.id <=> seats[q.game][m] # None
        /\ seats' \in [Games -> [SeatIds -> Seat \cup {None}]]
        /\ \A g \in Games, m \in SeatIds :
             seats'[g][m] = IF g = q.game /\ m = q.id THEN q.seat ELSE seats[g][m]
        /\ fresh' = {} /\ req' = [req EXCEPT ![r] = Blank] /\ games' = games
        /\ appointed \subseteq appointed' /\ appointed' \subseteq Games \X Accounts
        /\ q.seat.gm => <<q.game, q.seat.account>> \in appointed'
    BY InsertEffect
  <1>2. q.seat # None
    BY <1>1, Parameters
  <1>3. TypeOK'
    BY <1>1, BlankShape DEF IInv, TypeOK
  <1>4. (\A x \in Requests : Wellformed(req[x]) /\ Vouched(req[x]))'
    <2> SUFFICES ASSUME NEW x \in Requests PROVE Wellformed(req'[x]) /\ Vouched(req[x])'
      BY DEF Wellformed
    <2>1. CASE x = r
      BY <1>1, <2>1, BlankShape DEF IInv, TypeOK, Blank, Vouched
    <2>2. CASE x # r
      <3>1. req'[x] = req[x] /\ Wellformed(req[x]) /\ Vouched(req[x])
        BY <1>1, <2>2 DEF IInv, TypeOK
      <3> QED BY <1>1, <3>1, SMTT(20) DEF Wellformed, Vouched
    <2> QED BY <2>1, <2>2
  <1>5. SeatsArePrefix'
    <2> SUFFICES ASSUME NEW g \in Games
                 PROVE  \E k \in 0 .. MaxSeats : \A m \in SeatIds : seats'[g][m] # None <=> m <= k
      BY DEF SeatsArePrefix
    <2>1. CASE g = q.game
      <3>1. \A m \in SeatIds : seats'[g][m] # None <=> m <= q.id
        BY <1>1, <1>2, <2>1, Parameters DEF SeatIds
      <3>2. q.id \in 0 .. MaxSeats
        BY <1>1, Parameters DEF SeatIds
      <3> QED BY <3>1, <3>2
    <2>2. CASE g # q.game
      BY <1>1, <2>2 DEF IInv, SeatsArePrefix
    <2> QED BY <2>1, <2>2
  <1>6. GMsAreAppointed'
    <2> SUFFICES ASSUME NEW g \in Games, NEW m \in SeatIds, seats'[g][m] # None, seats'[g][m].gm
                 PROVE  <<g, seats'[g][m].account>> \in appointed'
      BY DEF GMsAreAppointed
    <2>1. CASE g = q.game /\ m = q.id
      <3>1. seats'[g][m] = q.seat
        BY <1>1, <2>1
      <3> QED BY <1>1, <2>1, <3>1
    <2>2. CASE ~(g = q.game /\ m = q.id)
      <3>1. seats'[g][m] = seats[g][m]
        BY <1>1, <2>2
      <3> QED BY <1>1, <3>1 DEF IInv, GMsAreAppointed
    <2> QED BY <2>1, <2>2
  <1> QED BY <1>1, <1>3, <1>4, <1>5, <1>6 DEF IInv, SeatingsNeverCollide

(* What the UPDATE of a seat does: the seat stays its account's, and its flag is one
   that was vouched for. *)
LEMMA WriteSeatEffect ==
  ASSUME IInv, NEW r \in Requests, NEW active \in BOOLEAN \cup {None},
         NEW promote \in BOOLEAN, WriteSeat(r, active, promote)
  PROVE  LET q == req[r] IN
         /\ q.game \in Games /\ q.id \in SeatIds /\ q.seat \in Seat
         /\ seats[q.game][q.id] \in Seat /\ seats[q.game][q.id].account = q.seat.account
         /\ seats' \in [Games -> [SeatIds -> Seat \cup {None}]]
         /\ seats'[q.game][q.id] \in Seat
         /\ seats'[q.game][q.id].account = q.seat.account
         /\ seats'[q.game][q.id].gm <=> promote \/ q.seat.gm
         /\ seats'[q.game][q.id].active = Given(active, q.seat.active)
         /\ \A g \in Games, m \in SeatIds :
              g # q.game \/ m # q.id => seats'[g][m] = seats[g][m]
         /\ fresh' = {} /\ req' = [req EXCEPT ![r] = Blank] /\ games' = games
         /\ appointed \subseteq appointed' /\ appointed' \subseteq Games \X Accounts
         /\ seats'[q.game][q.id].gm => <<q.game, q.seat.account>> \in appointed'
  <1> DEFINE q == req[r]
  <1> DEFINE gm == promote \/ q.seat.gm
  <1> DEFINE on == Given(active, q.seat.active)
  <1> DEFINE seat == [account |-> q.seat.account, gm |-> gm, active |-> on]
  <1>1. /\ q.pc = "ready" /\ q.op = "seat" /\ q.game \in Games /\ q.id \in SeatIds /\ q.seat \in Seat
        /\ seats[q.game][q.id] # None /\ seats[q.game][q.id].account = q.seat.account
        /\ q.seat.gm => <<q.game, q.seat.account>> \in appointed
    BY RequestType DEF WriteSeat, Wellformed, Vouched
  <1>2. seats \in [Games -> [SeatIds -> Seat \cup {None}]] /\ appointed \subseteq Games \X Accounts
    BY DEF IInv, TypeOK
  <1>3. on \in BOOLEAN
    BY <1>1, Parameters DEF Given, Seat
  <1>4. gm \in BOOLEAN
    BY <1>1, Zenon DEF Seat
  <1>5. /\ seats' = [seats EXCEPT ![q.game][q.id] =
             [account |-> @.account, gm |-> gm, active |-> on]]
        /\ promote => q.manager
        /\ appointed' = IF promote /\ q.manager
                        THEN appointed \cup {<<q.game, q.seat.account>>} ELSE appointed
        /\ fresh' = {} /\ req' = [req EXCEPT ![r] = Blank] /\ games' = games
    BY DEF WriteSeat, Commit, Advance
  <1>6. /\ appointed \subseteq appointed' /\ appointed' \subseteq Games \X Accounts
        /\ gm => <<q.game, q.seat.account>> \in appointed'
    <2>1. q.seat.account \in Accounts
      BY <1>1 DEF Seat
    <2> QED BY <1>1, <1>2, <1>5, <2>1
  <1> HIDE DEF gm, on
  <1>7. seat \in Seat
    BY <1>1, <1>3, <1>4 DEF Seat
  <1>8. seats' = [seats EXCEPT ![q.game][q.id] = seat]
    BY <1>1, <1>2, <1>5
  <1> HIDE DEF seat
  <1>9. /\ seats' \in [Games -> [SeatIds -> Seat \cup {None}]] /\ seats'[q.game][q.id] = seat
        /\ \A g \in Games, m \in SeatIds :
             g # q.game \/ m # q.id => seats'[g][m] = seats[g][m]
    BY <1>1, <1>2, <1>7, <1>8
  <1>10. seats[q.game][q.id] \in Seat
    BY <1>1, <1>2
  <1>11. seat.account = q.seat.account /\ seat.gm = gm /\ seat.active = on
    BY DEF seat
  <1>12. gm <=> promote \/ q.seat.gm
    BY DEF gm
  <1> QED BY <1>1, <1>5, <1>6, <1>7, <1>9, <1>10, <1>11, <1>12 DEF on

LEMMA WriteSeatInv ==
  ASSUME IInv, NEW r \in Requests, NEW active \in BOOLEAN \cup {None},
         NEW promote \in BOOLEAN, WriteSeat(r, active, promote)
  PROVE  IInv'
  <1> DEFINE q == req[r]
  <1>1. /\ q.game \in Games /\ q.id \in SeatIds /\ q.seat \in Seat
        /\ seats[q.game][q.id] \in Seat /\ seats[q.game][q.id].account = q.seat.account
        /\ seats' \in [Games -> [SeatIds -> Seat \cup {None}]]
        /\ seats'[q.game][q.id] \in Seat /\ seats'[q.game][q.id].account = q.seat.account
        /\ \A g \in Games, m \in SeatIds :
             g # q.game \/ m # q.id => seats'[g][m] = seats[g][m]
        /\ fresh' = {} /\ req' = [req EXCEPT ![r] = Blank] /\ games' = games
        /\ appointed \subseteq appointed' /\ appointed' \subseteq Games \X Accounts
        /\ seats'[q.game][q.id].gm => <<q.game, q.seat.account>> \in appointed'
    BY WriteSeatEffect, SMTT(20)
  <1>2. \A g \in Games, m \in SeatIds :
          /\ seats'[g][m] = None <=> seats[g][m] = None
          /\ seats[g][m] # None => seats'[g][m].account = seats[g][m].account
    BY <1>1, Parameters
  <1>3. TypeOK'
    BY <1>1, BlankShape DEF IInv, TypeOK
  <1>4. (\A x \in Requests : Wellformed(req[x]) /\ Vouched(req[x]))'
    <2> SUFFICES ASSUME NEW x \in Requests PROVE Wellformed(req'[x]) /\ Vouched(req[x])'
      BY DEF Wellformed
    <2>1. CASE x = r
      BY <1>1, <2>1, BlankShape DEF IInv, TypeOK, Blank, Vouched
    <2>2. CASE x # r
      <3>1. req'[x] = req[x] /\ Wellformed(req[x]) /\ Vouched(req[x])
        BY <1>1, <2>2 DEF IInv, TypeOK
      <3>2. CASE req[x].pc \in {"authorize", "ready"} /\ req[x].op = "seat"
        <4> DEFINE g == req[x].game
        <4> DEFINE m == req[x].id
        <4>1. g \in Games /\ m \in SeatIds
          BY <3>1, <3>2 DEF Wellformed
        <4>2. seats'[g][m] # None /\ seats'[g][m].account = req[x].seat.account
          BY <1>2, <3>1, <3>2, <4>1 DEF Vouched
        <4> QED BY <1>1, <3>1, <3>2, <4>2 DEF Vouched
      <3>3. CASE ~(req[x].pc \in {"authorize", "ready"} /\ req[x].op = "seat")
        BY <1>1, <3>1, <3>3 DEF Vouched
      <3> QED BY <3>1, <3>2, <3>3
    <2> QED BY <2>1, <2>2
  <1>5. SeatsArePrefix'
    BY <1>2 DEF IInv, SeatsArePrefix
  <1>6. GMsAreAppointed'
    BY <1>1 DEF IInv, GMsAreAppointed
  <1> QED BY <1>1, <1>3, <1>4, <1>5, <1>6 DEF IInv, SeatingsNeverCollide

LEMMA Inductive == IInv /\ [Next]_vars => IInv'
  <1> SUFFICES ASSUME IInv, [Next]_vars PROVE IInv'
    OBVIOUS
  <1>1. CASE UNCHANGED vars
    BY <1>1
    DEF vars, IInv, TypeOK, Wellformed, Vouched, SeatsArePrefix, SeatingsNeverCollide,
        GMsAreAppointed
  <1>2. ASSUME NEW r \in Requests, Step(r) PROVE IInv'
    BY <1>2, AbortInv, ReadInv, CatalogInv, MintInv, InsertInv, WriteSeatInv DEF Step
  <1> QED BY <1>1, <1>2 DEF Next

LEMMA Invariant == Spec => []IInv
  BY InitInv, Inductive, PTL DEF Spec

-----------------------------------------------------------------------------
(* Rows and requests keep their shape. *)
THEOREM TypeCorrect == Spec => []TypeOK
  <1>1. IInv => TypeOK
    BY DEF IInv
  <1> QED BY <1>1, Invariant, PTL

(* Concurrent seatings never draw the same player id. *)
THEOREM PlayerIdsAreFresh == Spec => []SeatingsNeverCollide
  <1>1. IInv => SeatingsNeverCollide
    BY DEF IInv
  <1> QED BY <1>1, Invariant, PTL

(* Whoever carries the GM flag was made a GM by somebody entitled to, stale writes of
   the flag notwithstanding. *)
THEOREM FlagsAreEarned == Spec => []GMsAreAppointed
  <1>1. IInv => GMsAreAppointed
    BY DEF IInv
  <1> QED BY <1>1, Invariant, PTL

(* The steps that leave the seats alone. *)
LEMMA SeatSteps ==
  ASSUME IInv, NEW r \in Requests, Step(r)
  PROVE  \/ seats' = seats
         \/ InsertSeat(r)
         \/ \E active \in BOOLEAN \cup {None}, promote \in BOOLEAN : WriteSeat(r, active, promote)
  BY DEF Step, Abort, CreateGame, ReadGame, ReadSeat, Authorize, WriteGame, MintSeatId

(* No UPDATE of a seat gives it to another account. *)
LEMMA WriteSeatKeepsHolders ==
  ASSUME IInv, NEW r \in Requests, NEW active \in BOOLEAN \cup {None},
         NEW promote \in BOOLEAN, WriteSeat(r, active, promote)
  PROVE  \A g \in Games, m \in SeatIds :
           (IF seats'[g][m] = None THEN None ELSE seats'[g][m].account)
             = IF seats[g][m] = None THEN None ELSE seats[g][m].account
  <1> DEFINE q == req[r]
  <1>1. /\ seats[q.game][q.id] \in Seat /\ seats[q.game][q.id].account = q.seat.account
        /\ seats'[q.game][q.id] \in Seat /\ seats'[q.game][q.id].account = q.seat.account
        /\ \A g \in Games, m \in SeatIds :
             g # q.game \/ m # q.id => seats'[g][m] = seats[g][m]
    BY WriteSeatEffect, ZenonT(40)
  <1> QED BY <1>1, Parameters

LEMMA TwoLevelUpdate ==
  ASSUME NEW G, NEW I, NEW V, NEW h \in [G -> [I -> V]], NEW k \in [G -> [I -> V]],
         NEW a \in G, NEW b \in I, NEW v \in V,
         \A g \in G, i \in I : k[g][i] = IF g = a /\ i = b THEN v ELSE h[g][i]
  PROVE  k = [h EXCEPT ![a][b] = v]
  <1>1. k[a] = [h[a] EXCEPT ![b] = v]
    OBVIOUS
  <1>2. \A g \in G : g # a => k[g] = h[g]
    OBVIOUS
  <1> QED BY <1>1, <1>2

(* Seating is atomic, gives out the next id, and no step takes an id away: Games
   implements Roster. *)
THEOREM SeatsAreARoster == Spec => RosterSpec
  <1> DEFINE held == [g \in Games |-> [n \in SeatIds |->
                        IF seats[g][n] = None THEN None ELSE seats[g][n].account]]
  <1>1. Init => Roster!Init
    BY DEF Init, Roster!Init, SeatIds
  <1>2. ASSUME IInv, [Next]_vars PROVE [Roster!Next]_held
    <2>1. CASE UNCHANGED vars
      BY <2>1 DEF vars
    <2>2. ASSUME NEW r \in Requests, Step(r) PROVE [Roster!Next]_held
      <3> DEFINE q == req[r]
      <3>1. CASE seats' = seats
        BY <3>1
      <3>2. CASE InsertSeat(r)
        <4> DEFINE n == q.id
        <4>1. /\ q.game \in Games /\ n \in SeatIds /\ q.seat \in Seat
              /\ seats[q.game][n] = None
              /\ \A m \in SeatIds : m < n <=> seats[q.game][m] # None
              /\ \A g \in Games, m \in SeatIds :
                   seats'[g][m] = IF g = q.game /\ m = n THEN q.seat ELSE seats[g][m]
          BY <1>2, <3>2, InsertEffect
        <4>2. q.seat # None /\ q.seat.account \in Accounts /\ q.seat.account # None
          BY <4>1, Parameters DEF Seat
        <4>3. ~SeatHeld(q.game, q.seat.account)
          BY <3>2 DEF InsertSeat
        <4>4. \A g \in Games, m \in SeatIds :
                held'[g][m] = IF g = q.game /\ m = n THEN q.seat.account ELSE held[g][m]
          BY <4>1, <4>2
        <4>8. held' = [held EXCEPT ![q.game][n] = q.seat.account]
          <5>1. held \in [Games -> [SeatIds -> Accounts \cup {None}]]
            BY <1>2 DEF IInv, TypeOK, Seat
          <5>2. held' \in [Games -> [SeatIds -> Accounts \cup {None}]]
            BY <4>2, <4>4, <5>1
          <5> DEFINE G == q.game
          <5> DEFINE a == q.seat.account
          <5> DEFINE V == Accounts \cup {None}
          <5>3. /\ G \in Games /\ n \in SeatIds /\ a \in V
                /\ held \in [Games -> [SeatIds -> V]] /\ held' \in [Games -> [SeatIds -> V]]
            BY <4>1, <4>2, <5>1, <5>2
          <5>4. \A g \in Games, m \in SeatIds :
                  held'[g][m] = IF g = G /\ m = n THEN a ELSE held[g][m]
            BY <4>4
          <5> HIDE DEF held, n, G, a, V
          <5>5. held' = [held EXCEPT ![G][n] = a]
            BY <5>3, <5>4, TwoLevelUpdate
          <5> QED BY <5>5 DEF G, a
        <4>5. held'[q.game][n] = q.seat.account
          BY <4>1, <4>4
        <4>6. held[q.game][n] = None
          BY <4>1
        <4>7. \A m \in SeatIds : /\ m < n <=> held[q.game][m] # None
                                /\ held[q.game][m] # q.seat.account
          <5> SUFFICES ASSUME NEW m \in SeatIds
                       PROVE  /\ m < n <=> held[q.game][m] # None
                              /\ held[q.game][m] # q.seat.account
            OBVIOUS
          <5>1. CASE seats[q.game][m] = None
            BY <4>1, <4>2, <5>1
          <5>2. CASE seats[q.game][m] # None
            <6>1. seats[q.game][m].account \in Accounts
              BY <1>2, <4>1, <5>2 DEF IInv, TypeOK, Seat
            <6>2. seats[q.game][m].account # None
              BY <6>1, Parameters
            <6> QED BY <4>1, <4>3, <5>2, <6>2 DEF SeatHeld
          <5> QED BY <5>1, <5>2
        <4>9. held' = [held EXCEPT ![q.game][n] = held'[q.game][n]]
          BY <4>5, <4>8, Zenon
        <4>10. held'[q.game][n] \in Accounts
                 /\ \A m \in SeatIds : held[q.game][m] # held'[q.game][n]
          BY <4>2, <4>5, <4>7, Zenon
        <4>11. PICK g \in Games, k \in SeatIds : g = q.game /\ k = n
          BY <4>1
        <4>12. /\ held[g][k] = None /\ held'[g][k] \in Accounts
               /\ \A m \in SeatIds : m < k <=> held[g][m] # None
               /\ \A m \in SeatIds : held[g][m] # held'[g][k]
               /\ held' = [held EXCEPT ![g][k] = held'[g][k]]
          <5> HIDE DEF held, n
          <5> QED BY <4>6, <4>7, <4>9, <4>10, <4>11
        <4>13. Roster!Seating(g, k)
          BY <4>12, Zenon DEF Roster!Seating, SeatIds
        <4>14. Roster!Next
          BY <4>13 DEF Roster!Next, SeatIds
        <4> QED BY <4>14
      <3>3. ASSUME NEW active \in BOOLEAN \cup {None}, NEW promote \in BOOLEAN,
                   WriteSeat(r, active, promote)
            PROVE  UNCHANGED held
        BY <1>2, <3>3, WriteSeatKeepsHolders
      <3> QED BY <1>2, <2>2, <3>1, <3>2, <3>3, SeatSteps
    <2> QED BY <1>2, <2>1, <2>2 DEF Next
  <1> QED BY <1>1, <1>2, Invariant, PTL DEF Spec, RosterSpec, Roster!Spec

LEMMA Inactive ==
  ASSUME NEW s \in Seat, NEW t \in Seat, t.account = s.account, t.gm = s.gm, t.active = FALSE
  PROVE  t = [s EXCEPT !.active = FALSE]
  BY DEF Seat

(* The steps after which a request that has begun is no longer what it was. *)
LEMMA ActorSteps ==
  ASSUME IInv, NEW r \in Requests, req[r].pc # "idle", [Next]_vars, req'[r] # req[r]
  PROVE  Step(r) /\ (seats' = seats \/ req[r].pc \in {"insert", "ready"})
  <1>1. Step(r)
    <2>1. PICK x \in Requests : Step(x)
      BY DEF Next, vars
    <2>2. CASE x # r
      <3>1. req' = req \/ \E p : req' = [req EXCEPT ![x] = p]
        BY <2>1
        DEF Step, Abort, Reply, Advance, CreateGame, ReadGame, ReadSeat, Authorize,
            WriteGame, MintSeatId, InsertSeat, WriteSeat
      <3> QED BY <2>2, <3>1 DEF IInv, TypeOK
    <2> QED BY <2>1, <2>2
  <1> QED BY <1>1, SeatSteps DEF InsertSeat, WriteSeat

(* Whoever is neither an admin nor was made a GM changes a seat only to leave it. *)
LEMMA OutsiderDrops ==
  ASSUME IInv, NEW r \in Requests, NEW active \in BOOLEAN \cup {None},
         NEW promote \in BOOLEAN, WriteSeat(r, active, promote),
         ~req[r].admin, <<req[r].game, req[r].by>> \notin appointed,
         NEW g \in Games, NEW n \in SeatIds, seats'[g][n] # seats[g][n]
  PROVE  /\ seats[g][n] # None /\ seats[g][n].account = req[r].by
         /\ seats'[g][n] = [seats[g][n] EXCEPT !.active = FALSE]
  <1> DEFINE q == req[r]
  <1>a. g = q.game /\ n = q.id
    BY WriteSeatEffect, ZenonT(40)
  <1>b. /\ q.seat \in Seat
        /\ seats[q.game][q.id] \in Seat /\ seats[q.game][q.id].account = q.seat.account
        /\ seats'[q.game][q.id] \in Seat /\ seats'[q.game][q.id].account = q.seat.account
    BY WriteSeatEffect, ZenonT(40)
  <1>c. /\ seats'[q.game][q.id].gm <=> promote \/ q.seat.gm
        /\ seats'[q.game][q.id].active = Given(active, q.seat.active)
    BY WriteSeatEffect, ZenonT(40)
  <1>1. /\ q.seat \in Seat
        /\ seats[g][n] \in Seat /\ seats[g][n].account = q.seat.account
        /\ seats'[g][n] \in Seat /\ seats'[g][n].account = q.seat.account
        /\ seats'[g][n].gm <=> promote \/ q.seat.gm
        /\ seats'[g][n].active = Given(active, q.seat.active)
    BY <1>a, <1>b, <1>c
  <1>2. Wellformed(q) /\ Vouched(q)
    BY RequestType
  <1>3. /\ q.pc = "ready" /\ q.op = "seat"
        /\ active # None \/ promote
        /\ active # None => q.manager \/ (~active /\ q.seat.account = q.by)
        /\ promote => q.manager
    BY DEF WriteSeat
  <1>4. ~q.manager
    BY <1>2, <1>3 DEF Vouched
  <1>5. ~promote /\ active = FALSE /\ q.seat.account = q.by
    BY <1>3, <1>4
  <1>6. ~q.seat.gm /\ ~seats[g][n].gm
    <2>1. ~q.seat.gm
      BY <1>2, <1>3, <1>5 DEF Vouched
    <2>2. seats[g][n].gm => <<g, seats[g][n].account>> \in appointed
      BY <1>1, Parameters DEF IInv, GMsAreAppointed
    <2> QED BY <1>a, <1>1, <1>5, <2>1, <2>2
  <1>7. seats'[g][n].gm = seats[g][n].gm
    BY <1>1, <1>5, <1>6 DEF Seat
  <1>8. seats'[g][n].active = FALSE
    BY <1>1, <1>5, Parameters DEF Given
  <1>9. seats'[g][n] = [seats[g][n] EXCEPT !.active = FALSE]
    <2> DEFINE s == seats[g][n]
    <2> DEFINE t == seats'[g][n]
    <2>1. /\ s \in Seat /\ t \in Seat /\ t.account = s.account
          /\ t.gm = s.gm /\ t.active = FALSE
      BY <1>1, <1>7, <1>8
    <2> HIDE DEF s, t
    <2>2. t = [s EXCEPT !.active = FALSE]
      BY <2>1, Inactive
    <2> QED BY <2>2 DEF s, t
  <1> QED BY <1>1, <1>5, <1>9, Parameters

(* Without a right of his own or of his office, a member can only leave. *)
THEOREM OutsidersStayOut == Spec => OutsidersOnlyLeave
  <1> DEFINE OnlyLeaves(r) ==
        LET q == req[r] IN
        req'[r] # q /\ q.pc # "idle" /\ ~q.admin /\ <<q.game, q.by>> \notin appointed =>
          /\ games' = games
          /\ \A g \in Games, n \in SeatIds :
               seats'[g][n] # seats[g][n] =>
                 /\ seats[g][n] # None /\ seats[g][n].account = q.by
                 /\ seats'[g][n] = [seats[g][n] EXCEPT !.active = FALSE]
  <1>1. ASSUME IInv, [Next]_vars, NEW r \in Requests PROVE OnlyLeaves(r)
    <2> DEFINE q == req[r]
    <2> SUFFICES ASSUME req'[r] # q, q.pc # "idle", ~q.admin, <<q.game, q.by>> \notin appointed
                 PROVE  /\ games' = games
                        /\ \A g \in Games, n \in SeatIds :
                             seats'[g][n] # seats[g][n] =>
                               /\ seats[g][n] # None /\ seats[g][n].account = q.by
                               /\ seats'[g][n] = [seats[g][n] EXCEPT !.active = FALSE]
      OBVIOUS
    <2>1. Step(r) /\ Wellformed(q) /\ Vouched(q)
      BY <1>1, ActorSteps, RequestType
    <2>2. q.pc \in {"ready", "insert"} => ~q.manager /\ q.op = "seat"
      BY <2>1 DEF Wellformed, Vouched
    <2>3. games' = games
      BY <2>1, <2>2
      DEF Step, Abort, CreateGame, ReadGame, ReadSeat, Authorize, WriteGame, MintSeatId,
          InsertSeat, WriteSeat
    <2>4. ~InsertSeat(r)
      BY <2>1, <2>2 DEF InsertSeat, Wellformed
    <2> QED BY <1>1, <2>1, <2>3, <2>4, SeatSteps, OutsiderDrops
  <1>2. IInv /\ [Next]_vars => [\A r \in Requests : OnlyLeaves(r)]_vars
    BY <1>1
  <1> QED BY <1>2, Invariant, PTL DEF Spec, OutsidersOnlyLeave

(* What a PATCH of an archived game, judged on its present row, can do. *)
LEMMA ArchivedUpdate ==
  ASSUME IInv, NEW r \in Requests,
         NEW name \in Names \cup {None}, NEW status \in Moves \cup {None},
         NEW visible \in Sights \cup {None}, WriteGame(r, name, status, visible),
         NEW g \in Games, games[g] # None, games[g].status = "archived",
         games'[g] # games[g], req[r].row = games[g]
  PROVE  /\ g = req[r].game /\ req[r].admin
         /\ games'[g] = [games[g] EXCEPT !.status = games'[g].status]
  <1> DEFINE q == req[r]
  <1> DEFINE row == games[g]
  <1>1. /\ games \in [Games -> GameRow \cup {None}] /\ row \in GameRow /\ q.game \in Games
    BY RequestType DEF IInv, TypeOK, WriteGame, Wellformed
  <1>2. MayUpdate(q, name, status, visible)
    BY DEF WriteGame
  <1>3. name = None /\ visible = None /\ status # None
    BY <1>2 DEF MayUpdate
  <1>4. StatusMove("archived", status, q.admin)
    BY <1>2, <1>3 DEF MayUpdate
  <1> DEFINE new == [name |-> row.name, status |-> status, visible |-> row.visible]
  <1>5. games' = [games EXCEPT ![q.game] = new]
    <2>1. games' # games
      OBVIOUS
    <2>2. games' = games \/ games' = [games EXCEPT ![q.game] =
            [name |-> Given(name, q.row.name), status |-> Given(status, q.row.status),
             visible |-> Given(visible, q.row.visible)]]
      BY DEF WriteGame, UpdateGame
    <2> QED BY <1>3, <2>1, <2>2 DEF Given
  <1>6. g = q.game /\ games'[g] = new
    BY <1>1, <1>5
  <1>7. new = [row EXCEPT !.status = status]
    BY <1>1 DEF GameRow
  <1>8. status # "archived"
    BY <1>1, <1>6, <1>7 DEF GameRow
  <1>9. q.admin
    BY <1>3, <1>4, <1>8, Statuses, Parameters DEF StatusMove
  <1> QED BY <1>6, <1>7, <1>9

(* The freeze of an archived game can only be broken by a request that read the game
   before, or by an admin's change of its status. *)
THEOREM ArchivedStaysFrozen == Spec => ArchivedIsFrozen
  <1> DEFINE Frozen(g) ==
        games[g] # None /\ games[g].status = "archived"
          /\ (seats'[g] # seats[g] \/ games'[g] # games[g]) =>
            \E r \in Requests :
              /\ req'[r] # req[r] /\ req[r].game = g
              /\ \/ req[r].row # games[g]
                 \/ /\ req[r].admin /\ seats'[g] = seats[g]
                    /\ games'[g] = [games[g] EXCEPT !.status = games'[g].status]
  <1>1. ASSUME IInv, [Next]_vars, NEW g \in Games PROVE Frozen(g)
    <2> SUFFICES ASSUME games[g] # None, games[g].status = "archived",
                        seats'[g] # seats[g] \/ games'[g] # games[g]
                 PROVE  \E r \in Requests :
                          /\ req'[r] # req[r] /\ req[r].game = g
                          /\ \/ req[r].row # games[g]
                             \/ /\ req[r].admin /\ seats'[g] = seats[g]
                                /\ games'[g] = [games[g] EXCEPT !.status = games'[g].status]
      OBVIOUS
    <2>1. PICK r \in Requests : Step(r)
      BY <1>1 DEF Next, vars
    <2> DEFINE q == req[r]
    <2>2. q \in Request /\ Wellformed(q)
      BY <1>1, RequestType
    <2>3. ASSUME q.pc # "idle", req' = [req EXCEPT ![r] = Blank] PROVE req'[r] # q
      BY <1>1, <2>3 DEF IInv, TypeOK, Blank
    <2>4. CASE InsertSeat(r)
      <3>1. q.pc = "insert" /\ req' = [req EXCEPT ![r] = Blank] /\ games' = games
        BY <2>4 DEF InsertSeat, Advance
      <3>2. g = q.game
        <4>1. /\ seats \in [Games -> [SeatIds -> Seat \cup {None}]]
              /\ seats' = [seats EXCEPT ![q.game][q.id] = q.seat]
          BY <1>1, <2>4 DEF IInv, TypeOK, InsertSeat
        <4> QED BY <3>1, <4>1
      <3>3. q.row # games[g]
        BY <2>2, <3>1 DEF Wellformed
      <3> QED BY <2>3, <3>1, <3>2, <3>3
    <2>5. ASSUME NEW active \in BOOLEAN \cup {None}, NEW promote \in BOOLEAN,
                 WriteSeat(r, active, promote)
          PROVE  req'[r] # q /\ q.game = g /\ q.row # games[g]
      <3>1. /\ q.pc = "ready" /\ q.op = "seat" /\ games' = games
            /\ req' = [req EXCEPT ![r] = Blank]
        BY <2>5 DEF WriteSeat, Advance
      <3>2. g = q.game
        <4>1. /\ seats \in [Games -> [SeatIds -> Seat \cup {None}]]
              /\ \E s : seats' = [seats EXCEPT ![q.game][q.id] = s]
          BY <1>1, <2>5 DEF IInv, TypeOK, WriteSeat
        <4> QED BY <3>1, <4>1
      <3>3. q.row # games[g]
        BY <2>2, <3>1 DEF Wellformed
      <3> QED BY <2>3, <3>1, <3>2, <3>3
    <2>6. ASSUME NEW name \in Names \cup {None}, NEW status \in Moves \cup {None},
                 NEW visible \in Sights \cup {None}, WriteGame(r, name, status, visible)
          PROVE  /\ req'[r] # q /\ q.game = g
                 /\ \/ q.row # games[g]
                    \/ /\ q.admin /\ seats'[g] = seats[g]
                       /\ games'[g] = [games[g] EXCEPT !.status = games'[g].status]
      <3>1. /\ q.pc = "ready" /\ req' = [req EXCEPT ![r] = Blank] /\ seats' = seats
            /\ \/ games' = games
               \/ \E row : games' = [games EXCEPT ![q.game] = row]
        BY <2>6 DEF WriteGame, UpdateGame, Advance
      <3>2. games'[g] # games[g]
        BY <3>1
      <3>3. g = q.game
        BY <1>1, <3>1, <3>2 DEF IInv, TypeOK
      <3>4. CASE q.row = games[g]
        <4>1. /\ q.admin /\ games'[g] = [games[g] EXCEPT !.status = games'[g].status]
          BY <1>1, <2>6, <3>2, <3>4, ArchivedUpdate
        <4> QED BY <2>3, <3>1, <3>3, <4>1
      <3> QED BY <2>3, <3>1, <3>3, <3>4
    <2>7. ASSUME NEW c \in Callers, NEW h \in Games, NEW name \in Names,
                 CreateGame(r, c, h, name)
          PROVE  FALSE
      <3>1. /\ games[h] = None /\ seats' = seats /\ \E row : games' = [games EXCEPT ![h] = row]
        BY <2>7 DEF CreateGame
      <3> QED BY <1>1, <3>1 DEF IInv, TypeOK
    <2>8. CASE seats' = seats /\ games' = games
      BY <2>8
    <2> QED BY <2>1, <2>4, <2>5, <2>6, <2>7, <2>8
        DEF Step, Abort, ReadGame, ReadSeat, Authorize, MintSeatId
  <1>2. IInv /\ [Next]_vars => [\A g \in Games : Frozen(g)]_vars
    BY <1>1
  <1> QED BY <1>2, Invariant, PTL DEF Spec, ArchivedIsFrozen
=============================================================================
