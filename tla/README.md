# A formal model of the EC v6 server

This directory holds TLA+ specifications of the `ecv6-api` repository: the HTTP server `ec`, its SQLite
store, the turn-0 world generation, the database tool `ecdb` and the client `earl`. TLC checks them on
small instances; TLAPS proves, for every size, the safety properties of every part (section 4). Paths below are
relative to the repository.

## 1. Inventory

| Part | Code | State | Operations |
|---|---|---|---|
| Authentication, sessions | `internal/server/{auth,handlers,sessions,admin,token}.go`, `internal/store/sessions.go` | `sessions` rows: account, actor, expiry, revocation | login, token resolution on every request, logout, revoke (own, by admin, all), purge, impersonation |
| Accounts | `internal/server/{me,accounts}.go`, `internal/store/accounts.go` | `accounts` rows: email, name, secret, admin, active | self-service changes, create and patch by an admin |
| Games, membership | `internal/server/{games,members}.go`, `internal/store/{games,members}.go` | `games` rows; `game_account_role` rows (seats) | create, patch (status, name, visibility), seat, drop, reactivate, promote |
| Game setup | `internal/setup/`, `internal/store/{engine_state,generation,cluster,planet,deposit}.go` | master seeds; the generated tables | generate, regenerate |
| Genesis generator | `internal/genesis/` | none (pure) | place systems, fill orbits, allot deposits |
| Server life cycle | `internal/server/server.go`, `cmd/ec/serve.go` | listener, shutdown channel, drain deadline, version cache and its lock | run, drain, trigger, exit, read the version |
| Database files | `cmd/ecdb/`, `internal/store/{store,open,migrations}.go` | `ec.db`, its sidecars, its version | create, migrate, verify, back up, compact |
| Client | `cmd/earl/` | `tokens.json` | login, logout, impersonate, request |
| Routing, middleware, replies | `internal/server/{server,middleware,errors}.go` and every handler | the status recorder of a request | route, log, recover, answer |
| Generated types | `internal/api/openapi.gen.go` | none | declare what each operation may answer |
| prng, phrases, cli, dotenv, secret | several | none | arithmetic, flags, formatting |

**How they meet.** `net/http` runs each request in its own goroutine. A request passes
`requireAuth` (two reads), perhaps `requireAdmin`, then a handler that makes a few store calls.
A store call is one SQLite statement on a pooled connection. Apart from seating a member and the
saving and clearing of generated rows there is no transaction of several statements, and none spans
two store calls. Handlers share nothing but the database, the version cache and the shutdown
channel. `GenerateCluster` calls the generator and then the store seven times. `ecdb` and `earl`
are other processes; `ecdb` shares the database file with `ec`, and invocations of `earl` share their
token file with each other, without a lock.

**What is hard.** The handlers are read, decide, write sequences, so other requests commit between
the read and the write (bcrypt, which takes a good part of a second, sits in several of these gaps).
Writes are of whole rows, so a stale read undoes what it did not see. Expiry is kept in whole
seconds and compared in nanoseconds. Generation may fail between transactions. The drain starts
with a cancelled context. A panic may come before, amid or after the reply. The client replaces its
whole token file by what it read some time ago. `PROJECT.json` lists each hazard at its line.

**What makes each part correct.** *Sessions:* what is ended stays ended, and nothing dead
authenticates. *Accounts:* one account per email; rights come from administrators only. *Games:*
only those entitled change anything, an archived game is frozen, player ids are never reused.
*Setup:* readers see whole clusters, reruns repair, seeds last. *Genesis:* systems keep their distance or
there is no room, the top-up ends, deposits are apportioned fairly. *Life cycle:* the server stops
when asked, and cuts nobody off before the deadline. *Database files:* nothing stored is lost, and no
build changes what is in a database whose schema it does not know. *Client:* it never acts as anybody
but the identity meant, and the token file is never torn. *Replies:* each status is declared by the API
(finding 6 is where it is not) and the log tells the truth.

## 2. Modules

| Module | What it is |
|---|---|
| `Auth` | accounts and sessions, every handler that writes them |
| `SessionLedger` | the abstract promise of sessions: issued once, ended with their account's, never back; `Auth` implements it |
| `AuthProofs`, `GamesProofs`, `SetupProofs`, `LifecycleProofs`, `DatabaseProofs`, `TokensProofs` | the theorems about the module each is named for |
| `GenesisProofs` | the theorems about `Placement`, `SystemContents` and `Deposits`, and the lemmas about sums they rest on |
| `CallsProofs` | the theorems about `Arguments` and `Replies` |
| `Games` | the game catalogue and the seats |
| `Roster` | the abstract promise of seating: atomic, the next id, never reused; `Games` implements it |
| `Setup` | turn-0 generation over its tables |
| `Placement`, `SystemContents`, `Deposits` | the three stages of Genesis, each one call of its function |
| `Sums` | the totals the stages keep |
| `Lifecycle` | one server process, from listening to exit |
| `Database` | the database file, and the `ecdb` commands and servers that open it, one after the other |
| `Tokens` | invocations of `earl` that share a token file |
| `Keyring` | the abstract promise of that file; `Tokens` implements it |
| `Arguments` | `earl`'s reordering of the command line |
| `Replies` | one request from the middleware to the status it is answered with |
| `MCAuth`, `MCGames`, `MCDatabase` | the instances TLC checks |
| `MCGeneration` | `Setup` and the three stages; a behaviour is the calls of one of them |
| `MCCalls` | `Arguments`, `Tokens`, `Replies` and `Lifecycle`; a behaviour is of one of them |

Definitions keep the names of the code they model (`LoadAccount`, `CreateSession`,
`CallerIsActiveGM`, `SaveCluster`); `PROJECT.json` maps each to its lines. An operator whose comment
begins "Mutant of" is a plausible mistake in the definition it names and is part of no
specification: put in that definition's place it makes the property `PROJECT.json` pairs it with
fail.

**Auth.** A request is a record with a program counter: `resolve` and `load` are the two reads of
`requireAuth`, `ready` is a handler about to run, and the other positions are handlers between two
statements. `row` is the caller's account *as it was read*, `seen` the account a PATCH read.
`UpdateAccount` writes all of it back, as the SQL does. Session ids stand for tokens and their
hashes. A statement uses some clock reading taken since the request's previous step (`Reading`): the
code calls `time.Now()` before it waits for a connection. Times are in ticks, stored times in whole
seconds. A refusal changes nothing and is `Abort`, which is also an error, a lost client or a stop.
`Standing` is what a session is to a client, whatever its row says and even if the row is gone: not
issued yet, open until its time, or over; as a function of the id it is the state of `SessionLedger`.
Three histories are kept: `condemned` (sessions a handler undertook to end), `granted` (accounts an
administrator or the seed made admin) and `dead` (the token was unusable on arrival).

**Games.** A request carries the game and seat it read and whether its caller is a `manager`, an
administrator or an active GM. `MintSeatId` and `InsertSeat` are the two statements of `AddMember`,
one transaction begun `DEFERRED` on a WAL database: it reads from the snapshot of its SELECT and
SQLite refuses its INSERT if anybody has committed since; `fresh` holds the transactions that are
still in time. `appointed` is a history: who was made GM by somebody entitled to.

**Setup.** Each action is a transaction. A table is a function from its keys to the world (seeds and
knobs) whose row is stored there: systems by hex, planets by hex and orbit, so that two worlds may have
planets in different orbits of one hex, which no key keeps from being there together. Every planet has a deposit
with the number 1, which stands for them all. `Fail` is an error, a cancelled context or a crash anywhere.
`alone` (nobody else wrote since the call began) and `early` (there were no seeds when it began) are
histories.

**Placement, SystemContents, Deposits.** The stages are sequential and pure; what a die or a shuffle
may give is a choice. `Placement` draws the candidates in any order and keeps, as the code does, those
far enough from the ones it kept. `Radius` is computed in integers: the closed form never falls on a
rounding boundary. `SystemContents` rolls the orbits and then takes the steps of the top-up's loop one
at a time. `Deposits` keeps exact amounts where the code has `float64`. That differs in two places,
and there the model does what the arithmetic does: in the comparison of remainders a tie between
different amounts may go either way (`Before`), and the yields whose product falls just short of a whole
number are listed (`Short`; all 438 pairs of base yield and net adjustment there can be were evaluated).

**Lifecycle.** `net/http` is external and modelled by what the code relies on: Shutdown closes the
listener, waits for active connections until its context ends, and the reply of a handler is flushed
when it returns. `Run`, `drain`, the shutdown handler, the once-guard and the lock of
`schemaVersion` are the code's.

**Database.** One process has the file at a time: that is `ecdb`'s stated contract (ADR-0008), and the
guides stop the server for it. What is left is order and crashes: an old and a new build take turns,
and a process may be killed between any two steps (`Killed`). The version is the number of migrations
applied; the rows are an abstract set. SQLite's transactions and `VACUUM` are atomic, `VACUUM INTO` is
not, and `sqlitemigration` is modelled by what `store` relies on. Of the header there is, besides the
application id and the version, the journal mode: the connections of a server and of `admin create` switch
it to WAL before anything has been checked (`Journaled`), also in a file that is another program's or newer.

**Tokens, Keyring.** An invocation loads the file, picks an identity (`Selected`), makes its call and
perhaps replaces the file through a temporary one. `login` loads after its call, `logout` and
`impersonate` before it and write back what they loaded then. The server is external: it may refuse,
answer, or not answer before the timeout; a token it mints belongs to the account it names. `Fail` is an
error or a kill anywhere. `Keyring` says what is left of the promise when many do this at once: each
write is of something read whole, with one identity saved or forgotten, and every token is filed under
its own account.

**Arguments.** An argument is what its spelling makes of it, and the loop's lists hold places of the
command line. `Roles` says how a list is read, by a reader who lets flags follow words and by one who,
like `ff`, does not; the first's reading of the old order must be the second's of the new one.

**Replies.** Each handler is the list of its exits in the order of the code, each with its status; a
request passes some and leaves at one. Exits of the same kind in a row are one. Before the handler's come
the exits of its route group (`Gate`). The recorder takes the first status and ignores the rest;
`Panic` may come at any moment; `withRecovery` answers if nothing has been sent, and passes
`http.ErrAbortHandler` on (`Repanic`), past the logging, which leaves no line then. `Declared` is what
the generated response types offer for each operation.

## 3. Runs

| Run | Checks | Bounds, and why they are enough |
|---|---|---|
| `auth_sessions` | `TypeOK`, `RevocationIsFinal`, `DeadTokensNeverServe`, `LedgerSpec` | two accounts, two requests and the session routes; two ticks to a second, so that a reading can fall inside the second of an expiry. A race needs two requests. |
| `auth_accounts` | `ImpersonationAttributed`, `NoSelfPromotion`, `OnlyAdminsReachOthers` | the account routes and impersonation, two requests, a PATCH body per field that matters; a stale row needs one writer and one overtaken reader, and a target that changes between the check and the insert one PATCH. |
| `games` | `TypeOK`, `GMsAreAppointed`, `SeatingsNeverCollide`, `OutsidersOnlyLeave`, `ArchivedIsFrozen`, `RosterSpec` | one game, two seats, two requests of an administrator and a user; moves into and out of recruiting and of the archive, so that both boundaries are crossed in both directions. |
| `generation` | `WholeClusters`, `RerunsReplace`, `PlacedApart`, `InfeasibleMeansFull`, `RadiusIsNearest`, `ToppedUp`, `TopUpTakesTurns`, `Apportioned`, `SeedsOutliveReruns`, `LoopsReturn` | two calls, two seeds that place differently and, on the hex they share, have planets in different orbits, three sets of knobs, one of them infeasible; maps of one or seven hexes with every order of drawing, a tie of the radius among them; every layout of orbits with each planet rolled at its lowest or its highest, which gives the longest top-ups and the systems that need none; the real systems of one to three planets with their lowest and highest shares and counts of 4 to 37. |
| `database` | `TypeOK`, `StampsAreTrue`, `SuccessMeansCurrent`, `ForeignAndNewerUntouched`, `NothingLost` | a build with one migration and one with three, so that a crash can fall between two; two seconds for backups; ec.db absent, a directory, foreign, half-migrated or current at the start. |
| `calls` | `NeverActsAsAnother`, `ParsedAsMeant`, `OnlyBadRequestsAreUndeclared`, `LogTellsStatus`, `ServerTypeOK`, `CleanStopAnswersAll`, `GraceIsGranted`, `SchemaReadOnce`, `KeyringSpec`, `EveryCommandEnds`, `StopsWhenAsked`, `VersionIsAnswered` | every command line of up to five arguments, which has room for a root flag with its value, a name, a path and a flag behind it; two invocations, two servers and three accounts, an email in three spellings, every command with and without an identity named; every operation of the API and every way through it; a server with three connections, one of which may hang while two race for the lock or the shutdown, in development and production. |
| `profile_update` | violates `ProfileUpdateIsLimited` | finding 1 |
| `deactivation` | violates `DeactivationRevokes` | finding 2 |
| `forward_only` | violates `ForwardOnly` | finding 3 |
| `deposit_ties` | violates `EarlierWinsTies` | finding 4 |
| `deposit_yields` | violates `YieldIsRoundedDown` | finding 5: one belt and every adjustment the dice can give |
| `undeclared_replies` | violates `RepliesAreDeclared` | finding 6: every operation and every way through it |

Bounds that are not the code's: `MaxTime` (the clock), `MaxSeats`, `Routes`, `AdminPatches`, `Moves` and
`Sights` (what clients send in a run), `Calls` (the commands given), `Serials` (the tokens an account is
given), `MaxArgs`, `RollBound`, `Faces`, `CountRolls`, `AdjustmentRolls` and `Habitabilities` (the dice
tried), `TimeBound`. Runs that may stop say `CHECK_DEADLOCK FALSE`: the games when every seat is taken,
the server when it has exited, a generator, a command line or a request when it is done.

`Auth` also defines `EmailsUnique`, `ExpiryTestsAgree` and `SessionsOnlyEnd`, and `Setup` a `TypeOK` and
`SystemsOwnTheirPlanets`, which no run checks; they are proved.

**Fairness.** `MCGeneration` assumes that a loop of a sequential function goes on. `Tokens` assumes that
a running command goes on: its transport gives every call thirty seconds, so that the server need not
answer, and no command waits for another. `Lifecycle` assumes weak fairness of `Run`'s goroutine, of the
drain's timer and of the handlers' own steps that wait for nobody, because the Go scheduler and the clock
go on; strong fairness of taking the version lock, because `sync.Mutex` hands it over to a waiter that
has starved. Nothing is assumed of clients, signals or the handlers of other routes, which may hang for
ever. The other modules have safety properties only: the code retries nothing.

### Findings

1. `PATCH /me` is documented as "limited to the non-sensitive displayName" but writes the whole row
   read by `requireAuth`: overlapping an administrator's change, it undoes it, a deactivation or a
   demotion included (`me.go:41`).
2. `handlers.go:16` has sessions "revoked immediately on ... account deactivation"; the handler
   that deactivates (`accounts.go:181`) revokes none. They authenticate again after a reactivation.
3. "Backward moves are rejected" (`games.go:18`), yet every PATCH of a game writes the status it
   read, and one overtaken by an advance moves the game back.
4. `deposits.go:315` breaks equal remainders "in favor of the earlier resource in order (never by
   float equality)", but the remainders it compares are differences of `float64`, and rounding makes
   one the larger. The run's system, a belt and a gas giant under the default settings with 28 slots to
   share in the ratio 7/9 : 2/2 : 1/6, is due 11.2, 14.4 and 2.4; computed, the last two remainders are
   0.3999999999999986 and 0.39999999999999947, and the later resource takes the slot.
5. The yield of a deposit is the floor of a `float64` product (`deposits.go:303`), which for
   eighteen pairs of base yield and adjustment falls just short of the whole number of tenths that the
   formula of `deposits.go:291` gives. Metals, due 12% x 1.4 = 16.8%, get 167 tenths.
6. `openapi.yaml` calls itself "the source of truth for the wire contract" that handlers are "checked
   against", but eight operations answer some requests with a 400 it does not declare for them: `listGames`
   a filter that is no status (`games.go:84`), `logout` a malformed body (`handlers.go:165`), and
   `getAccount`, `listAccountSessions`, `revokeAccountSessions`, `revokeAccountSession`, `getGame` and
   `listGameMembers` a malformed id (which `conventions.md:50` names in general). That these are all is
   `OnlyBadRequestsAreUndeclared`. The contract declares no 500 anywhere; that is left aside.

Known behaviour of the same nature that no run is about: a login that verified the old secret
inserts its session after a secret change swept the others; an impersonation inserts its session
although the target was deactivated or made an admin since it was looked at; a drop that read its seat before a
promotion takes the GM flag away again; two generations with different knobs leave the planets of
one under the cluster of the other; a second signal during the drain is ignored, although
`serve.go:118` expects it to end the process; a first request for a world that is infeasible has
written the game's seeds when it is refused, although `generate.go:56` says "before any write";
`GetCluster` reads a cluster by two statements, between which it may be replaced.

Of the client: `logout` and `impersonate` save the store they loaded before their call, so that a token
another invocation saved meanwhile is lost; a login whose answer is lost leaves a session nobody holds
the token of; `logout` takes every 401 for a token that was already invalid, but a store that fails while
the token is resolved is a 401 too (`auth.go:79`), so a live session may be forgotten; an email padded
with spaces is trimmed by `login` alone and matches nothing elsewhere; a command line that ends in a flag
without its value (`post /me -d`) has the path taken for the value (`ParsedAsMeant` leaves such lines
out); a `--` behind a word is a word to `ff`, wherever it stood.

## 4. Proofs

`AuthProofs` proves, for any sets of accounts, sessions, requests, names and secrets and any clock, the
seven properties of the runs `auth_sessions` and `auth_accounts`, and `EmailsUnique`, `ExpiryTestsAgree`
and `SessionsOnlyEnd`, as theorems of `Auth!Spec`. They rest on the named assumptions of `Auth`:
`NoneIsNoValue` (the marker of absence is none of the values), `ParameterTypes`, and `InitialTable` (the
table the server opens satisfies its UNIQUE constraint).

- *Shape* is `TypeOK` together with what a request's position says about its fields (a handler at
  `patch` has a target and the row it read, and so on). Every other proof uses it, because a whole-row
  write is well typed only if the row was.
- *Lifetimes* strengthens `RevocationIsFinal`. That sessions stay ended is not inductive alone: an
  insert could bring a condemned id back. One adds that every row and every condemned session has a
  drawn id, and that a request which arrived with a dead token waits at `resolve`, where the clock,
  which never goes back, and the revocation stamp keep it from passing.
- *Authority* strengthens `NoSelfPromotion`. A stale row may be written back at any time, so the
  invariant speaks about the rows in flight as well as those in the table: whatever admin flag any of
  them carries belongs to an account that was granted it.
- `ExpiryTestsAgree` is arithmetic (a stored second is past the reading exactly if it is past the
  truncated reading), isolated in a lemma about `\div`.
- The action properties follow step by step from the same invariants.
- The refinement of `SessionLedger` is proved from *Shape* by what a step may do to rows. It inserts one,
  which issues an id never drawn before; or it is *Ends*: rows are kept, stamped or, after their expiry,
  deleted, and the stamped ones are of one account (*OneAccount*: a revocation names its sessions by their
  account, or is of a single one). A deleted row was over already, because whole seconds and the clock draw
  the same line, so the purge is a stutter; so is the stamp on a session that was over. The clock's tick
  ends what it reaches. Nothing the ledger has over comes back, since *Standing* goes by the ids ever drawn.

`GamesProofs` proves the six properties of the run `games`, for any games, accounts, callers and
requests and any bound on the seats of a game, from the assumption `Parameters` of `Games`. The
invariant `IInv` adds to `TypeOK`, `SeatingsNeverCollide` and `GMsAreAppointed`:

- *Wellformed*: what a request has read and decided by its position, for instance that a seat is only
  inserted or written by one whose game, as it read it, was not archived.
- *Vouched*: what it may still rely on although the tables have moved on. The seat it read is still the
  same account's; a GM flag it read was put there by somebody entitled to; and a caller who managed the
  game, other than by being an admin, was made its GM. Without it the flag is not inductive, because
  every write of a seat writes back the flag that was read.
- *SeatsArePrefix*: the player ids are used from 1 without a gap. With it `NextSeatId` is the next one,
  and SQLite's refusal of a stale snapshot keeps it so until the INSERT.

`OutsidersOnlyLeave` and `ArchivedIsFrozen` follow step by step, and so does the refinement: an INSERT is
a `Seating` of `Roster`, every other step leaves the holders of the seats alone.

`DatabaseProofs` proves the five properties of the run `database`, for any builds, versions, rows and
number of backups, from `DatabaseAssumption` and `NoneIsNoValue`. Its invariant says what a process at each
step knows of the file (one that is open has a database of its build's version, one that copies has
found it current) and that a file without an application id has no version; what a process knows stays
true because the model has the commands open the file one after the other.

`TokensProofs` proves `TypeCorrect`, `NeverActsAsAnother` and the refinement of `Keyring`, for any
invocations, servers and accounts, from `TokensAssumption` and `NoneIsNoValue`. Its invariant files every
token, saved or held by an invocation, under the account it was issued to. A save puts
back the store as it was loaded: that may drop a token saved meanwhile (a known behaviour, above), but
since the loaded store was filed properly too, it never puts another account's in its place.

`LifecycleProofs` proves the safety properties of the server in the run `calls`, for any number of
connections, from `NobodyIsNoValue`. None of them is inductive alone. A clean stop stays clean only because
a drain has closed the listener for good, so that no request is accepted behind its back (*Stopping*); and
one read is the only one because whoever is at the database holds the lock, and nobody holds it once the
version is cached (*OneReader*).

`SetupProofs` proves `TypeOK`, `WholeClusters`, `RerunsReplace`, `SeedsOutliveReruns` and
`SystemsOwnTheirPlanets`, for any concurrent calls, seeds, knobs, hexes and orbits, from `Generator`:
generation is a function of seeds and knobs that is either infeasible or places systems, and the planets of
a system depend on the seeds and its hex alone. `WholeClusters` needs the transactions, the keys and the
foreign keys, and that a call which persists has a feasible world (*Wellformed*). It says what generations
that overtake each other leave at worst: the systems are the cluster's, and every world that has planets
or deposits there has all of them, because a call whose rows meet a single key writes none
(*FilledWhole*). With equal seeds such planets are the cluster's own (`SystemsKeepTheirPlanets`).
`RerunsReplace` needs to know what a call that nobody has overtaken may assume at each position: the seeds
are those it uses (*SeedsAreMine*), and each table holds what the call has written so far and not a row else
(*TablesAreMine*), so that its inserts meet no key. Every other call's write ends its `alone`.

`GenesisProofs` proves the six properties of the three stages.

- *Placement*, from `PlacementAssumption` (map sizes are such that no target is rounded to nothing):
  *Loop* says that what has been placed is on the map, pairwise apart and fewer than asked for, and that
  each hex drawn and left is too near to one that was placed. When none is left to draw, that is
  `InfeasibleMeansFull`. `WindowSuffices` is arithmetic: beyond the window of seven radii around the
  closed form the number of hexes only moves away from the target, so that the best of the window is the
  best of all, for every target and not only those of the five map sizes.
- *SystemContents*, from `ContentsAssumption` (which outcomes of the dice are tried): the walk of the
  top-up passes the orbits in a fixed cycle, and in `k` times round (*Rounds*) each eligible planet has been
  topped up `k` times, or once more if the walk has come past it in the present round. So none is topped up
  twice before another was once. The loop adds at most two to a total below nine, which bounds what it leaves.
- *Deposits*, from `DepositsAssumption`: the slots left after the whole parts are as many as the remainders
  are worth, so fewer than there are resources with one; hence a slot goes only to a resource with a
  remainder, which keeps each count within one of its share, and no order of the remainders, rounded or
  not, can give the smaller share more. All it needs of `Before` is that the larger remainder comes first,
  so that no way of breaking ties matters.

The totals are folds (`Sums`), and the library's theorems on induction cannot be instantiated here.
The lemmas take another way: a set of naturals has a least element, because strict inclusion is well
founded on finite sets; with it there is, for each finite set, a function that satisfies the fold's
recursion, and so the fold's own function does too.

`CallsProofs` proves `ParsedAsMeant` for command lines of any length. `Roles` is recursive, and is shown to
satisfy its recursion in the same way. *Scanned* is the loop's invariant: the place where `reorderArgs`
stands is between two arguments (*Fresh*: no `--` before it, no flag that waits for its value); the path has
been copied; flags with the values behind them, and words, have been collected, each in their order and
all of them. What it arrives at is *Arranged*: first the path and the flags, then the words; and a line so
arranged is read by `ff` as it was meant, which is an argument about the first place where the two readings
could differ. It also proves that the log tells the status that was sent (`LogTellsStatus`): in every stage
the recorder has the first status. And it proves that no status is undeclared but the 400 of eight operations
(`OnlyBadRequestsAreUndeclared`), group by group of the handlers: each of their exits, and those of the gate
before them, has a status the operation declares or a 500 (*Fits*), or the operation is one of the eight
and the status 400 (*Known*); what has been sent is one of these exits or a panic's 500 (*SentInv*). `ExceptionsAreReal` shows that none of the
eight is excepted needlessly. For this the tables of `Replies` are merged by an operator of its own,
`Merged`, whose result a lemma gives (*MergedIs*).

Each theorem about steps has one case per action.

**Only model-checked:** the liveness properties `StopsWhenAsked`, `VersionIsAnswered`, `LoopsReturn` and
`EveryCommandEnds`, which are beyond this prover. Every invariant and action property of a passing run, and
each refinement, is a theorem. Of calls of `GenerateCluster` that disturb each other nothing more is claimed
than the above: with different seeds or knobs, that what they leave is whole does not mean that it is of one
of them.

## 5. Not modelled

- Of the server: request ids, the bodies of requests and replies and how they are decoded (a body is
  good or bad), what the read-only handlers return except the list of sessions (`Listed`), the seeding of
  the in-memory store, and the generated strict-server adapter, which the server does not use.
- The random numbers are arithmetic on 64-bit words fixed by golden files; what is relied on, that a seed
  and a stream name determine the draws, is assumed by `Setup`. The phrases, bcrypt, the flag packages and the
  environment files keep no state or are external.
- Of the generator: the weights and quantities of single deposits, whose amounts are beyond TLC's
  integers, and the joining of the stages, a loop that hands one result to the next.
- Of the database tool: the sidecar files (SQLite discards those it finds beside an empty file), the
  destination folder of a backup, what a migration does to the rows it meets.
- Of the client: what is printed, and a token's type and expiry, which nothing reads; a change of an
  account's email on the server, after which a token stays filed under the old one; a machine that crashes
  before the file system has written a renamed file (`Fail` kills processes); a command whose body comes from
  standard input, which is read to its end before the call and may keep the command as long as it likes.

## 6. What could come next

1. `Setup` and the stages of Genesis are joined by a generator that is a parameter. The assumption
   `Generator` is what it must satisfy; an abstract generator that the joined stages implement would let that
   be a theorem.
2. The stages' loops give each system its own dice; a module of the joining loop (`genesis/worldgen.go`)
   would show that systems, planets and deposits are zipped in one order.
