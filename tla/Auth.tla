-------------------------------- MODULE Auth --------------------------------
(***************************************************************************)
(* Accounts, sessions and the request handlers that read and write them:   *)
(* internal/server/{auth,handlers,me,accounts,admin,sessions}.go over      *)
(* internal/store/{accounts,sessions}.go.                                  *)
(*                                                                         *)
(* net/http runs every request in a goroutine of its own.  A handler is a  *)
(* series of store calls; each call is one SQLite statement, hence atomic, *)
(* and no transaction spans two of them.  So a request is a small program: *)
(* its record in req holds its position (pc) and everything it has read    *)
(* so far, and one action below is the code from one store call up to the  *)
(* next.  A row read in one step may have changed when a later step uses   *)
(* it.  Replies carry no state: a finished request is a blank record.      *)
(***************************************************************************)
EXTENDS Integers, FiniteSets

CONSTANTS
  Accounts,         \* account ids
  SessionIds,       \* session ids; the raw token and its hash stand for the id
  Requests,         \* request slots: how many requests may be in flight
  Spellings,        \* what a client may type as an email
  Emails,           \* trimmed, lowercased emails
  Fold,             \* Fold[w]: the email a spelling denotes
  Names, Secrets,
  None,             \* an absent row, or an absent (NULL) value
  InitialAccounts,  \* the account table the server opens
  Routes,           \* the routes clients exercise (bounds a run)
  AdminPatches,     \* the bodies of PATCH /accounts/{id}; None: absent field
  TicksPerSecond,   \* the clock is finer than the stored whole seconds
  LoginTTL, ImpersonationTTL,  \* in ticks
  MaxTime           \* bound on the clock, in ticks

AccountRow == [email: Emails, name: Names, secret: Secrets,
               admin: BOOLEAN, active: BOOLEAN]

Patch == [email: Spellings \cup {None}, name: Names \cup {None},
          secret: Secrets \cup {None}, admin: BOOLEAN \cup {None},
          active: BOOLEAN \cup {None}]

SessionRow == [account: Accounts, actor: Accounts \cup {None},
               expires: Nat, revoked: Nat \cup {None}]

ASSUME NoneIsNoValue ==
  /\ None \notin Accounts /\ None \notin SessionIds
  /\ None \notin Nat /\ None \notin BOOLEAN
  /\ None \notin Spellings /\ None \notin Names /\ None \notin Secrets
  /\ None \notin AccountRow /\ None \notin SessionRow

ASSUME ParameterTypes ==
  /\ Fold \in [Spellings -> Emails]
  /\ AdminPatches \subseteq Patch
  /\ TicksPerSecond \in Nat \ {0}
  /\ LoginTTL \in Nat /\ ImpersonationTTL \in Nat /\ MaxTime \in Nat

ASSUME InitialTable ==
  /\ InitialAccounts \in [Accounts -> AccountRow \cup {None}]
  /\ \A a, b \in Accounts :
        a # b /\ InitialAccounts[a] # None /\ InitialAccounts[b] # None
          => InitialAccounts[a].email # InitialAccounts[b].email

VARIABLES
  accounts,   \* the accounts table, by id
  sessions,   \* the sessions table, by id
  minted,     \* ids ever drawn: 128 random bits are never drawn twice
  now,        \* wall clock
  req,        \* the requests in flight
  condemned,  \* history: sessions some handler has undertaken to end
  granted     \* history: accounts an admin (or the seed) ever made admin

tables == <<accounts, sessions, minted>>
vars == <<accounts, sessions, minted, now, req, condemned, granted>>

Blank == [pc |-> "idle", tok |-> None, sub |-> None, row |-> None,
          at |-> 0, tgt |-> None, seen |-> None, dead |-> FALSE]

Request == [pc: {"idle", "mint", "resolve", "load", "ready",
                 "sweep", "patch", "revoke", "impersonate"},
            tok: SessionIds \cup {None},        \* the presented token
            sub: Accounts \cup {None},          \* its account
            row: AccountRow \cup {None},        \* that account as requireAuth read it
            at: Nat,                            \* when the last step ran
            tgt: Accounts \cup SessionIds \cup {None},
            seen: AccountRow \cup {None},       \* the target as the handler read it
            dead: BOOLEAN]    \* history: the token was unusable on arrival

Init ==
  /\ accounts = InitialAccounts
  /\ sessions = [s \in SessionIds |-> None]
  /\ minted = {}
  /\ now = 0
  /\ req = [r \in Requests |-> Blank]
  /\ condemned = {}
  /\ granted = {a \in Accounts : /\ InitialAccounts[a] # None
                                 /\ InitialAccounts[a].admin}

-----------------------------------------------------------------------------
(* The store.  Times are written in whole seconds, rounded down. *)

UnixSeconds(t) == t \div TicksPerSecond

Live(s) == sessions[s] # None /\ sessions[s].revoked = None

(* Mutant of ActiveByToken: the revoked_at test is missing. *)
ActiveUnlessExpired(s, t) ==
  sessions[s] # None /\ sessions[s].expires * TicksPerSecond > t

(* GetActiveSessionByToken compares the stored second with a clock reading
   that still has its fraction ... *)
ActiveByToken(s, t) == Live(s) /\ sessions[s].expires * TicksPerSecond > t

(* ... the listing and the purge truncate the reading first. *)
Listed(s, a, t) ==
  Live(s) /\ sessions[s].account = a /\ sessions[s].expires > UnixSeconds(t)

(* Mutant of Expired: the reading is rounded up. *)
ExpiredSoon(s, t) ==
  sessions[s] # None /\ sessions[s].expires <= UnixSeconds(t) + 1

Expired(s, t) == sessions[s] # None /\ sessions[s].expires <= UnixSeconds(t)

EmailTaken(a, e) ==
  \E b \in Accounts \ {a} : accounts[b] # None /\ accounts[b].email = e

(* UpdateAccount writes the whole row and fails on the UNIQUE email; a
   failure leaves the table as it was. *)
Updates(a, row) == accounts[a] # None /\ ~EmailTaken(a, row.email)

UpdateAccount(a, row) ==
  accounts' = IF Updates(a, row) THEN [accounts EXCEPT ![a] = row] ELSE accounts

(* Mutant of CreateSession: the lifetime is subtracted. *)
CreateExpiredSession(s, a, actor, issued, ttl) ==
  /\ s \notin minted
  /\ minted' = minted \cup {s}
  /\ sessions' = [sessions EXCEPT ![s] =
       [account |-> a, actor |-> actor,
        expires |-> UnixSeconds(issued - ttl), revoked |-> None]]

CreateSession(s, a, actor, issued, ttl) ==
  /\ s \notin minted
  /\ minted' = minted \cup {s}
  /\ sessions' = [sessions EXCEPT ![s] =
       [account |-> a, actor |-> actor,
        expires |-> UnixSeconds(issued + ttl), revoked |-> None]]

(* Mutant of Revoke: impersonation sessions are left out. *)
RevokeLoginsOnly(S, t) ==
  sessions' = [s \in SessionIds |->
    IF s \in S /\ Live(s) /\ sessions[s].actor = None
    THEN [sessions[s] EXCEPT !.revoked = UnixSeconds(t)]
    ELSE sessions[s]]

(* Both revocations skip the rows already stamped. *)
Revoke(S, t) ==
  sessions' = [s \in SessionIds |->
    IF s \in S /\ Live(s)
    THEN [sessions[s] EXCEPT !.revoked = UnixSeconds(t)]
    ELSE sessions[s]]

SessionsOf(a) == {s \in SessionIds : sessions[s] # None /\ sessions[s].account = a}

-----------------------------------------------------------------------------
(* Requests. *)

Reply(r) == req' = [req EXCEPT ![r] = Blank]

(* r runs on up to its next store call, having become q. *)
Advance(r, q) == req' = [req EXCEPT ![r] = [q EXCEPT !.at = now]]

(* A clock reading some step of r took: after its previous step, and maybe
   well before the statement that uses it (the pool may make it wait). *)
Reading(r) == req[r].at .. now

(* A request arrives with a token its client was once given. *)
Arrive(r, s) ==
  /\ req[r].pc = "idle"
  /\ s \in minted
  /\ Advance(r, [Blank EXCEPT !.pc = "resolve", !.tok = s,
                   !.dead = s \in condemned \/ ~ActiveByToken(s, now)])
  /\ UNCHANGED <<tables, now, condemned, granted>>

(* requireAuth, first read: the session must be neither revoked nor expired. *)
ResolveSession(r) ==
  /\ req[r].pc = "resolve"
  /\ \E t \in Reading(r) :
       \/ /\ ActiveByToken(req[r].tok, t)
          /\ Advance(r, [req[r] EXCEPT !.pc = "load",
                                       !.sub = sessions[req[r].tok].account])
       \/ /\ ~ActiveByToken(req[r].tok, t)
          /\ Reply(r)
  /\ UNCHANGED <<tables, now, condemned, granted>>

(* requireAuth, second read: the account must be active.  The row read here
   is what every handler below sees as its caller. *)
LoadAccount(r) ==
  LET row == accounts[req[r].sub] IN
  /\ req[r].pc = "load"
  /\ \/ /\ row # None /\ row.active
        /\ Advance(r, [req[r] EXCEPT !.pc = "ready", !.row = row])
     \/ /\ ~(row # None /\ row.active)
        /\ Reply(r)
  /\ UNCHANGED <<tables, now, condemned, granted>>

(* The handler of a route starts, its caller resolved. *)
Serve(r, route) == req[r].pc = "ready" /\ route \in Routes

(* requireAdmin judges the row requireAuth read. *)
ServeAdmin(r, route) == Serve(r, route) /\ req[r].row.admin

(* A store call fails, the client goes away, the server stops: the request
   ends where it is and what it wrote stays. *)
Abort(r) ==
  /\ req[r].pc # "idle"
  /\ Reply(r)
  /\ UNCHANGED <<tables, now, condemned, granted>>

-----------------------------------------------------------------------------
(* POST /auth/login: look the account up and verify the secret (bcrypt takes
   its time); the session is inserted by a later statement. *)
Login(r, spelling, secret) ==
  /\ "login" \in Routes
  /\ req[r].pc = "idle"
  /\ \E a \in Accounts :
       /\ accounts[a] # None
       /\ accounts[a].email = Fold[spelling]
       /\ accounts[a].secret = secret
       /\ accounts[a].active
       /\ Advance(r, [Blank EXCEPT !.pc = "mint", !.sub = a])
  /\ UNCHANGED <<tables, now, condemned, granted>>

LoginMint(r, s) ==
  /\ req[r].pc = "mint"
  /\ \E t \in Reading(r) : CreateSession(s, req[r].sub, None, t, LoginTTL)
  /\ Reply(r)
  /\ UNCHANGED <<accounts, now, condemned, granted>>

(* POST /auth/logout: this session, or all of the account's. *)
Logout(r) ==
  /\ Serve(r, "logout")
  /\ \E S \in {{req[r].tok}, SessionsOf(req[r].sub)}, t \in Reading(r) :
       /\ Revoke(S, t)
       /\ condemned' = condemned \cup S
  /\ Reply(r)
  /\ UNCHANGED <<accounts, minted, now, granted>>

(* PATCH /me: the caller's row with a new display name. *)
UpdateMe(r, name) ==
  /\ Serve(r, "me")
  /\ UpdateAccount(req[r].sub, [req[r].row EXCEPT !.name = name])
  /\ Reply(r)
  /\ UNCHANGED <<sessions, minted, now, condemned, granted>>

(* POST /me/email, guarded by the current secret. *)
UpdateMyEmail(r, current, spelling) ==
  /\ Serve(r, "email")
  /\ current = req[r].row.secret
  /\ UpdateAccount(req[r].sub, [req[r].row EXCEPT !.email = Fold[spelling]])
  /\ Reply(r)
  /\ UNCHANGED <<sessions, minted, now, condemned, granted>>

(* POST /me/secret: write the row, then end the account's other sessions. *)
UpdateMySecret(r, current, new) ==
  /\ Serve(r, "secret")
  /\ current = req[r].row.secret
  /\ LET row == [req[r].row EXCEPT !.secret = new] IN
     /\ UpdateAccount(req[r].sub, row)
     /\ \/ /\ ~EmailTaken(req[r].sub, row.email)
           /\ Advance(r, [req[r] EXCEPT !.pc = "sweep"])
        \/ /\ EmailTaken(req[r].sub, row.email)
           /\ Reply(r)
  /\ UNCHANGED <<sessions, minted, now, condemned, granted>>

SweepOthers(r) ==
  LET others == SessionsOf(req[r].sub) \ {req[r].tok} IN
  /\ req[r].pc = "sweep"
  /\ \E t \in Reading(r) : Revoke(others, t)
  /\ condemned' = condemned \cup others
  /\ Reply(r)
  /\ UNCHANGED <<accounts, minted, now, granted>>

(* DELETE /me/sessions/{id}: only a session of the caller's own account. *)
FindMySession(r, s) ==
  /\ Serve(r, "sessions")
  /\ s \in SessionsOf(req[r].sub)
  /\ Advance(r, [req[r] EXCEPT !.pc = "revoke", !.tgt = s])
  /\ UNCHANGED <<tables, now, condemned, granted>>

(* DELETE /accounts/{id}/sessions/{id}: a session of the named account. *)
FindAccountSession(r, a, s) ==
  /\ ServeAdmin(r, "accountSession")
  /\ s \in SessionsOf(a)
  /\ Advance(r, [req[r] EXCEPT !.pc = "revoke", !.tgt = s])
  /\ UNCHANGED <<tables, now, condemned, granted>>

(* The end of both: the row may have been purged in between. *)
RevokeFound(r) ==
  /\ req[r].pc = "revoke"
  /\ \E t \in Reading(r) : Revoke({req[r].tgt}, t)
  /\ condemned' = condemned \cup {req[r].tgt}
  /\ Reply(r)
  /\ UNCHANGED <<accounts, minted, now, granted>>

-----------------------------------------------------------------------------
(* The admin group. *)

(* POST /accounts *)
CreateAccount(r, a, spelling, secret, admin, active) ==
  /\ ServeAdmin(r, "create")
  /\ accounts[a] = None
  /\ ~EmailTaken(a, Fold[spelling])
  /\ \E name \in Names : accounts' = [accounts EXCEPT ![a] =
       [email |-> Fold[spelling], name |-> name, secret |-> secret,
        admin |-> admin, active |-> active]]
  /\ granted' = IF admin THEN granted \cup {a} ELSE granted
  /\ Reply(r)
  /\ UNCHANGED <<sessions, minted, now, condemned>>

(* Mutant of ReadForPatch: the route hangs on the authenticated group. *)
ReadForPatchByAnyone(r, a) ==
  /\ Serve(r, "patch")
  /\ accounts[a] # None
  /\ Advance(r, [req[r] EXCEPT !.pc = "patch", !.tgt = a, !.seen = accounts[a]])
  /\ UNCHANGED <<tables, now, condemned, granted>>

(* PATCH /accounts/{id}: read the row ... *)
ReadForPatch(r, a) ==
  /\ ServeAdmin(r, "patch")
  /\ accounts[a] # None
  /\ Advance(r, [req[r] EXCEPT !.pc = "patch", !.tgt = a, !.seen = accounts[a]])
  /\ UNCHANGED <<tables, now, condemned, granted>>

Given(value, current) == IF value = None THEN current ELSE value

(* Mutant of Patched: isActive is copied into is_admin. *)
PatchedCrossed(row, p) ==
  [email |-> IF p.email = None THEN row.email ELSE Fold[p.email],
   name |-> Given(p.name, row.name), secret |-> Given(p.secret, row.secret),
   admin |-> Given(p.active, row.admin), active |-> Given(p.active, row.active)]

Patched(row, p) ==
  [email |-> IF p.email = None THEN row.email ELSE Fold[p.email],
   name |-> Given(p.name, row.name), secret |-> Given(p.secret, row.secret),
   admin |-> Given(p.admin, row.admin), active |-> Given(p.active, row.active)]

(* ... apply the fields the body carries (bcrypt again, for a secret) and
   write all of it back. *)
WritePatch(r, p) ==
  LET row == Patched(req[r].seen, p) IN
  /\ req[r].pc = "patch"
  /\ \E f \in DOMAIN p : p[f] # None
  /\ UpdateAccount(req[r].tgt, row)
  /\ granted' = IF p.admin = TRUE /\ Updates(req[r].tgt, row)
                THEN granted \cup {req[r].tgt} ELSE granted
  /\ Reply(r)
  /\ UNCHANGED <<sessions, minted, now, condemned>>

(* DELETE /accounts/{id}/sessions; accounts are never deleted, so the
   existence check and the update are one step. *)
RevokeAccount(r, a) ==
  /\ ServeAdmin(r, "accountSessions")
  /\ accounts[a] # None
  /\ \E t \in Reading(r) : Revoke(SessionsOf(a), t)
  /\ condemned' = condemned \cup SessionsOf(a)
  /\ Reply(r)
  /\ UNCHANGED <<accounts, minted, now, granted>>

(* POST /admin/impersonation: the target must be another account, active and
   not an admin, when it is read; the session is inserted later. *)
ReadTarget(r, a) ==
  /\ ServeAdmin(r, "impersonate")
  /\ accounts[a] # None /\ a # req[r].sub
  /\ ~accounts[a].admin /\ accounts[a].active
  /\ Advance(r, [req[r] EXCEPT !.pc = "impersonate", !.tgt = a])
  /\ UNCHANGED <<tables, now, condemned, granted>>

(* Mutant of ImpersonationMint: account and actor are swapped. *)
ImpersonationMintSwapped(r, s) ==
  /\ req[r].pc = "impersonate"
  /\ \E t \in Reading(r) :
       CreateSession(s, req[r].sub, req[r].tgt, t, ImpersonationTTL)
  /\ Reply(r)
  /\ UNCHANGED <<accounts, now, condemned, granted>>

ImpersonationMint(r, s) ==
  /\ req[r].pc = "impersonate"
  /\ \E t \in Reading(r) :
       CreateSession(s, req[r].tgt, req[r].sub, t, ImpersonationTTL)
  /\ Reply(r)
  /\ UNCHANGED <<accounts, now, condemned, granted>>

(* POST /admin/sessions/purge: the only DELETE on these tables. *)
Purge(r) ==
  /\ ServeAdmin(r, "purge")
  /\ \E t \in Reading(r) :
       sessions' = [s \in SessionIds |-> IF Expired(s, t) THEN None ELSE sessions[s]]
  /\ Reply(r)
  /\ UNCHANGED <<accounts, minted, now, condemned, granted>>

Tick ==
  /\ now < MaxTime
  /\ now' = now + 1
  /\ UNCHANGED <<tables, req, condemned, granted>>

AuthSteps(r) ==
  \/ \E s \in SessionIds : Arrive(r, s)
  \/ ResolveSession(r) \/ LoadAccount(r) \/ Abort(r)

MemberSteps(r) ==
  \/ \E w \in Spellings, c \in Secrets : Login(r, w, c)
  \/ \E s \in SessionIds : LoginMint(r, s)
  \/ Logout(r)
  \/ \E n \in Names : UpdateMe(r, n)
  \/ \E c \in Secrets, w \in Spellings : UpdateMyEmail(r, c, w)
  \/ \E c, d \in Secrets : UpdateMySecret(r, c, d)
  \/ SweepOthers(r)
  \/ \E s \in SessionIds : FindMySession(r, s)
  \/ RevokeFound(r)

AdminSteps(r) ==
  \/ \E a \in Accounts, w \in Spellings, c \in Secrets, ad, ac \in BOOLEAN :
       CreateAccount(r, a, w, c, ad, ac)
  \/ \E a \in Accounts : ReadForPatch(r, a)
  \/ \E p \in AdminPatches : WritePatch(r, p)
  \/ \E a \in Accounts, s \in SessionIds : FindAccountSession(r, a, s)
  \/ \E a \in Accounts : RevokeAccount(r, a)
  \/ \E a \in Accounts : ReadTarget(r, a)
  \/ \E s \in SessionIds : ImpersonationMint(r, s)
  \/ Purge(r)

Next ==
  \/ Tick
  \/ \E r \in Requests : AuthSteps(r) \/ MemberSteps(r) \/ AdminSteps(r)

Spec == Init /\ [][Next]_vars
-----------------------------------------------------------------------------
(* Properties. *)

(* Every table row, request and history variable has the shape its Go struct
   or column gives it; sessions exist only under ids that were drawn. *)
TypeOK ==
  /\ accounts \in [Accounts -> AccountRow \cup {None}]
  /\ sessions \in [SessionIds -> SessionRow \cup {None}]
  /\ minted \subseteq SessionIds
  /\ now \in Nat
  /\ req \in [Requests -> Request]
  /\ condemned \subseteq SessionIds
  /\ granted \subseteq Accounts

(* No interleaving of creates and whole-row writes gives two accounts one
   email, so a login names at most one account (handleLogin, ADR-0003). *)
EmailsUnique ==
  \A a, b \in Accounts :
    a # b /\ accounts[a] # None /\ accounts[b] # None
      => accounts[a].email # accounts[b].email

(* An account is an admin only if the seed or an admin's request once made it
   one: no self-service route, and no stale row written back, promotes an
   account that never was (me.go writes is_admin on every profile change). *)
NoSelfPromotion ==
  \A a \in Accounts : accounts[a] # None /\ accounts[a].admin => a \in granted

(* What a logout, a revocation or a secret change has ended stays ended,
   whatever else is in flight: nothing lifts the stamp, and no insert brings
   a purged id back (sessions.go: revoked_at, ADR-0002). *)
RevocationIsFinal == \A s \in condemned : ~Live(s)

(* Revocation is immediate (ADR-0002): a request that arrives with a token
   already ended or expired never reaches a handler, however its two reads
   fall between other requests' writes. *)
DeadTokensNeverServe ==
  \A r \in Requests : req[r].dead => req[r].pc = "resolve"

(* The three expiry tests agree at every clock reading although only one of
   them sees the fraction of the second: what a listing shows authenticates,
   and the purge deletes nothing that still would (sessions.go). *)
ExpiryTestsAgree ==
  \A s \in SessionIds, t \in 0 .. MaxTime :
    sessions[s] # None =>
      /\ Listed(s, sessions[s].account, t) <=> ActiveByToken(s, t)
      /\ Expired(s, t) => ~ActiveByToken(s, t)

(* Every impersonation session is attributed to an account that is or was an
   admin, and never to its own subject (handleCreateImpersonation). *)
ImpersonationAttributed ==
  \A s \in SessionIds :
    sessions[s] # None /\ sessions[s].actor # None =>
      /\ sessions[s].actor # sessions[s].account
      /\ sessions[s].actor \in granted

(* A session row, once inserted, changes in two ways only: it is stamped,
   once, or it is deleted after it expired (the only DELETE). *)
SessionsOnlyEnd ==
  [][\A s \in SessionIds :
       sessions[s] # None /\ sessions'[s] # sessions[s] =>
         \/ sessions'[s] = None /\ Expired(s, now)
         \/ /\ Live(s)
            /\ sessions'[s] = [sessions[s] EXCEPT !.revoked = sessions'[s].revoked]
    ]_vars

(* The session behind an id as a client meets it: a row that is stamped, expired
   or purged makes no difference to anybody. *)
Standing(s) ==
  IF s \notin minted THEN [state |-> "unissued"]
  ELSE IF Live(s) /\ sessions[s].expires * TicksPerSecond > now
  THEN [state |-> "open", account |-> sessions[s].account, actor |-> sessions[s].actor,
        until |-> sessions[s].expires * TicksPerSecond]
  ELSE [state |-> "over"]

(* The tables keep the promise SessionLedger makes: whatever the requests in flight
   do to each other, a session is ended by its time or together with its account's,
   and a purge, which goes by truncated seconds, ends none (sessions.go). *)
Ledger == INSTANCE SessionLedger WITH
  ledger <- [s \in SessionIds |-> Standing(s)],
  time <- now

LedgerSpec == Ledger!Spec

(* A step that changes another account's row or sessions is taken by a request
   whose caller requireAuth read as an admin; everybody else's requests touch
   only the account behind their own token. *)
ActsOnlyForItself(r) ==
  LET owner(s) == IF sessions[s] # None THEN sessions[s].account ELSE sessions'[s].account
  IN  /\ \A a \in Accounts : accounts'[a] # accounts[a] => a = req[r].sub
      /\ \A s \in SessionIds : sessions'[s] # sessions[s] => owner(s) = req[r].sub

OnlyAdminsReachOthers ==
  [][\A r \in Requests :
       req'[r] # req[r] => \/ req[r].row # None /\ req[r].row.admin
                           \/ ActsOnlyForItself(r)]_vars

(* PATCH /me is "limited to the non-sensitive displayName" (me.go). *)
ProfileUpdateIsLimited ==
  [][\A r \in Requests, n \in Names, a \in Accounts :
       UpdateMe(r, n) /\ accounts'[a] # accounts[a] =>
         accounts'[a] = [accounts[a] EXCEPT !.name = n]]_vars

(* Sessions are "revoked immediately on logout or account deactivation"
   (handlers.go): none of an account's survives the write that deactivates it. *)
DeactivationRevokes ==
  [][\A a \in Accounts, s \in SessionIds :
       accounts[a] # None /\ s \in SessionsOf(a) =>
         (accounts[a].active /\ ~accounts'[a].active => ~Live(s)')]_vars
=============================================================================
