----------------------------- MODULE AuthProofs -----------------------------
(* What TLAPS proves of Auth, for every table, clock and number of requests. *)
EXTENDS Auth, TLAPS

(* What a request has read by the time it is at a given step. *)
Wellformed(q) ==
  /\ q.pc \notin {"idle", "mint"} => q.tok \in SessionIds
  /\ q.pc \notin {"idle", "resolve"} => q.sub \in Accounts
  /\ q.pc \notin {"idle", "mint", "resolve", "load"} => q.row \in AccountRow
  /\ q.pc = "patch" => q.tgt \in Accounts /\ q.seen \in AccountRow
  /\ q.pc = "revoke" => q.tgt \in SessionIds
  /\ q.pc = "impersonate" => q.tgt \in Accounts

Shape == TypeOK /\ \A r \in Requests : Wellformed(req[r])

(* A request that ends, and every request that does not move, keeps its shape. *)
LEMMA BlankShape == Blank \in Request /\ Wellformed(Blank)
  BY NoneIsNoValue DEF Blank, Request, Wellformed

LEMMA ReplyShape ==
  ASSUME Shape, NEW r \in Requests, Reply(r)
  PROVE  req' \in [Requests -> Request] /\ \A x \in Requests : Wellformed(req'[x])
  BY BlankShape DEF Shape, TypeOK, Reply

LEMMA AdvanceShape ==
  ASSUME Shape, NEW r \in Requests, NEW q \in Request, Wellformed(q), Advance(r, q)
  PROVE  req' \in [Requests -> Request] /\ \A x \in Requests : Wellformed(req'[x])
  <1>1. [q EXCEPT !.at = now] \in Request
    BY DEF Shape, TypeOK, Request
  <1>2. Wellformed([q EXCEPT !.at = now])
    BY DEF Request, Wellformed
  <1> QED BY <1>1, <1>2 DEF Shape, TypeOK, Advance

LEMMA RequestType ==
  ASSUME Shape, NEW r \in Requests
  PROVE  req[r] \in Request /\ Wellformed(req[r])
  BY DEF Shape, TypeOK

(* The statements of the store keep the tables typed. *)
LEMMA UpdateAccountType ==
  ASSUME TypeOK, NEW a \in Accounts, NEW row \in AccountRow, UpdateAccount(a, row)
  PROVE  accounts' \in [Accounts -> AccountRow \cup {None}]
  BY DEF TypeOK, UpdateAccount, Updates

LEMMA UnixSecondsType == \A t \in Nat : UnixSeconds(t) \in Nat
  BY ParameterTypes DEF UnixSeconds

LEMMA CreateSessionType ==
  ASSUME TypeOK, NEW s \in SessionIds, NEW a \in Accounts,
         NEW actor \in Accounts \cup {None}, NEW t \in Nat, NEW ttl \in Nat,
         CreateSession(s, a, actor, t, ttl)
  PROVE  /\ sessions' \in [SessionIds -> SessionRow \cup {None}]
         /\ minted' \subseteq SessionIds
  BY UnixSecondsType DEF TypeOK, CreateSession, SessionRow

LEMMA RevokeType ==
  ASSUME TypeOK, NEW S, NEW t \in Nat, Revoke(S, t)
  PROVE  sessions' \in [SessionIds -> SessionRow \cup {None}]
  <1> SUFFICES ASSUME NEW s \in SessionIds PROVE sessions'[s] \in SessionRow \cup {None}
    BY DEF Revoke
  <1>1. CASE s \in S /\ Live(s)
    <2>1. sessions[s] \in SessionRow
      BY <1>1 DEF TypeOK, Live
    <2> QED BY <1>1, <2>1, UnixSecondsType DEF Revoke, SessionRow
  <1>2. CASE ~(s \in S /\ Live(s))
    BY <1>2 DEF Revoke, TypeOK
  <1> QED BY <1>1, <1>2

LEMMA ReadingType == TypeOK => \A r \in Requests : Reading(r) \subseteq Nat
  BY DEF TypeOK, Request, Reading

LEMMA InitShape == Init => Shape
  BY BlankShape, InitialTable DEF Init, Shape, TypeOK

(* One lemma per group of actions. *)
LEMMA AuthStepsShape ==
  ASSUME Shape, NEW r \in Requests, AuthSteps(r)
  PROVE  Shape'
  <1> DEFINE q == req[r]
  <1>0. q \in Request /\ Wellformed(q)
    BY RequestType
  <1>1. ASSUME NEW s \in SessionIds, Arrive(r, s) PROVE Shape'
    <2> DEFINE n == [Blank EXCEPT !.pc = "resolve", !.tok = s,
                       !.dead = s \in condemned \/ ~ActiveByToken(s, now)]
    <2>1. n \in Request /\ Wellformed(n)
      BY NoneIsNoValue DEF Blank, Request, Wellformed
    <2> QED BY <1>1, <2>1, AdvanceShape DEF Arrive, Shape, TypeOK, tables
  <1>2. CASE ResolveSession(r)
    <2> DEFINE n == [q EXCEPT !.pc = "load", !.sub = sessions[q.tok].account]
    <2>1. ASSUME NEW t \in Reading(r), ActiveByToken(q.tok, t)
          PROVE  n \in Request /\ Wellformed(n)
      <3>1. sessions[q.tok] \in SessionRow /\ q.tok \in SessionIds
        BY <1>0, <1>2, <2>1 DEF ResolveSession, Wellformed, Shape, TypeOK, ActiveByToken, Live
      <3> QED BY <1>0, <3>1 DEF Request, Wellformed, SessionRow
    <2> QED BY <1>2, <2>1, ReplyShape, AdvanceShape DEF ResolveSession, Shape, TypeOK, tables
  <1>3. CASE LoadAccount(r)
    <2> DEFINE n == [q EXCEPT !.pc = "ready", !.row = accounts[q.sub]]
    <2>1. CASE accounts[q.sub] # None
      <3>1. accounts[q.sub] \in AccountRow /\ q.tok \in SessionIds /\ q.sub \in Accounts
        BY <1>0, <1>3, <2>1 DEF LoadAccount, Wellformed, Shape, TypeOK
      <3>2. n \in Request /\ Wellformed(n)
        BY <1>0, <3>1 DEF Request, Wellformed
      <3> QED BY <1>3, <3>2, ReplyShape, AdvanceShape DEF LoadAccount, Shape, TypeOK, tables
    <2>2. CASE accounts[q.sub] = None
      BY <1>3, <2>2, ReplyShape DEF LoadAccount, Shape, TypeOK, tables
    <2> QED BY <2>1, <2>2
  <1>4. CASE Abort(r)
    BY <1>4, ReplyShape DEF Abort, Shape, TypeOK, tables
  <1> QED BY <1>1, <1>2, <1>3, <1>4 DEF AuthSteps

(* The routes of a member, and then the admin's. *)
LEMMA MemberStepsShape ==
  ASSUME Shape, NEW r \in Requests, MemberSteps(r)
  PROVE  Shape'
  <1> DEFINE q == req[r]
  <1>0. q \in Request /\ Wellformed(q)
    BY RequestType
  <1>1. ASSUME NEW w \in Spellings, NEW c \in Secrets, Login(r, w, c) PROVE Shape'
    <2>1. ASSUME NEW a \in Accounts
          PROVE  /\ [Blank EXCEPT !.pc = "mint", !.sub = a] \in Request
                 /\ Wellformed([Blank EXCEPT !.pc = "mint", !.sub = a])
      BY NoneIsNoValue DEF Blank, Request, Wellformed
    <2> QED BY <1>1, <2>1, AdvanceShape DEF Login, Shape, TypeOK, tables
  <1>2. ASSUME NEW s \in SessionIds, LoginMint(r, s) PROVE Shape'
    <2>1. req[r].sub \in Accounts
      BY <1>2 DEF LoginMint, Shape, Wellformed
    <2> QED BY <1>2, <2>1, ReplyShape, CreateSessionType, ReadingType, ParameterTypes
            DEF LoginMint, Shape, TypeOK
  <1>3. CASE Logout(r)
    <2>1. req[r].tok \in SessionIds /\ SessionsOf(req[r].sub) \subseteq SessionIds
      BY <1>3 DEF Logout, Serve, Shape, Wellformed, SessionsOf
    <2> QED BY <1>3, <2>1, ReplyShape, RevokeType, ReadingType DEF Logout, Shape, TypeOK
  <1>4. ASSUME NEW n \in Names, UpdateMe(r, n) PROVE Shape'
    <2>1. req[r].sub \in Accounts /\ req[r].row \in AccountRow
      BY <1>4 DEF UpdateMe, Serve, Shape, Wellformed
    <2>2. [req[r].row EXCEPT !.name = n] \in AccountRow
      BY <2>1 DEF AccountRow
    <2> QED BY <1>4, <2>1, <2>2, ReplyShape, UpdateAccountType DEF UpdateMe, Shape, TypeOK
  <1>5. ASSUME NEW c \in Secrets, NEW w \in Spellings, UpdateMyEmail(r, c, w) PROVE Shape'
    <2>1. req[r].sub \in Accounts /\ req[r].row \in AccountRow
      BY <1>5 DEF UpdateMyEmail, Serve, Shape, Wellformed
    <2>2. [req[r].row EXCEPT !.email = Fold[w]] \in AccountRow
      BY <2>1, ParameterTypes DEF AccountRow
    <2> QED BY <1>5, <2>1, <2>2, ReplyShape, UpdateAccountType DEF UpdateMyEmail, Shape, TypeOK
  <1>6. ASSUME NEW c \in Secrets, NEW d \in Secrets, UpdateMySecret(r, c, d) PROVE Shape'
    <2>1. req[r].sub \in Accounts /\ req[r].row \in AccountRow /\ req[r].tok \in SessionIds
      BY <1>6 DEF UpdateMySecret, Serve, Shape, Wellformed
    <2>2. [req[r].row EXCEPT !.secret = d] \in AccountRow
      BY <2>1 DEF AccountRow
    <2>3. accounts' \in [Accounts -> AccountRow \cup {None}]
      BY <1>6, <2>1, <2>2, UpdateAccountType DEF UpdateMySecret, Shape
    <2>4. /\ req' \in [Requests -> Request]
          /\ \A x \in Requests : Wellformed(req'[x])
      <3>1. CASE Reply(r) BY <3>1, ReplyShape
      <3> DEFINE n == [q EXCEPT !.pc = "sweep"]
      <3>2. n \in Request /\ Wellformed(n)
        BY <1>0, <2>1 DEF Request, Wellformed
      <3>3. CASE Advance(r, n) BY <3>2, <3>3, AdvanceShape
      <3> QED BY <1>6, <3>1, <3>3 DEF UpdateMySecret
    <2> QED BY <1>6, <2>3, <2>4 DEF UpdateMySecret, Shape, TypeOK
  <1>7. CASE SweepOthers(r)
    <2>1. SessionsOf(req[r].sub) \subseteq SessionIds
      BY DEF SessionsOf
    <2> QED BY <1>7, <2>1, ReplyShape, RevokeType, ReadingType DEF SweepOthers, Shape, TypeOK
  <1>8. ASSUME NEW s \in SessionIds, FindMySession(r, s) PROVE Shape'
    <2> DEFINE n == [q EXCEPT !.pc = "revoke", !.tgt = s]
    <2>1. n \in Request /\ Wellformed(n)
      BY <1>0, <1>8 DEF FindMySession, Serve, Request, Wellformed
    <2> QED BY <1>8, <2>1, AdvanceShape DEF FindMySession, Shape, TypeOK, tables
  <1>9. CASE RevokeFound(r)
    <2>1. req[r].tgt \in SessionIds
      BY <1>9 DEF RevokeFound, Shape, Wellformed
    <2> QED BY <1>9, <2>1, ReplyShape, RevokeType, ReadingType DEF RevokeFound, Shape, TypeOK
  <1> QED BY <1>1, <1>2, <1>3, <1>4, <1>5, <1>6, <1>7, <1>8, <1>9 DEF MemberSteps

(* Applying a body to a typed row gives a typed row. *)
LEMMA PatchedType ==
  ASSUME NEW row \in AccountRow, NEW p \in AdminPatches
  PROVE  Patched(row, p) \in AccountRow
  <1>1. p \in Patch
    BY ParameterTypes
  <1> QED BY <1>1, ParameterTypes, NoneIsNoValue DEF Patch, Patched, Given, AccountRow

LEMMA AdminStepsShape ==
  ASSUME Shape, NEW r \in Requests, AdminSteps(r)
  PROVE  Shape'
  <1> DEFINE q == req[r]
  <1>0. q \in Request /\ Wellformed(q)
    BY RequestType
  <1>1. ASSUME NEW a \in Accounts, NEW w \in Spellings, NEW c \in Secrets,
               NEW ad \in BOOLEAN, NEW ac \in BOOLEAN, CreateAccount(r, a, w, c, ad, ac)
        PROVE  Shape'
    <2>1. ASSUME NEW n \in Names
          PROVE  [email |-> Fold[w], name |-> n, secret |-> c, admin |-> ad, active |-> ac]
                   \in AccountRow
      BY ParameterTypes DEF AccountRow
    <2>2. accounts' \in [Accounts -> AccountRow \cup {None}]
      BY <1>1, <2>1 DEF CreateAccount, Shape, TypeOK
    <2> QED BY <1>1, <2>2, ReplyShape DEF CreateAccount, Shape, TypeOK
  <1>2. ASSUME NEW a \in Accounts, ReadForPatch(r, a) PROVE Shape'
    <2>0. accounts[a] \in AccountRow /\ q.pc = "ready"
      BY <1>2 DEF ReadForPatch, ServeAdmin, Serve, Shape, TypeOK
    <2> DEFINE n == [q EXCEPT !.pc = "patch", !.tgt = a, !.seen = accounts[a]]
    <2>1. n \in Request /\ Wellformed(n)
      BY <1>0, <2>0 DEF Request, Wellformed
    <2> QED BY <1>2, <2>1, AdvanceShape DEF ReadForPatch, Shape, TypeOK, tables
  <1>3. ASSUME NEW p \in AdminPatches, WritePatch(r, p) PROVE Shape'
    <2>1. req[r].tgt \in Accounts /\ Patched(req[r].seen, p) \in AccountRow
      BY <1>3, PatchedType DEF WritePatch, Shape, Wellformed
    <2> QED BY <1>3, <2>1, ReplyShape, UpdateAccountType DEF WritePatch, Shape, TypeOK
  <1>4. ASSUME NEW a \in Accounts, NEW s \in SessionIds, FindAccountSession(r, a, s)
        PROVE  Shape'
    <2> DEFINE n == [q EXCEPT !.pc = "revoke", !.tgt = s]
    <2>1. n \in Request /\ Wellformed(n)
      BY <1>0, <1>4 DEF FindAccountSession, ServeAdmin, Serve, Request, Wellformed
    <2> QED BY <1>4, <2>1, AdvanceShape DEF FindAccountSession, Shape, TypeOK, tables
  <1>5. ASSUME NEW a \in Accounts, RevokeAccount(r, a) PROVE Shape'
    <2>1. SessionsOf(a) \subseteq SessionIds
      BY DEF SessionsOf
    <2> QED BY <1>5, <2>1, ReplyShape, RevokeType, ReadingType DEF RevokeAccount, Shape, TypeOK
  <1>6. ASSUME NEW a \in Accounts, ReadTarget(r, a) PROVE Shape'
    <2> DEFINE n == [q EXCEPT !.pc = "impersonate", !.tgt = a]
    <2>1. n \in Request /\ Wellformed(n)
      BY <1>0, <1>6 DEF ReadTarget, ServeAdmin, Serve, Request, Wellformed
    <2> QED BY <1>6, <2>1, AdvanceShape DEF ReadTarget, Shape, TypeOK, tables
  <1>7. ASSUME NEW s \in SessionIds, ImpersonationMint(r, s) PROVE Shape'
    <2>1. req[r].sub \in Accounts /\ req[r].tgt \in Accounts
      BY <1>7 DEF ImpersonationMint, Shape, Wellformed
    <2> QED BY <1>7, <2>1, ReplyShape, CreateSessionType, ReadingType, ParameterTypes
            DEF ImpersonationMint, Shape, TypeOK
  <1>8. CASE Purge(r)
    <2>1. sessions' \in [SessionIds -> SessionRow \cup {None}]
      BY <1>8 DEF Purge, Shape, TypeOK
    <2> QED BY <1>8, <2>1, ReplyShape DEF Purge, Shape, TypeOK
  <1> QED BY <1>1, <1>2, <1>3, <1>4, <1>5, <1>6, <1>7, <1>8 DEF AdminSteps

LEMMA ShapeInductive == Shape /\ [Next]_vars => Shape'
  <1> SUFFICES ASSUME Shape, [Next]_vars PROVE Shape'
    OBVIOUS
  <1>1. CASE Tick
    BY <1>1 DEF Tick, Shape, TypeOK, tables
  <1>2. CASE UNCHANGED vars
    BY <1>2 DEF vars, Shape, TypeOK, Wellformed
  <1> QED BY <1>1, <1>2, AuthStepsShape, MemberStepsShape, AdminStepsShape DEF Next

(* Every reachable state is typed: no interleaving of handlers writes a row
   with a field missing or acts on a row it never read. *)
THEOREM TypeCorrect == Spec => []TypeOK
  <1>1. Shape => TypeOK
    BY DEF Shape
  <1> QED BY <1>1, InitShape, ShapeInductive, PTL DEF Spec

-----------------------------------------------------------------------------
(* Whole seconds against the clock's fractions. *)

LEMMA UnixSecondsBounds ==
  \A t \in Nat : /\ UnixSeconds(t) \in Nat
                 /\ UnixSeconds(t) * TicksPerSecond <= t
                 /\ t < UnixSeconds(t) * TicksPerSecond + TicksPerSecond
  BY ParameterTypes, Z3 DEF UnixSeconds

LEMMA UnixSecondsMonotone ==
  ASSUME NEW t \in Nat, NEW u \in Nat, t <= u
  PROVE  UnixSeconds(t) <= UnixSeconds(u)
  BY ParameterTypes, Z3 DEF UnixSeconds

(* A stored second lies after a reading exactly if it lies after the second
   the reading is truncated to. *)
LEMMA TruncationExact ==
  ASSUME NEW e \in Nat, NEW t \in Nat
  PROVE  e * TicksPerSecond > t <=> e > UnixSeconds(t)
  <1> DEFINE d == UnixSeconds(t)
  <1>1. /\ d \in Nat /\ TicksPerSecond \in Nat \ {0}
        /\ d * TicksPerSecond <= t /\ t < d * TicksPerSecond + TicksPerSecond
    BY UnixSecondsBounds, ParameterTypes
  <1> HIDE DEF d
  <1>2. ASSUME e > d PROVE e * TicksPerSecond > t
    <2>1. e * TicksPerSecond >= (d + 1) * TicksPerSecond
      BY <1>1, <1>2
    <2>2. (d + 1) * TicksPerSecond = d * TicksPerSecond + TicksPerSecond
      BY <1>1
    <2> QED BY <1>1, <2>1, <2>2
  <1>3. ASSUME e <= d PROVE e * TicksPerSecond <= t
    <2>1. e * TicksPerSecond <= d * TicksPerSecond
      BY <1>1, <1>3
    <2> QED BY <1>1, <2>1
  <1> QED BY <1>1, <1>2, <1>3 DEF d

(* Authentication, listing and purge draw the same line at every instant. *)
THEOREM ExpiryConsistent == Spec => []ExpiryTestsAgree
  <1>1. TypeOK => ExpiryTestsAgree
    <2> SUFFICES ASSUME TypeOK, NEW s \in SessionIds, NEW t \in 0 .. MaxTime,
                        sessions[s] # None
                 PROVE  /\ Listed(s, sessions[s].account, t) <=> ActiveByToken(s, t)
                        /\ Expired(s, t) => ~ActiveByToken(s, t)
      BY DEF ExpiryTestsAgree
    <2>1. t \in Nat /\ sessions[s].expires \in Nat
      BY ParameterTypes DEF TypeOK, SessionRow
    <2>2. /\ sessions[s].expires * TicksPerSecond > t <=> sessions[s].expires > UnixSeconds(t)
          /\ UnixSeconds(t) \in Nat
      BY <2>1, TruncationExact, UnixSecondsBounds
    <2> QED BY <2>1, <2>2 DEF Listed, ActiveByToken, Expired
  <1> QED BY <1>1, TypeCorrect, PTL

-----------------------------------------------------------------------------
(* One email, one account. *)

LEMMA UpdateAccountUnique ==
  ASSUME TypeOK, EmailsUnique, NEW a \in Accounts, NEW row \in AccountRow,
         UpdateAccount(a, row)
  PROVE  EmailsUnique'
  BY DEF TypeOK, EmailsUnique, UpdateAccount, Updates, EmailTaken

LEMMA EmailsUniqueInductive == Shape /\ EmailsUnique /\ [Next]_vars => EmailsUnique'
  <1> SUFFICES ASSUME Shape, EmailsUnique, [Next]_vars PROVE EmailsUnique'
    OBVIOUS
  <1>1. CASE UNCHANGED accounts
    BY <1>1 DEF EmailsUnique
  <1>2. ASSUME NEW r \in Requests, MemberSteps(r) PROVE EmailsUnique'
    <2>0. Wellformed(req[r])
      BY RequestType
    <2>1. ASSUME NEW n \in Names, UpdateMe(r, n) PROVE EmailsUnique'
      <3>1. req[r].sub \in Accounts /\ [req[r].row EXCEPT !.name = n] \in AccountRow
        BY <2>0, <2>1 DEF UpdateMe, Serve, Wellformed, AccountRow
      <3> QED BY <2>1, <3>1, UpdateAccountUnique DEF UpdateMe, Shape
    <2>2. ASSUME NEW c \in Secrets, NEW w \in Spellings, UpdateMyEmail(r, c, w)
          PROVE  EmailsUnique'
      <3>1. req[r].sub \in Accounts /\ [req[r].row EXCEPT !.email = Fold[w]] \in AccountRow
        BY <2>0, <2>2, ParameterTypes DEF UpdateMyEmail, Serve, Wellformed, AccountRow
      <3> QED BY <2>2, <3>1, UpdateAccountUnique DEF UpdateMyEmail, Shape
    <2>3. ASSUME NEW c \in Secrets, NEW d \in Secrets, UpdateMySecret(r, c, d)
          PROVE  EmailsUnique'
      <3>1. req[r].sub \in Accounts /\ [req[r].row EXCEPT !.secret = d] \in AccountRow
        BY <2>0, <2>3 DEF UpdateMySecret, Serve, Wellformed, AccountRow
      <3> QED BY <2>3, <3>1, UpdateAccountUnique DEF UpdateMySecret, Shape
    <2> QED BY <1>1, <1>2, <2>1, <2>2, <2>3 DEF MemberSteps, Login, LoginMint, Logout,
         SweepOthers, FindMySession, RevokeFound, tables
  <1>3. ASSUME NEW r \in Requests, AdminSteps(r) PROVE EmailsUnique'
    <2>1. ASSUME NEW a \in Accounts, NEW w \in Spellings, NEW c \in Secrets,
                 NEW ad \in BOOLEAN, NEW ac \in BOOLEAN, CreateAccount(r, a, w, c, ad, ac)
          PROVE  EmailsUnique'
      BY <2>1 DEF CreateAccount, EmailTaken, EmailsUnique, Shape, TypeOK
    <2>2. ASSUME NEW p \in AdminPatches, WritePatch(r, p) PROVE EmailsUnique'
      <3>1. req[r].tgt \in Accounts /\ Patched(req[r].seen, p) \in AccountRow
        BY <2>2, RequestType, PatchedType DEF WritePatch, Wellformed
      <3> QED BY <2>2, <3>1, UpdateAccountUnique DEF WritePatch, Shape
    <2> QED BY <1>1, <1>3, <2>1, <2>2 DEF AdminSteps, ReadForPatch, FindAccountSession,
         RevokeAccount, ReadTarget, ImpersonationMint, Purge, tables
  <1> QED BY <1>1, <1>2, <1>3 DEF Next, Tick, AuthSteps, Arrive, ResolveSession,
       LoadAccount, Abort, tables, vars

(* However many whole-row writes race, the UNIQUE email holds the table to one
   account per email. *)
THEOREM OneAccountPerEmail == Spec => []EmailsUnique
  <1>1. Init => EmailsUnique
    BY InitialTable DEF Init, EmailsUnique
  <1> QED BY <1>1, InitShape, ShapeInductive, EmailsUniqueInductive, PTL DEF Spec

-----------------------------------------------------------------------------
(* Sessions only end. *)

(* Rows and condemnations are of drawn ids, and requests name drawn ids. *)
Drawn ==
  /\ \A s \in SessionIds : sessions[s] # None => s \in minted
  /\ condemned \subseteq minted
  /\ \A r \in Requests :
        /\ req[r].pc \notin {"idle", "mint"} => req[r].tok \in minted
        /\ req[r].pc = "revoke" => req[r].tgt \in minted

(* What a step may do to the row of a drawn id. *)
Kept(s) == sessions'[s] = sessions[s]

Stamped(s) ==
  /\ Live(s)
  /\ sessions'[s] = [sessions[s] EXCEPT !.revoked = sessions'[s].revoked]
  /\ sessions'[s] # None /\ sessions'[s].revoked # None

Deleted(s) == Expired(s, now) /\ sessions'[s] = None

OnlyEnds == \A s \in minted : Kept(s) \/ Stamped(s) \/ Deleted(s)

LEMMA RevokeOnlyEnds ==
  ASSUME Shape, NEW S, NEW t \in Nat, Revoke(S, t)
  PROVE  OnlyEnds /\ \A s \in S \cap SessionIds : ~Live(s)'
  <1> SUFFICES ASSUME NEW s \in SessionIds
               PROVE  /\ Kept(s) \/ Stamped(s)
                      /\ s \in S => ~Live(s)'
    BY DEF OnlyEnds, Shape, TypeOK
  <1>1. CASE s \in S /\ Live(s)
    <2>1. sessions[s] \in SessionRow /\ UnixSeconds(t) \in Nat
      BY <1>1, UnixSecondsType DEF Shape, TypeOK, Live
    <2>2. sessions'[s] = [sessions[s] EXCEPT !.revoked = UnixSeconds(t)]
      BY <1>1 DEF Revoke
    <2>3. /\ sessions'[s] \in SessionRow /\ sessions'[s] # None
          /\ sessions'[s].revoked = UnixSeconds(t) /\ UnixSeconds(t) # None
      BY <2>1, <2>2, NoneIsNoValue DEF SessionRow
    <2> QED BY <1>1, <2>2, <2>3 DEF Stamped, Live
  <1>2. CASE ~(s \in S /\ Live(s))
    BY <1>2 DEF Revoke, Kept, Live
  <1> QED BY <1>1, <1>2

LEMMA CreateOnlyEnds ==
  ASSUME Shape, NEW s \in SessionIds, NEW a, NEW actor, NEW t, NEW ttl,
         CreateSession(s, a, actor, t, ttl)
  PROVE  OnlyEnds
  BY DEF CreateSession, OnlyEnds, Kept, Shape, TypeOK

LEMMA StepOnlyEnds == Shape /\ [Next]_vars => OnlyEnds
  <1> SUFFICES ASSUME Shape, [Next]_vars PROVE OnlyEnds
    OBVIOUS
  <1>1. CASE UNCHANGED sessions
    BY <1>1 DEF OnlyEnds, Kept
  <1>2. ASSUME NEW r \in Requests, MemberSteps(r) PROVE OnlyEnds
    <2>1. ASSUME NEW s \in SessionIds, LoginMint(r, s) PROVE OnlyEnds
      BY <2>1, CreateOnlyEnds DEF LoginMint
    <2>2. CASE Logout(r)
      BY <2>2, RevokeOnlyEnds, ReadingType DEF Logout, Shape
    <2>3. CASE SweepOthers(r)
      BY <2>3, RevokeOnlyEnds, ReadingType DEF SweepOthers, Shape
    <2>4. CASE RevokeFound(r)
      BY <2>4, RevokeOnlyEnds, ReadingType DEF RevokeFound, Shape
    <2> QED BY <1>1, <1>2, <2>1, <2>2, <2>3, <2>4 DEF MemberSteps, Login, UpdateMe,
         UpdateMyEmail, UpdateMySecret, FindMySession, tables
  <1>3. ASSUME NEW r \in Requests, AdminSteps(r) PROVE OnlyEnds
    <2>1. ASSUME NEW a \in Accounts, RevokeAccount(r, a) PROVE OnlyEnds
      BY <2>1, RevokeOnlyEnds, ReadingType DEF RevokeAccount, Shape
    <2>2. ASSUME NEW s \in SessionIds, ImpersonationMint(r, s) PROVE OnlyEnds
      BY <2>2, CreateOnlyEnds DEF ImpersonationMint
    <2>3. CASE Purge(r)
      <3>1. PICK t \in Reading(r) : \A s \in SessionIds :
              sessions'[s] = IF Expired(s, t) THEN None ELSE sessions[s]
        BY <2>3 DEF Purge
      <3>2. t \in Nat /\ now \in Nat /\ t <= now
        BY <3>1, ReadingType DEF Reading, Shape, TypeOK, Request
      <3>3. ASSUME NEW s \in SessionIds, Expired(s, t) PROVE Expired(s, now)
        <4>1. sessions[s].expires \in Nat
          BY <3>3 DEF Expired, Shape, TypeOK, SessionRow
        <4> QED BY <3>2, <3>3, <4>1, UnixSecondsMonotone, UnixSecondsType DEF Expired
      <3> QED BY <3>1, <3>3 DEF OnlyEnds, Kept, Deleted, Shape, TypeOK
    <2> QED BY <1>1, <1>3, <2>1, <2>2, <2>3 DEF AdminSteps, CreateAccount, ReadForPatch,
         WritePatch, FindAccountSession, ReadTarget, tables
  <1> QED BY <1>1, <1>2, <1>3 DEF Next, Tick, AuthSteps, Arrive, ResolveSession,
       LoadAccount, Abort, tables, vars


(* A session of no more use to a clock that has reached t. *)
Doomed(s, t) == ~Live(s) \/ sessions[s].expires * TicksPerSecond <= t

(* The inductive strengthening behind both theorems on ended sessions: a
   request that arrived with a dead token is stuck before its first read,
   because the token's row can only get worse. *)
DeadWaits(r) ==
  req[r].dead => req[r].pc = "resolve" /\ Doomed(req[r].tok, req[r].at)

Lifetimes == Drawn /\ RevocationIsFinal /\ \A r \in Requests : DeadWaits(r)

LEMMA DoomedStays ==
  ASSUME Shape, OnlyEnds, NEW s \in minted, NEW t, Doomed(s, t)
  PROVE  Doomed(s, t)'
  <1>1. CASE Kept(s)
    BY <1>1 DEF Doomed, Kept, Live
  <1>2. CASE Stamped(s)
    BY <1>2 DEF Doomed, Stamped, Live
  <1>3. CASE Deleted(s)
    BY <1>3 DEF Doomed, Deleted, Live
  <1> QED BY <1>1, <1>2, <1>3 DEF OnlyEnds

LEMMA EndedStays ==
  ASSUME Shape, Drawn, RevocationIsFinal, OnlyEnds
  PROVE  \A s \in condemned : ~Live(s)'
  BY DEF Drawn, RevocationIsFinal, OnlyEnds, Kept, Stamped, Deleted, Live

LEMMA OthersLifetimes ==
  ASSUME Shape, Lifetimes, OnlyEnds, NEW r \in Requests, NEW x \in Requests \ {r},
         NEW q, req' = [req EXCEPT ![r] = q]
  PROVE  DeadWaits(x)'
  <1> SUFFICES ASSUME req'[x].dead
               PROVE  req'[x].pc = "resolve" /\ (Doomed(req[x].tok, req[x].at))'
    BY DEF DeadWaits
  <1>1. req'[x] = req[x]
    BY DEF Shape, TypeOK
  <1>2. req[x].tok \in minted /\ req[x].pc = "resolve" /\ Doomed(req[x].tok, req[x].at)
    BY <1>1 DEF Lifetimes, Drawn, DeadWaits
  <1>3. PICK s, t : s = req[x].tok /\ t = req[x].at
    OBVIOUS
  <1>4. Doomed(s, t)'
    BY <1>2, <1>3, DoomedStays
  <1>5. (Doomed(req[x].tok, req[x].at))'
    BY <1>1, <1>3, <1>4 DEF Doomed, Live
  <1> QED BY <1>1, <1>2, <1>5

LEMMA ReplyLifetimes ==
  ASSUME Shape, Shape', Lifetimes, OnlyEnds, NEW r \in Requests, Reply(r),
         minted \subseteq minted', condemned' \subseteq minted',
         \A s \in SessionIds : sessions'[s] # None => s \in minted',
         \A s \in condemned' : ~Live(s)'
  PROVE  Lifetimes'
  <1>1. req'[r] = Blank /\ \A x \in Requests \ {r} : req'[x] = req[x]
    BY DEF Reply, Shape, TypeOK
  <1>2. Drawn'
    BY <1>1 DEF Drawn, Blank, Lifetimes
  <1>3. RevocationIsFinal'
    BY DEF RevocationIsFinal
  <1>4. ASSUME NEW x \in Requests PROVE DeadWaits(x)'
    <2>1. CASE x = r
      BY <1>1, <2>1 DEF DeadWaits, Blank
    <2>2. CASE x # r
      BY <2>2, OthersLifetimes DEF Reply
    <2> QED BY <2>1, <2>2
  <1> QED BY <1>2, <1>3, <1>4 DEF Lifetimes

LEMMA AdvanceLifetimes ==
  ASSUME Shape, Lifetimes, NEW r \in Requests, NEW q \in Request, Advance(r, q),
         UNCHANGED <<sessions, minted, condemned>>,
         q.pc \notin {"idle", "mint"} => q.tok \in minted,
         q.pc = "revoke" => q.tgt \in minted,
         q.dead => q.pc = "resolve" /\ Doomed(q.tok, now)
  PROVE  Lifetimes'
  <1> DEFINE n == [q EXCEPT !.at = now]
  <1>1. req'[r] = n /\ \A x \in Requests \ {r} : req'[x] = req[x]
    BY DEF Advance, Shape, TypeOK
  <1>2. n.pc = q.pc /\ n.tok = q.tok /\ n.tgt = q.tgt /\ n.dead = q.dead /\ n.at = now
    BY DEF Request
  <1> HIDE DEF n
  <1>3. UNCHANGED <<sessions, minted, condemned>>
    OBVIOUS
  <1>4. Drawn'
    BY <1>1, <1>2, <1>3 DEF Drawn, Lifetimes
  <1>5. RevocationIsFinal'
    BY <1>3 DEF RevocationIsFinal, Lifetimes, Live
  <1>6. ASSUME NEW x \in Requests PROVE DeadWaits(x)'
    BY <1>1, <1>2, <1>3 DEF Lifetimes, DeadWaits, Doomed, Live
  <1> QED BY <1>4, <1>5, <1>6 DEF Lifetimes

LEMMA AuthStepsLifetimes ==
  ASSUME Shape, Shape', Lifetimes, OnlyEnds, NEW r \in Requests, AuthSteps(r)
  PROVE  Lifetimes'
  <1> DEFINE q == req[r]
  <1>0. q \in Request /\ Wellformed(q) /\ DeadWaits(r)
        /\ (q.pc \notin {"idle", "mint"} => q.tok \in minted)
    BY RequestType DEF Lifetimes, Drawn
  <1>1. ASSUME NEW s \in SessionIds, Arrive(r, s) PROVE Lifetimes'
    <2> DEFINE n == [Blank EXCEPT !.pc = "resolve", !.tok = s,
                       !.dead = s \in condemned \/ ~ActiveByToken(s, now)]
    <2>1. n \in Request /\ n.pc = "resolve" /\ n.tok = s
          /\ (n.dead <=> s \in condemned \/ ~ActiveByToken(s, now))
      BY NoneIsNoValue DEF Blank, Request
    <2>2. s \in condemned \/ ~ActiveByToken(s, now) => Doomed(s, now)
      <3>1. CASE sessions[s] = None \/ s \in condemned
        BY <3>1 DEF Lifetimes, RevocationIsFinal, Doomed, Live
      <3>2. CASE sessions[s] # None
        <4>1. sessions[s].expires \in Nat /\ now \in Nat /\ TicksPerSecond \in Nat
          BY <3>2, ParameterTypes DEF Shape, TypeOK, SessionRow
        <4> QED BY <3>1, <3>2, <4>1 DEF ActiveByToken, Doomed
      <3> QED BY <3>1, <3>2
    <2> HIDE DEF n
    <2> QED BY <1>1, <2>1, <2>2, AdvanceLifetimes DEF tables, Arrive, n
  <1>2. CASE ResolveSession(r)
    <2>1. CASE Reply(r)
      BY <1>2, <2>1, ReplyLifetimes, EndedStays DEF ResolveSession, tables, Lifetimes, Drawn
    <2>2. ASSUME NEW t \in Reading(r), ActiveByToken(q.tok, t),
                 Advance(r, [q EXCEPT !.pc = "load", !.sub = sessions[q.tok].account])
          PROVE  Lifetimes'
      <3> DEFINE n == [q EXCEPT !.pc = "load", !.sub = sessions[q.tok].account]
      <3>1. q.tok \in SessionIds /\ sessions[q.tok] \in SessionRow
        BY <1>0, <1>2, <2>2 DEF ResolveSession, Wellformed, Shape, TypeOK, ActiveByToken, Live
      <3>2. n \in Request /\ n.pc = "load" /\ n.tok = q.tok /\ n.dead = q.dead
        BY <1>0, <3>1 DEF Request, SessionRow
      <3>3. ~q.dead
        <4>1. t \in Nat /\ q.at \in Nat /\ q.at <= t
          BY <1>0, ReadingType, <2>2 DEF Reading, Request, Shape, TypeOK
        <4>2. sessions[q.tok].expires \in Nat /\ TicksPerSecond \in Nat
          BY <3>1, ParameterTypes DEF SessionRow
        <4> QED BY <1>0, <2>2, <4>1, <4>2 DEF DeadWaits, Doomed, ActiveByToken
      <3> HIDE DEF n
      <3> QED BY <1>0, <1>2, <2>2, <3>2, <3>3, AdvanceLifetimes DEF tables, ResolveSession, n
    <2> QED BY <1>2, <2>1, <2>2 DEF ResolveSession
  <1>3. CASE LoadAccount(r)
    <2>1. CASE Reply(r)
      BY <1>3, <2>1, ReplyLifetimes, EndedStays DEF LoadAccount, tables, Lifetimes, Drawn
    <2>2. CASE accounts[q.sub] # None
               /\ Advance(r, [q EXCEPT !.pc = "ready", !.row = accounts[q.sub]])
      <3> DEFINE n == [q EXCEPT !.pc = "ready", !.row = accounts[q.sub]]
      <3>1. n \in Request /\ n.pc = "ready" /\ n.tok = q.tok /\ ~n.dead
        BY <1>0, <1>3, <2>2 DEF LoadAccount, Wellformed, Shape, TypeOK, Request, DeadWaits
      <3> HIDE DEF n
      <3> QED BY <1>0, <1>3, <2>2, <3>1, AdvanceLifetimes DEF tables, LoadAccount, n
    <2> QED BY <1>3, <2>1, <2>2 DEF LoadAccount
  <1>4. CASE Abort(r)
    BY <1>4, ReplyLifetimes, EndedStays DEF Abort, tables, Lifetimes, Drawn
  <1> QED BY <1>1, <1>2, <1>3, <1>4 DEF AuthSteps

(* A handler that revokes the drawn sessions S and ends. *)
LEMMA RevokeLifetimes ==
  ASSUME Shape, Shape', Lifetimes, OnlyEnds, NEW r \in Requests, Reply(r),
         NEW S \in SUBSET minted, NEW t \in Reading(r), Revoke(S, t),
         minted' = minted, condemned' = condemned \cup S
  PROVE  Lifetimes'
  <1>1. t \in Nat
    BY ReadingType DEF Shape
  <1>2. \A s \in condemned' : ~Live(s)'
    BY <1>1, RevokeOnlyEnds, EndedStays DEF Lifetimes, Shape, TypeOK
  <1>3. \A s \in SessionIds : sessions'[s] # None => s \in minted'
    BY DEF Revoke, Live, Lifetimes, Drawn
  <1> QED BY <1>2, <1>3, ReplyLifetimes DEF Lifetimes, Drawn

(* A handler that inserts a session under a fresh id and ends. *)
LEMMA CreateLifetimes ==
  ASSUME Shape, Shape', Lifetimes, OnlyEnds, NEW r \in Requests, Reply(r),
         NEW s \in SessionIds, NEW a, NEW actor, NEW t, NEW ttl,
         CreateSession(s, a, actor, t, ttl), condemned' = condemned
  PROVE  Lifetimes'
  <1>1. /\ minted \subseteq minted'
        /\ \A x \in SessionIds : sessions'[x] # None => x \in minted'
    BY DEF CreateSession, Lifetimes, Drawn, Shape, TypeOK
  <1> QED BY <1>1, EndedStays, ReplyLifetimes DEF Lifetimes, Drawn

(* A handler that touches no session and ends, or reads on. *)
LEMMA OtherLifetimes ==
  ASSUME Shape, Shape', Lifetimes, OnlyEnds, NEW r \in Requests, Reply(r),
         UNCHANGED <<sessions, minted, condemned>>
  PROVE  Lifetimes'
  BY ReplyLifetimes, EndedStays DEF Lifetimes, Drawn

LEMMA MemberStepsLifetimes ==
  ASSUME Shape, Shape', Lifetimes, OnlyEnds, NEW r \in Requests, MemberSteps(r)
  PROVE  Lifetimes'
  <1> DEFINE q == req[r]
  <1>0. /\ q \in Request /\ Wellformed(q) /\ DeadWaits(r)
        /\ q.pc \notin {"idle", "mint"} => q.tok \in minted
        /\ q.pc = "revoke" => q.tgt \in minted
        /\ \A a : SessionsOf(a) \subseteq minted
    BY RequestType DEF Lifetimes, Drawn, SessionsOf
  <1>1. ASSUME NEW w \in Spellings, NEW c \in Secrets, Login(r, w, c) PROVE Lifetimes'
    <2>1. PICK a \in Accounts : Advance(r, [Blank EXCEPT !.pc = "mint", !.sub = a])
      BY <1>1 DEF Login
    <2> DEFINE n == [Blank EXCEPT !.pc = "mint", !.sub = a]
    <2>2. n \in Request /\ n.pc = "mint" /\ ~n.dead
      BY NoneIsNoValue DEF Blank, Request
    <2> HIDE DEF n
    <2> QED BY <1>1, <2>1, <2>2, AdvanceLifetimes DEF tables, Login, n
  <1>2. ASSUME NEW s \in SessionIds, LoginMint(r, s) PROVE Lifetimes'
    BY <1>2, CreateLifetimes DEF LoginMint
  <1>3. CASE Logout(r)
    <2>1. PICK S \in {{q.tok}, SessionsOf(q.sub)}, t \in Reading(r) :
            Revoke(S, t) /\ condemned' = condemned \cup S
      BY <1>3 DEF Logout
    <2>2. S \in SUBSET minted
      BY <1>0, <1>3, <2>1 DEF Logout, Serve
    <2> QED BY <1>3, <2>1, <2>2, RevokeLifetimes DEF Logout
  <1>4. ASSUME NEW n \in Names, UpdateMe(r, n) PROVE Lifetimes'
    BY <1>4, OtherLifetimes DEF UpdateMe
  <1>5. ASSUME NEW c \in Secrets, NEW w \in Spellings, UpdateMyEmail(r, c, w)
        PROVE  Lifetimes'
    BY <1>5, OtherLifetimes DEF UpdateMyEmail
  <1>6. ASSUME NEW c \in Secrets, NEW d \in Secrets, UpdateMySecret(r, c, d)
        PROVE  Lifetimes'
    <2>1. CASE Reply(r)
      BY <1>6, <2>1, OtherLifetimes DEF UpdateMySecret
    <2>2. CASE Advance(r, [q EXCEPT !.pc = "sweep"])
      <3> DEFINE n == [q EXCEPT !.pc = "sweep"]
      <3>1. /\ n \in Request /\ n.pc = "sweep" /\ n.tok = q.tok /\ ~n.dead
            /\ q.pc = "ready"
        BY <1>0, <1>6 DEF UpdateMySecret, Serve, Request, DeadWaits
      <3> HIDE DEF n
      <3> QED BY <1>0, <1>6, <2>2, <3>1, AdvanceLifetimes DEF UpdateMySecret, n
    <2> QED BY <1>6, <2>1, <2>2 DEF UpdateMySecret
  <1>7. CASE SweepOthers(r)
    <2>1. SessionsOf(q.sub) \ {q.tok} \in SUBSET minted
      BY <1>0
    <2> QED BY <1>7, <2>1, RevokeLifetimes DEF SweepOthers
  <1>8. ASSUME NEW s \in SessionIds, FindMySession(r, s) PROVE Lifetimes'
    <2> DEFINE n == [q EXCEPT !.pc = "revoke", !.tgt = s]
    <2>1. n \in Request /\ n.pc = "revoke" /\ n.tok = q.tok /\ n.dead = q.dead
          /\ n.tgt = s /\ s \in minted
          /\ q.pc = "ready"
      BY <1>0, <1>8 DEF FindMySession, Serve, Request, Shape, TypeOK
    <2> HIDE DEF n
    <2> QED BY <1>0, <1>8, <2>1, AdvanceLifetimes DEF tables, FindMySession, DeadWaits, n
  <1>9. CASE RevokeFound(r)
    <2>1. {q.tgt} \in SUBSET minted
      BY <1>0, <1>9 DEF RevokeFound
    <2> QED BY <1>9, <2>1, RevokeLifetimes DEF RevokeFound
  <1> QED BY <1>1, <1>2, <1>3, <1>4, <1>5, <1>6, <1>7, <1>8, <1>9 DEF MemberSteps

LEMMA AdminStepsLifetimes ==
  ASSUME Shape, Shape', Lifetimes, OnlyEnds, NEW r \in Requests, AdminSteps(r)
  PROVE  Lifetimes'
  <1> DEFINE q == req[r]
  <1>0. /\ q \in Request /\ Wellformed(q) /\ DeadWaits(r)
        /\ q.pc \notin {"idle", "mint"} => q.tok \in minted
        /\ \A a : SessionsOf(a) \subseteq minted
    BY RequestType DEF Lifetimes, Drawn, SessionsOf
  <1>1. ASSUME NEW a \in Accounts, NEW w \in Spellings, NEW c \in Secrets,
               NEW ad \in BOOLEAN, NEW ac \in BOOLEAN, CreateAccount(r, a, w, c, ad, ac)
        PROVE  Lifetimes'
    BY <1>1, OtherLifetimes DEF CreateAccount
  <1>2. ASSUME NEW a \in Accounts, ReadForPatch(r, a) PROVE Lifetimes'
    <2> DEFINE n == [q EXCEPT !.pc = "patch", !.tgt = a, !.seen = accounts[a]]
    <2>1. q.pc = "ready" /\ accounts[a] \in AccountRow
      BY <1>2 DEF ReadForPatch, ServeAdmin, Serve, Shape, TypeOK
    <2>2. n \in Request /\ n.pc = "patch" /\ n.tok = q.tok /\ n.dead = q.dead
      BY <1>0, <2>1 DEF Request
    <2> HIDE DEF n
    <2> QED BY <1>0, <1>2, <2>1, <2>2, AdvanceLifetimes DEF tables, ReadForPatch, DeadWaits, n
  <1>3. ASSUME NEW p \in AdminPatches, WritePatch(r, p) PROVE Lifetimes'
    BY <1>3, OtherLifetimes DEF WritePatch
  <1>4. ASSUME NEW a \in Accounts, NEW s \in SessionIds, FindAccountSession(r, a, s)
        PROVE  Lifetimes'
    <2> DEFINE n == [q EXCEPT !.pc = "revoke", !.tgt = s]
    <2>1. n \in Request /\ n.pc = "revoke" /\ n.tok = q.tok /\ n.dead = q.dead
          /\ n.tgt = s /\ s \in minted
          /\ q.pc = "ready"
      BY <1>0, <1>4 DEF FindAccountSession, ServeAdmin, Serve, Request, Shape, TypeOK
    <2> HIDE DEF n
    <2> QED BY <1>0, <1>4, <2>1, AdvanceLifetimes DEF tables, FindAccountSession, DeadWaits, n
  <1>5. ASSUME NEW a \in Accounts, RevokeAccount(r, a) PROVE Lifetimes'
    <2>1. SessionsOf(a) \in SUBSET minted
      BY <1>0
    <2> QED BY <1>5, <2>1, RevokeLifetimes DEF RevokeAccount
  <1>6. ASSUME NEW a \in Accounts, ReadTarget(r, a) PROVE Lifetimes'
    <2> DEFINE n == [q EXCEPT !.pc = "impersonate", !.tgt = a]
    <2>1. n \in Request /\ n.pc = "impersonate" /\ n.tok = q.tok /\ n.dead = q.dead
          /\ q.pc = "ready"
      BY <1>0, <1>6 DEF ReadTarget, ServeAdmin, Serve, Request, Shape, TypeOK
    <2> HIDE DEF n
    <2> QED BY <1>0, <1>6, <2>1, AdvanceLifetimes DEF tables, ReadTarget, DeadWaits, n
  <1>7. ASSUME NEW s \in SessionIds, ImpersonationMint(r, s) PROVE Lifetimes'
    BY <1>7, CreateLifetimes DEF ImpersonationMint
  <1>8. CASE Purge(r)
    <2>1. \A s \in SessionIds : sessions'[s] # None => s \in minted'
      BY <1>8 DEF Purge, Lifetimes, Drawn
    <2> QED BY <1>8, <2>1, EndedStays, ReplyLifetimes DEF Purge, Lifetimes, Drawn
  <1> QED BY <1>1, <1>2, <1>3, <1>4, <1>5, <1>6, <1>7, <1>8 DEF AdminSteps

LEMMA LifetimesInductive == Shape /\ Lifetimes /\ [Next]_vars => Lifetimes'
  <1> SUFFICES ASSUME Shape, Lifetimes, [Next]_vars PROVE Lifetimes'
    OBVIOUS
  <1>1. Shape' /\ OnlyEnds
    BY ShapeInductive, StepOnlyEnds
  <1>2. CASE UNCHANGED vars \/ Tick
    BY <1>2 DEF vars, Tick, tables, Lifetimes, Drawn, RevocationIsFinal, DeadWaits, Doomed, Live
  <1> QED BY <1>1, <1>2, AuthStepsLifetimes, MemberStepsLifetimes, AdminStepsLifetimes DEF Next

LEMMA InitLifetimes == Init => Lifetimes
  BY NoneIsNoValue DEF Init, Lifetimes, Drawn, RevocationIsFinal, DeadWaits, Blank

(* What any handler has ended stays ended. *)
THEOREM EndedForGood == Spec => []RevocationIsFinal
  <1>1. Lifetimes => RevocationIsFinal
    BY DEF Lifetimes
  <1> QED BY <1>1, InitShape, ShapeInductive, InitLifetimes, LifetimesInductive, PTL DEF Spec

(* No request whose token was dead on arrival gets past requireAuth, whatever
   the clock readings and whichever writes fall between its two reads. *)
THEOREM DeadOnArrival == Spec => []DeadTokensNeverServe
  <1>1. Lifetimes => DeadTokensNeverServe
    BY DEF Lifetimes, DeadWaits, DeadTokensNeverServe
  <1> QED BY <1>1, InitShape, ShapeInductive, InitLifetimes, LifetimesInductive, PTL DEF Spec

(* A session's account, actor and expiry never change; it is stamped at most
   once, and deleted only after it expired. *)
THEOREM SessionRowsOnlyEnd == Spec => SessionsOnlyEnd
  <1>1. Shape /\ Lifetimes /\ [Next]_vars =>
          [\A s \in SessionIds :
             sessions[s] # None /\ sessions'[s] # sessions[s] =>
               \/ sessions'[s] = None /\ Expired(s, now)
               \/ /\ Live(s)
                  /\ sessions'[s] = [sessions[s] EXCEPT !.revoked = sessions'[s].revoked]
          ]_vars
    BY StepOnlyEnds DEF Lifetimes, Drawn, OnlyEnds, Kept, Stamped, Deleted
  <1> QED BY <1>1, InitShape, ShapeInductive, InitLifetimes, LifetimesInductive, PTL
          DEF Spec, SessionsOnlyEnd

-----------------------------------------------------------------------------
(* The tables implement the ledger of sessions. *)

Led == [s \in SessionIds |-> Standing(s)]

Open(s) == Live(s) /\ sessions[s].expires * TicksPerSecond > now

(* The three standings, told apart. *)
LEMMA Standings ==
  ASSUME Shape, NEW s \in SessionIds
  PROVE  /\ s \notin minted => Standing(s) = Ledger!Unissued
         /\ s \in minted /\ ~Open(s) => Standing(s) = Ledger!Over
         /\ s \in minted /\ Open(s) =>
              /\ Standing(s) \in Ledger!Ticket
              /\ Standing(s).account = sessions[s].account
              /\ Standing(s).until = sessions[s].expires * TicksPerSecond
  <1>1. CASE s \in minted /\ Open(s)
    <2>1. sessions[s] \in SessionRow /\ sessions[s].expires * TicksPerSecond \in Nat
      BY <1>1, ParameterTypes DEF Open, Live, Shape, TypeOK, SessionRow
    <2> QED BY <1>1, <2>1 DEF Open, Standing, Ledger!Ticket, SessionRow
  <1>2. CASE ~(s \in minted /\ Open(s))
    BY <1>2 DEF Open, Standing, Ledger!Unissued, Ledger!Over
  <1> QED BY <1>1, <1>2

LEMMA StandingsDiffer ==
  Ledger!Unissued # Ledger!Over /\ Ledger!Unissued \notin Ledger!Ticket
    /\ Ledger!Over \notin Ledger!Ticket
  <1>1. Ledger!Unissued.state = "unissued" /\ Ledger!Over.state = "over"
    BY DEF Ledger!Unissued, Ledger!Over
  <1>2. \A x \in Ledger!Ticket : x.state = "open"
    BY DEF Ledger!Ticket
  <1> QED BY <1>1, <1>2

LEMMA InitLedger == Init => Ledger!Init
  BY DEF Init, Ledger!Init, Ledger!Unissued, Standing

(* An insert issues the id it draws. *)
LEMMA CreateIssues ==
  ASSUME Shape, Shape', NEW s \in SessionIds, NEW a \in Accounts,
         NEW actor \in Accounts \cup {None}, NEW t \in Nat, NEW ttl \in Nat,
         CreateSession(s, a, actor, t, ttl), UNCHANGED now
  PROVE  Ledger!Issue(s)
  <1>1. s \notin minted /\ minted' = minted \cup {s}
    BY DEF CreateSession
  <1>2. Standing(s) = Ledger!Unissued
    BY <1>1, Standings
  <1>3. ASSUME NEW x \in SessionIds, x # s PROVE Standing(x)' = Standing(x)
    BY <1>1, <1>3 DEF CreateSession, Shape, TypeOK, Standing, Live
  <1>4. Led' = [Led EXCEPT ![s] = Led'[s]]
    BY <1>3 DEF Led
  <1>5. \/ Led'[s] = Ledger!Over
        \/ Led'[s] \in Ledger!Ticket /\ Led'[s].until > now
    <2>1. CASE Open(s)'
      <3>1. /\ sessions'[s] \in SessionRow /\ now' = now
            /\ sessions'[s].expires * TicksPerSecond \in Nat
        BY <2>1, ParameterTypes DEF Open, Live, Shape, TypeOK, SessionRow
      <3> QED BY <1>1, <2>1, <3>1 DEF Led, Open, Standing, Ledger!Ticket, SessionRow
    <2>2. CASE ~Open(s)'
      BY <1>1, <2>2 DEF Led, Open, Standing, Ledger!Over
    <2> QED BY <2>1, <2>2
  <1> QED BY <1>2, <1>4, <1>5 DEF Led, Ledger!Issue

(* No statement stamps sessions of two accounts. *)
OneAccount ==
  \A s, x \in minted : Stamped(s) /\ Stamped(x) => sessions[s].account = sessions[x].account

Ends == OnlyEnds /\ OneAccount /\ UNCHANGED <<minted, now>>

(* What is stamped or deleted was over already, or is ended with its account's. *)
LEMMA EndsLedger ==
  ASSUME Shape, Shape', Ends
  PROVE  (\E a \in Accounts : Ledger!End(a)) \/ UNCHANGED <<Led, now>>
  <1> DEFINE S == {s \in minted : Open(s) /\ Stamped(s)}
  <1>0. minted \subseteq SessionIds /\ minted' = minted /\ now' = now
    BY DEF Ends, Shape, TypeOK
  <1>1. ASSUME NEW s \in SessionIds
        PROVE  Led'[s] = IF s \in S THEN Ledger!Over ELSE Led[s]
    <2>1. CASE s \notin minted
      BY <1>0, <2>1 DEF Led, Standing
    <2>2. CASE s \in minted /\ Kept(s)
      <3>1. ~Stamped(s)
        BY <2>2 DEF Kept, Stamped, Live
      <3> QED BY <1>0, <2>2, <3>1 DEF Led, Standing, Kept, Live
    <2>3. CASE s \in minted /\ Stamped(s)
      <3>1. Led'[s] = Ledger!Over
        BY <1>0, <2>3 DEF Led, Stamped, Standing, Live, Ledger!Over
      <3> QED BY <2>3, <3>1, Standings DEF Led
    <2>4. CASE s \in minted /\ Deleted(s)
      <3>1. Led'[s] = Ledger!Over
        BY <1>0, <2>4 DEF Led, Deleted, Standing, Live, Ledger!Over
      <3>2. ~Open(s)
        <4>1. sessions[s].expires \in Nat /\ now \in Nat
          BY <2>4 DEF Deleted, Expired, Shape, TypeOK, SessionRow
        <4> QED BY <2>4, <4>1, TruncationExact, UnixSecondsType DEF Deleted, Expired, Open
      <3> QED BY <2>4, <3>1, <3>2, Standings DEF Led
    <2> QED BY <2>1, <2>2, <2>3, <2>4 DEF Ends, OnlyEnds
  <1>2. Led' = [s \in SessionIds |-> IF s \in S THEN Ledger!Over ELSE Led[s]]
    BY <1>1 DEF Led
  <1>3. CASE S = {}
    <2>1. Led' = Led
      BY <1>2, <1>3 DEF Led
    <2> QED BY <1>0, <2>1
  <1>4. ASSUME NEW x \in S PROVE \E a \in Accounts : Ledger!End(a)
    <2> DEFINE a == sessions[x].account
    <2>1. a \in Accounts
      BY <1>0 DEF Open, Live, Shape, TypeOK, SessionRow
    <2>2. S \in SUBSET Ledger!OpenOf(a)
      <3> SUFFICES ASSUME NEW s \in S PROVE s \in Ledger!OpenOf(a)
        OBVIOUS
      <3>1. s \in SessionIds /\ Standing(s) \in Ledger!Ticket
              /\ Standing(s).account = sessions[s].account
        BY <1>0, Standings
      <3>2. sessions[s].account = a
        BY DEF Ends, OneAccount
      <3> QED BY <3>1, <3>2 DEF Ledger!OpenOf
    <2> HIDE DEF S
    <2>3. Ledger!End(a)
      BY <1>0, <1>2, <2>2 DEF Ledger!End, Led
    <2> QED BY <2>1, <2>3
  <1> QED BY <1>3, <1>4

LEMMA RevokeEnds ==
  ASSUME Shape, NEW S, NEW t \in Nat, Revoke(S, t), UNCHANGED <<minted, now>>,
         \A s, x \in S : sessions[s].account = sessions[x].account
  PROVE  Ends
  <1>1. ASSUME NEW s \in minted, Stamped(s) PROVE s \in S
    BY <1>1 DEF Revoke, Stamped, Live, Shape, TypeOK
  <1> QED BY <1>1, RevokeOnlyEnds DEF Ends, OneAccount

(* What one step writes: one insert, one account's stamps, a purge, or nothing. *)
LEMMA StepEnds ==
  ASSUME Shape, NEW r \in Requests, MemberSteps(r) \/ AdminSteps(r)
  PROVE  \/ Ends
         \/ \E s \in SessionIds, a \in Accounts, actor \in Accounts \cup {None}, t, ttl \in Nat :
              CreateSession(s, a, actor, t, ttl) /\ UNCHANGED now
  <1> DEFINE Issues == \E s \in SessionIds, a \in Accounts, actor \in Accounts \cup {None},
                          t, ttl \in Nat : CreateSession(s, a, actor, t, ttl) /\ UNCHANGED now
  <1>0. req[r] \in Request /\ Wellformed(req[r]) /\ Reading(r) \subseteq Nat
    BY RequestType, ReadingType DEF Shape
  <1>1. ASSUME UNCHANGED <<sessions, minted, now>> PROVE Ends
    BY <1>1 DEF Ends, OnlyEnds, OneAccount, Kept, Stamped, Live
  <1>2. ASSUME NEW s \in SessionIds, LoginMint(r, s) PROVE Issues
    BY <1>0, <1>2, ParameterTypes DEF LoginMint, Wellformed
  <1>3. CASE Logout(r)
    BY <1>0, <1>3, RevokeEnds DEF Logout, SessionsOf
  <1>4. CASE SweepOthers(r)
    BY <1>0, <1>4, RevokeEnds DEF SweepOthers, SessionsOf
  <1>5. CASE RevokeFound(r)
    BY <1>0, <1>5, RevokeEnds DEF RevokeFound
  <1>6. ASSUME NEW a \in Accounts, RevokeAccount(r, a) PROVE Ends
    BY <1>0, <1>6, RevokeEnds DEF RevokeAccount, SessionsOf
  <1>7. ASSUME NEW s \in SessionIds, ImpersonationMint(r, s) PROVE Issues
    BY <1>0, <1>7, ParameterTypes DEF ImpersonationMint, Wellformed
  <1>8. CASE Purge(r)
    <2>1. OnlyEnds
      BY <1>8, StepOnlyEnds DEF Next, AdminSteps
    <2>2. ASSUME NEW s \in minted PROVE ~Stamped(s)
      BY <1>8, NoneIsNoValue DEF Purge, Stamped, Live, Shape, TypeOK
    <2> QED BY <1>8, <2>1, <2>2 DEF Purge, Ends, OneAccount
  <1> HIDE DEF Issues
  <1>9. CASE MemberSteps(r)
    <2>1. ASSUME \/ \E w \in Spellings, c \in Secrets : Login(r, w, c)
                 \/ \E n \in Names : UpdateMe(r, n)
                 \/ \E c \in Secrets, w \in Spellings : UpdateMyEmail(r, c, w)
                 \/ \E c, d \in Secrets : UpdateMySecret(r, c, d)
                 \/ \E s \in SessionIds : FindMySession(r, s)
          PROVE  Ends
      BY <1>1, <2>1 DEF Login, UpdateMe, UpdateMyEmail, UpdateMySecret, FindMySession, tables
    <2>2. CASE \E s \in SessionIds : LoginMint(r, s)
      BY <1>2, <2>2 DEF Issues
    <2>3. CASE Logout(r) \/ SweepOthers(r) \/ RevokeFound(r)
      BY <1>3, <1>4, <1>5, <2>3
    <2> QED BY <1>9, <2>1, <2>2, <2>3, Zenon DEF MemberSteps
  <1>10. CASE AdminSteps(r)
    <2>1. ASSUME \/ \E a \in Accounts, w \in Spellings, c \in Secrets, ad, ac \in BOOLEAN :
                       CreateAccount(r, a, w, c, ad, ac)
                 \/ \E a \in Accounts : ReadForPatch(r, a)
                 \/ \E p \in AdminPatches : WritePatch(r, p)
                 \/ \E a \in Accounts, s \in SessionIds : FindAccountSession(r, a, s)
                 \/ \E a \in Accounts : ReadTarget(r, a)
          PROVE  Ends
      BY <1>1, <2>1 DEF CreateAccount, ReadForPatch, WritePatch, FindAccountSession, ReadTarget, tables
    <2>2. CASE \E s \in SessionIds : ImpersonationMint(r, s)
      BY <1>7, <2>2 DEF Issues
    <2>3. CASE (\E a \in Accounts : RevokeAccount(r, a)) \/ Purge(r)
      BY <1>6, <1>8, <2>3
    <2> QED BY <1>10, <2>1, <2>2, <2>3, Zenon DEF AdminSteps
  <1> QED BY <1>9, <1>10 DEF Issues

(* The clock ends what it reaches. *)
LEMMA TickLedger ==
  ASSUME Shape, Tick
  PROVE  Ledger!Tick
  <1>1. now' = now + 1 /\ UNCHANGED <<sessions, minted>> /\ now \in Nat
    BY DEF Tick, tables, Shape, TypeOK
  <1>2. ASSUME NEW s \in SessionIds
        PROVE  Led'[s] = IF Led[s] \in Ledger!Ticket /\ Led[s].until <= now'
                         THEN Ledger!Over ELSE Led[s]
    <2>1. CASE s \notin minted
      BY <1>1, <2>1, Standings, StandingsDiffer DEF Led, Standing
    <2>2. CASE s \in minted /\ ~Open(s)
      <3>1. ~(Live(s)' /\ sessions'[s].expires * TicksPerSecond > now')
        <4>1. Live(s) => sessions[s].expires * TicksPerSecond \in Nat
          BY ParameterTypes DEF Live, Shape, TypeOK, SessionRow
        <4> QED BY <1>1, <2>2, <4>1 DEF Open, Live
      <3>2. Led'[s] = Ledger!Over
        BY <1>1, <2>2, <3>1 DEF Led, Standing, Ledger!Over
      <3> QED BY <2>2, <3>2, Standings DEF Led
    <2>3. CASE s \in minted /\ Open(s)
      <3>1. /\ Led[s] \in Ledger!Ticket
            /\ Led[s].until = sessions[s].expires * TicksPerSecond
        BY <2>3, Standings DEF Led
      <3>2. Led[s].until \in Nat
        BY <3>1 DEF Ledger!Ticket
      <3>3. CASE Led[s].until <= now'
        BY <1>1, <2>3, <3>1, <3>2, <3>3 DEF Led, Standing, Ledger!Over
      <3>4. CASE ~(Led[s].until <= now')
        <4>1. sessions'[s].expires * TicksPerSecond > now' /\ Live(s)'
          BY <1>1, <2>3, <3>1, <3>2, <3>4 DEF Open, Live
        <4>2. Led'[s] = Led[s]
          BY <1>1, <2>3, <4>1 DEF Led, Standing, Open, Live
        <4> QED BY <3>4, <4>2
      <3> QED BY <3>1, <3>3, <3>4
    <2> QED BY <2>1, <2>2, <2>3
  <1> QED BY <1>1, <1>2 DEF Led, Ledger!Tick

(* Whatever the requests in flight do to each other, the tables keep the promise of
   SessionLedger: an id is issued once, for a time that never changes, a request ends
   sessions of one account only, a purge ends none, and what is over stays over. *)
THEOREM SessionsKeepTheLedger == Spec => LedgerSpec
  <1>1. ASSUME Shape, Shape', [Next]_vars
        PROVE  [Ledger!Next]_<<[s \in SessionIds |-> Standing(s)], now>>
    <2>1. ASSUME UNCHANGED <<sessions, minted, now>>
          PROVE  UNCHANGED <<[s \in SessionIds |-> Standing(s)], now>>
      BY <2>1 DEF Standing, Live
    <2>2. CASE Tick
      BY <1>1, <2>2, TickLedger DEF Ledger!Next
    <2>3. ASSUME NEW r \in Requests, MemberSteps(r) \/ AdminSteps(r)
          PROVE  [Ledger!Next]_<<[s \in SessionIds |-> Standing(s)], now>>
      <3>1. CASE Ends
        BY <1>1, <3>1, EndsLedger DEF Led, Ledger!Next
      <3>2. ASSUME NEW s \in SessionIds, NEW a \in Accounts, NEW actor \in Accounts \cup {None},
                   NEW t \in Nat, NEW ttl \in Nat,
                   CreateSession(s, a, actor, t, ttl), UNCHANGED now
            PROVE  Ledger!Issue(s)
        BY <1>1, <3>2, CreateIssues
      <3> QED BY <1>1, <2>3, <3>1, <3>2, StepEnds DEF Ledger!Next
    <2> QED BY <1>1, <2>1, <2>2, <2>3 DEF Next, AuthSteps, Arrive, ResolveSession, LoadAccount,
               Abort, tables, vars
  <1> QED BY <1>1, InitShape, ShapeInductive, InitLedger, PTL DEF Spec, LedgerSpec, Ledger!Spec

-----------------------------------------------------------------------------
(* Authority. *)

(* The session s, while its row is there, is one of a's. *)
Owned(s, a) == sessions[s] # None => sessions[s].account = a

(* The rows a request carries were read while granted already vouched for
   them, and what it is about to do was judged by such a row. *)
Vouched(r) ==
  LET q == req[r] IN
  /\ q.pc \notin {"idle", "mint", "resolve", "load"} /\ q.row.admin => q.sub \in granted
  /\ q.pc = "patch" => q.row.admin /\ (q.seen.admin => q.tgt \in granted)
  /\ q.pc = "impersonate" => q.row.admin /\ q.tgt # q.sub
  /\ q.pc = "revoke" => q.row.admin \/ Owned(q.tgt, q.sub)
  /\ q.pc \notin {"idle", "mint", "resolve"} => Owned(q.tok, q.sub)

Authority ==
  NoSelfPromotion /\ ImpersonationAttributed /\ \A r \in Requests : Vouched(r)

LEMMA OwnedStays ==
  ASSUME OnlyEnds, NEW s \in minted, NEW a, Shape, Owned(s, a)
  PROVE  Owned(s, a)'
  <1>1. CASE Kept(s)
    BY <1>1 DEF Owned, Kept
  <1>2. CASE Stamped(s)
    <2>1. sessions[s] \in SessionRow
      BY <1>2 DEF Stamped, Live, Shape, TypeOK
    <2> QED BY <1>2, <2>1 DEF Owned, Stamped, Live, SessionRow
  <1>3. CASE Deleted(s)
    BY <1>3 DEF Owned, Deleted
  <1> QED BY <1>1, <1>2, <1>3 DEF OnlyEnds

LEMMA OthersVouched ==
  ASSUME Shape, Drawn, Authority, OnlyEnds, granted \subseteq granted',
         NEW r \in Requests, NEW q, req' = [req EXCEPT ![r] = q],
         NEW x \in Requests \ {r}
  PROVE  Vouched(x)'
  <1>1. req'[x] = req[x] /\ Vouched(x)
    BY DEF Shape, TypeOK, Authority
  <1>2. PICK s, k, a : s = req[x].tgt /\ k = req[x].tok /\ a = req[x].sub
    OBVIOUS
  <1>3. s \in minted /\ Owned(s, a) => Owned(s, a)'
    BY OwnedStays
  <1>4. k \in minted /\ Owned(k, a) => Owned(k, a)'
    BY OwnedStays
  <1>5. req[x].pc = "revoke" => (Owned(s, a) => Owned(s, a)')
    BY <1>2, <1>3 DEF Drawn
  <1>6. req[x].pc \notin {"idle", "mint", "resolve"} => Owned(k, a)'
    BY <1>1, <1>2, <1>4 DEF Drawn, Vouched
  <1> QED BY <1>1, <1>2, <1>5, <1>6 DEF Vouched, Owned

LEMMA ReplyAuthority ==
  ASSUME Shape, Drawn, Authority, OnlyEnds, granted \subseteq granted',
         NEW r \in Requests, Reply(r), NoSelfPromotion', ImpersonationAttributed'
  PROVE  Authority'
  <1>1. Vouched(r)'
    BY DEF Reply, Shape, TypeOK, Blank, Vouched
  <1> QED BY <1>1, OthersVouched DEF Reply, Authority

LEMMA AdvanceAuthority ==
  ASSUME Shape, Drawn, Authority, OnlyEnds, granted \subseteq granted',
         NEW r \in Requests, NEW q \in Request, Advance(r, q),
         NoSelfPromotion', sessions' = sessions,
         q.pc \notin {"idle", "mint", "resolve", "load"} /\ q.row.admin => q.sub \in granted,
         q.pc = "patch" => q.row.admin /\ (q.seen.admin => q.tgt \in granted),
         q.pc = "impersonate" => q.row.admin /\ q.tgt # q.sub,
         q.pc = "revoke" => q.row.admin \/ Owned(q.tgt, q.sub),
         q.pc \notin {"idle", "mint", "resolve"} => Owned(q.tok, q.sub)
  PROVE  Authority'
  <1> DEFINE n == [q EXCEPT !.at = now]
  <1>1. req'[r] = n
    BY DEF Advance, Shape, TypeOK
  <1>2. /\ n.pc = q.pc /\ n.sub = q.sub /\ n.row = q.row /\ n.tok = q.tok
        /\ n.tgt = q.tgt /\ n.seen = q.seen
    BY DEF Request
  <1> HIDE DEF n
  <1>3. Vouched(r)'
    BY <1>1, <1>2 DEF Vouched, Owned
  <1>4. ImpersonationAttributed'
    BY DEF ImpersonationAttributed, Authority
  <1> QED BY <1>3, <1>4, OthersVouched DEF Advance, Authority

(* What the store's writes do to the two invariants. *)
LEMMA WriteKeepsGrants ==
  ASSUME Shape, NoSelfPromotion, granted \subseteq granted',
         NEW a \in Accounts, NEW row \in AccountRow, UpdateAccount(a, row),
         row.admin /\ Updates(a, row) => a \in granted'
  PROVE  NoSelfPromotion'
  BY DEF Shape, TypeOK, NoSelfPromotion, UpdateAccount, Updates

LEMMA EndsKeepAttribution ==
  ASSUME Shape, Drawn', OnlyEnds, minted' = minted, ImpersonationAttributed,
         granted \subseteq granted'
  PROVE  ImpersonationAttributed'
  <1> SUFFICES ASSUME NEW s \in SessionIds, sessions'[s] # None, sessions'[s].actor # None
               PROVE  sessions'[s].actor # sessions'[s].account /\ sessions'[s].actor \in granted'
    BY DEF ImpersonationAttributed
  <1>1. s \in minted /\ (Kept(s) \/ Stamped(s))
    BY DEF Drawn, OnlyEnds, Deleted
  <1>2. sessions[s] \in SessionRow
    BY <1>1 DEF Kept, Stamped, Live, Shape, TypeOK
  <1>3. sessions'[s].actor = sessions[s].actor /\ sessions'[s].account = sessions[s].account
    BY <1>1, <1>2 DEF Kept, Stamped, SessionRow
  <1> QED BY <1>1, <1>2, <1>3 DEF ImpersonationAttributed, Kept, Stamped, Live

LEMMA CreateKeepsAttribution ==
  ASSUME Shape, ImpersonationAttributed, granted \subseteq granted',
         NEW s \in SessionIds, NEW a, NEW actor, NEW t, NEW ttl,
         CreateSession(s, a, actor, t, ttl),
         actor # None => actor # a /\ actor \in granted'
  PROVE  ImpersonationAttributed'
  BY DEF CreateSession, ImpersonationAttributed, Shape, TypeOK

(* What the three case lemmas below share. *)
Context == Shape /\ Shape' /\ Drawn /\ Drawn' /\ Authority /\ OnlyEnds

(* Steps that end the request and leave the accounts and the minted ids. *)
LEMMA EndingAuthority ==
  ASSUME Context, NEW r \in Requests, Reply(r), UNCHANGED <<accounts, minted, granted>>
  PROVE  Authority'
  <1>1. NoSelfPromotion'
    BY DEF Context, Authority, NoSelfPromotion
  <1>2. ImpersonationAttributed'
    BY EndsKeepAttribution DEF Context, Authority
  <1> QED BY <1>1, <1>2, ReplyAuthority DEF Context

(* Steps that write one account and end the request. *)
LEMMA WritingAuthority ==
  ASSUME Context, NEW r \in Requests, Reply(r), UNCHANGED <<sessions, minted>>,
         granted \subseteq granted', NoSelfPromotion'
  PROVE  Authority'
  <1>1. ImpersonationAttributed'
    BY EndsKeepAttribution DEF Context, Authority
  <1> QED BY <1>1, ReplyAuthority DEF Context

LEMMA AuthStepsAuthority ==
  ASSUME Context, NEW r \in Requests, AuthSteps(r)
  PROVE  Authority'
  <1> DEFINE q == req[r]
  <1>0. /\ q \in Request /\ Wellformed(q) /\ Shape
        /\ UNCHANGED <<accounts, sessions, minted, granted>>
    BY RequestType DEF Context, AuthSteps, Arrive, ResolveSession, LoadAccount, Abort, tables
  <1>1. NoSelfPromotion'
    BY <1>0 DEF Context, Authority, NoSelfPromotion
  <1>2. CASE Reply(r)
    BY <1>0, <1>2, EndingAuthority
  <1>3. ASSUME NEW s \in SessionIds, Arrive(r, s) PROVE Authority'
    <2> DEFINE n == [Blank EXCEPT !.pc = "resolve", !.tok = s,
                       !.dead = s \in condemned \/ ~ActiveByToken(s, now)]
    <2>1. n \in Request /\ n.pc = "resolve"
      BY NoneIsNoValue DEF Blank, Request
    <2> HIDE DEF n
    <2> QED BY <1>0, <1>1, <1>3, <2>1, AdvanceAuthority DEF Arrive, Context, n
  <1>4. CASE ResolveSession(r)
    <2>1. ASSUME NEW t \in Reading(r), ActiveByToken(q.tok, t),
                 Advance(r, [q EXCEPT !.pc = "load", !.sub = sessions[q.tok].account])
          PROVE  Authority'
      <3> DEFINE n == [q EXCEPT !.pc = "load", !.sub = sessions[q.tok].account]
      <3>1. q.tok \in SessionIds /\ sessions[q.tok] \in SessionRow
        BY <1>0, <1>4, <2>1 DEF ResolveSession, Wellformed, Shape, TypeOK, ActiveByToken, Live
      <3>2. n \in Request /\ n.pc = "load" /\ n.tok = q.tok /\ n.sub = sessions[q.tok].account
        BY <1>0, <3>1 DEF Request, SessionRow
      <3> HIDE DEF n
      <3> QED BY <1>0, <1>1, <2>1, <3>2, AdvanceAuthority DEF Context, Owned, n
    <2> QED BY <1>2, <1>4, <2>1 DEF ResolveSession
  <1>5. CASE LoadAccount(r)
    <2>1. CASE accounts[q.sub] # None
               /\ Advance(r, [q EXCEPT !.pc = "ready", !.row = accounts[q.sub]])
      <3> DEFINE n == [q EXCEPT !.pc = "ready", !.row = accounts[q.sub]]
      <3>1. /\ n \in Request /\ n.pc = "ready" /\ n.sub = q.sub
            /\ n.tok = q.tok /\ q.pc = "load" /\ n.row = accounts[q.sub] /\ q.sub \in Accounts
        BY <1>0, <1>5, <2>1 DEF LoadAccount, Wellformed, Shape, TypeOK, Request
      <3>2. accounts[q.sub].admin => q.sub \in granted
        BY <2>1, <3>1 DEF Context, Authority, NoSelfPromotion
      <3> HIDE DEF n
      <3> QED BY <1>0, <1>1, <2>1, <3>1, <3>2, AdvanceAuthority
              DEF Context, Authority, Vouched, n
    <2> QED BY <1>2, <1>5, <2>1 DEF LoadAccount
  <1>6. CASE Abort(r)
    BY <1>2, <1>6 DEF Abort
  <1> QED BY <1>3, <1>4, <1>5, <1>6 DEF AuthSteps

LEMMA MemberStepsAuthority ==
  ASSUME Context, NEW r \in Requests, MemberSteps(r)
  PROVE  Authority'
  <1> DEFINE q == req[r]
  <1>0. /\ q \in Request /\ Wellformed(q) /\ Shape /\ Vouched(r)
        /\ granted' = granted
    BY RequestType DEF Context, Authority, MemberSteps, Login, LoginMint, Logout, UpdateMe,
       UpdateMyEmail, UpdateMySecret, SweepOthers, FindMySession, RevokeFound
  <1>1. ASSUME UNCHANGED accounts PROVE NoSelfPromotion'
    BY <1>0, <1>1 DEF Context, Authority, NoSelfPromotion
  <1>2. ASSUME NEW row \in AccountRow, row.admin = q.row.admin,
               UpdateAccount(q.sub, row), q.pc = "ready"
        PROVE  NoSelfPromotion'
    BY <1>0, <1>2, WriteKeepsGrants DEF Context, Authority, Wellformed, Vouched
  <1>3. ASSUME NEW w \in Spellings, NEW c \in Secrets, Login(r, w, c) PROVE Authority'
    <2>1. PICK a \in Accounts : Advance(r, [Blank EXCEPT !.pc = "mint", !.sub = a])
      BY <1>3 DEF Login
    <2> DEFINE n == [Blank EXCEPT !.pc = "mint", !.sub = a]
    <2>2. n \in Request /\ n.pc = "mint"
      BY NoneIsNoValue DEF Blank, Request
    <2> HIDE DEF n
    <2> QED BY <1>0, <1>1, <1>3, <2>1, <2>2, AdvanceAuthority DEF Login, tables, Context, n
  <1>4. ASSUME NEW s \in SessionIds, LoginMint(r, s) PROVE Authority'
    <2>1. ImpersonationAttributed'
      BY <1>0, <1>4, CreateKeepsAttribution DEF LoginMint, Context, Authority
    <2> QED BY <1>0, <1>1, <1>4, <2>1, ReplyAuthority DEF LoginMint, Context
  <1>5. CASE Logout(r) \/ SweepOthers(r) \/ RevokeFound(r)
    BY <1>5, EndingAuthority DEF Logout, SweepOthers, RevokeFound
  <1>6. ASSUME NEW n \in Names, UpdateMe(r, n) PROVE Authority'
    <2>1. [q.row EXCEPT !.name = n] \in AccountRow
          /\ [q.row EXCEPT !.name = n].admin = q.row.admin
      BY <1>0, <1>6 DEF UpdateMe, Serve, Wellformed, AccountRow
    <2> QED BY <1>0, <1>2, <1>6, <2>1, WritingAuthority DEF UpdateMe, Serve
  <1>7. ASSUME NEW c \in Secrets, NEW w \in Spellings, UpdateMyEmail(r, c, w)
        PROVE  Authority'
    <2>1. [q.row EXCEPT !.email = Fold[w]] \in AccountRow
          /\ [q.row EXCEPT !.email = Fold[w]].admin = q.row.admin
      BY <1>0, <1>7, ParameterTypes DEF UpdateMyEmail, Serve, Wellformed, AccountRow
    <2> QED BY <1>0, <1>2, <1>7, <2>1, WritingAuthority DEF UpdateMyEmail, Serve
  <1>8. ASSUME NEW c \in Secrets, NEW d \in Secrets, UpdateMySecret(r, c, d)
        PROVE  Authority'
    <2>1. [q.row EXCEPT !.secret = d] \in AccountRow
          /\ [q.row EXCEPT !.secret = d].admin = q.row.admin
      BY <1>0, <1>8 DEF UpdateMySecret, Serve, Wellformed, AccountRow
    <2>2. NoSelfPromotion'
      BY <1>0, <1>2, <1>8, <2>1 DEF UpdateMySecret, Serve
    <2>3. CASE Reply(r)
      BY <1>0, <1>8, <2>2, <2>3, WritingAuthority DEF UpdateMySecret
    <2>4. CASE Advance(r, [q EXCEPT !.pc = "sweep"])
      <3> DEFINE n == [q EXCEPT !.pc = "sweep"]
      <3>1. /\ n \in Request /\ n.pc = "sweep" /\ n.row = q.row /\ n.sub = q.sub /\ n.tok = q.tok
            /\ q.pc = "ready"
        BY <1>0, <1>8 DEF UpdateMySecret, Serve, Request
      <3> HIDE DEF n
      <3> QED BY <1>0, <1>8, <2>2, <2>4, <3>1, AdvanceAuthority
              DEF UpdateMySecret, Context, Vouched, n
    <2> QED BY <1>8, <2>3, <2>4 DEF UpdateMySecret
  <1>9. ASSUME NEW s \in SessionIds, FindMySession(r, s) PROVE Authority'
    <2> DEFINE n == [q EXCEPT !.pc = "revoke", !.tgt = s]
    <2>1. /\ n \in Request /\ n.pc = "revoke" /\ n.row = q.row /\ n.sub = q.sub /\ n.tok = q.tok
          /\ n.tgt = s /\ q.pc = "ready" /\ Owned(s, q.sub)
      BY <1>0, <1>9 DEF FindMySession, Serve, Request, SessionsOf, Owned
    <2> HIDE DEF n
    <2> QED BY <1>0, <1>1, <1>9, <2>1, AdvanceAuthority
            DEF FindMySession, tables, Context, Vouched, n
  <1> QED BY <1>3, <1>4, <1>5, <1>6, <1>7, <1>8, <1>9 DEF MemberSteps

LEMMA AdminStepsAuthority ==
  ASSUME Context, NEW r \in Requests, AdminSteps(r)
  PROVE  Authority'
  <1> DEFINE q == req[r]
  <1>0. /\ q \in Request /\ Wellformed(q) /\ Shape /\ Vouched(r)
        /\ granted \subseteq granted'
    BY RequestType DEF Context, Authority, AdminSteps, CreateAccount, ReadForPatch, WritePatch,
       FindAccountSession, RevokeAccount, ReadTarget, ImpersonationMint, Purge
  <1>1. ASSUME UNCHANGED accounts PROVE NoSelfPromotion'
    BY <1>0, <1>1 DEF Context, Authority, NoSelfPromotion
  <1>2. ASSUME NEW a \in Accounts, NEW w \in Spellings, NEW c \in Secrets,
               NEW ad \in BOOLEAN, NEW ac \in BOOLEAN, CreateAccount(r, a, w, c, ad, ac)
        PROVE  Authority'
    <2>1. NoSelfPromotion'
      BY <1>0, <1>2 DEF CreateAccount, NoSelfPromotion, Context, Authority, Shape, TypeOK
    <2> QED BY <1>0, <1>2, <2>1, WritingAuthority DEF CreateAccount
  <1>3. ASSUME NEW a \in Accounts, ReadForPatch(r, a) PROVE Authority'
    <2> DEFINE n == [q EXCEPT !.pc = "patch", !.tgt = a, !.seen = accounts[a]]
    <2>1. q.pc = "ready" /\ q.row.admin /\ accounts[a] \in AccountRow
      BY <1>0, <1>3 DEF ReadForPatch, ServeAdmin, Serve, Shape, TypeOK
    <2>2. /\ n \in Request /\ n.pc = "patch" /\ n.row = q.row /\ n.sub = q.sub /\ n.tok = q.tok
          /\ n.tgt = a /\ n.seen = accounts[a]
      BY <1>0, <2>1 DEF Request
    <2>3. accounts[a].admin => a \in granted
      BY <1>3 DEF ReadForPatch, Context, Authority, NoSelfPromotion
    <2> HIDE DEF n
    <2> QED BY <1>0, <1>1, <1>3, <2>1, <2>2, <2>3, AdvanceAuthority
            DEF ReadForPatch, tables, Context, Vouched, n
  <1>4. ASSUME NEW p \in AdminPatches, WritePatch(r, p) PROVE Authority'
    <2>1. /\ q.tgt \in Accounts /\ q.seen \in AccountRow
          /\ Patched(q.seen, p) \in AccountRow
      BY <1>0, <1>4, PatchedType DEF WritePatch, Wellformed
    <2>2. Patched(q.seen, p).admin /\ Updates(q.tgt, Patched(q.seen, p))
            => q.tgt \in granted'
      <3>1. Patched(q.seen, p).admin = Given(p.admin, q.seen.admin)
        BY DEF Patched
      <3>2. p.admin \in BOOLEAN \cup {None}
        BY ParameterTypes DEF Patch
      <3>3. CASE p.admin = None
        BY <1>0, <1>4, <3>1, <3>3 DEF WritePatch, Vouched, Given
      <3>4. CASE p.admin # None /\ p.admin = TRUE
        BY <1>4, <3>4 DEF WritePatch
      <3>5. CASE p.admin # None /\ p.admin = FALSE
        BY <3>1, <3>5 DEF Given
      <3> QED BY <3>2, <3>3, <3>4, <3>5
    <2>3. NoSelfPromotion'
      BY <1>0, <1>4, <2>1, <2>2, WriteKeepsGrants DEF WritePatch, Context, Authority
    <2> QED BY <1>0, <1>4, <2>3, WritingAuthority DEF WritePatch
  <1>5. ASSUME NEW a \in Accounts, NEW s \in SessionIds, FindAccountSession(r, a, s)
        PROVE  Authority'
    <2> DEFINE n == [q EXCEPT !.pc = "revoke", !.tgt = s]
    <2>1. /\ n \in Request /\ n.pc = "revoke" /\ n.row = q.row /\ n.sub = q.sub /\ n.tok = q.tok
          /\ q.pc = "ready" /\ q.row.admin
      BY <1>0, <1>5 DEF FindAccountSession, ServeAdmin, Serve, Request
    <2> HIDE DEF n
    <2> QED BY <1>0, <1>1, <1>5, <2>1, AdvanceAuthority
            DEF FindAccountSession, tables, Context, Vouched, n
  <1>6. CASE (\E a \in Accounts : RevokeAccount(r, a)) \/ Purge(r)
    BY <1>6, EndingAuthority DEF RevokeAccount, Purge
  <1>7. ASSUME NEW a \in Accounts, ReadTarget(r, a) PROVE Authority'
    <2> DEFINE n == [q EXCEPT !.pc = "impersonate", !.tgt = a]
    <2>1. /\ n \in Request /\ n.pc = "impersonate" /\ n.tok = q.tok
          /\ n.row = q.row /\ n.sub = q.sub
          /\ n.tgt = a /\ q.pc = "ready" /\ q.row.admin /\ a # q.sub
      BY <1>0, <1>7 DEF ReadTarget, ServeAdmin, Serve, Request
    <2> HIDE DEF n
    <2> QED BY <1>0, <1>1, <1>7, <2>1, AdvanceAuthority
            DEF ReadTarget, tables, Context, Vouched, n
  <1>8. ASSUME NEW s \in SessionIds, ImpersonationMint(r, s) PROVE Authority'
    <2>1. q.sub # q.tgt /\ q.sub \in granted
      BY <1>0, <1>8 DEF ImpersonationMint, Vouched
    <2>2. ImpersonationAttributed'
      BY <1>0, <1>8, <2>1, CreateKeepsAttribution DEF ImpersonationMint, Context, Authority
    <2> QED BY <1>0, <1>1, <1>8, <2>2, ReplyAuthority DEF ImpersonationMint, Context
  <1> QED BY <1>2, <1>3, <1>4, <1>5, <1>6, <1>7, <1>8 DEF AdminSteps

LEMMA AuthorityInductive ==
  Shape /\ Lifetimes /\ Authority /\ [Next]_vars => Authority'
  <1> SUFFICES ASSUME Shape, Lifetimes, Authority, [Next]_vars PROVE Authority'
    OBVIOUS
  <1>1. Context
    BY ShapeInductive, LifetimesInductive, StepOnlyEnds DEF Context, Lifetimes
  <1>2. CASE UNCHANGED vars \/ Tick
    BY <1>2 DEF vars, Tick, tables, Authority, NoSelfPromotion, ImpersonationAttributed,
       Vouched, Owned
  <1> QED BY <1>1, <1>2, AuthStepsAuthority, MemberStepsAuthority, AdminStepsAuthority DEF Next

LEMMA InitAuthority == Init => Authority
  BY DEF Init, Authority, NoSelfPromotion, ImpersonationAttributed, Vouched, Blank

(* Stale rows are written back, but never a right that was not once granted. *)
THEOREM RightsAreGranted == Spec => []NoSelfPromotion
  <1>1. Authority => NoSelfPromotion
    BY DEF Authority
  <1> QED BY <1>1, InitShape, ShapeInductive, InitLifetimes, LifetimesInductive,
             InitAuthority, AuthorityInductive, PTL DEF Spec

(* Impersonation is always attributed to another account, and to an admin. *)
THEOREM ImpersonationHasAnActor == Spec => []ImpersonationAttributed
  <1>1. Authority => ImpersonationAttributed
    BY DEF Authority
  <1> QED BY <1>1, InitShape, ShapeInductive, InitLifetimes, LifetimesInductive,
             InitAuthority, AuthorityInductive, PTL DEF Spec

(* A step of r revokes sessions of one account only, or inserts one session. *)
LEMMA RevokeReaches ==
  ASSUME NEW S, NEW t, Revoke(S, t), NEW s \in SessionIds, sessions'[s] # sessions[s]
  PROVE  s \in S /\ sessions[s] # None
  BY DEF Revoke, Live

LEMMA Reach ==
  ASSUME Shape, Drawn, Authority, NEW r \in Requests, [Next]_vars, req'[r] # req[r]
  PROVE  (req[r].row # None /\ req[r].row.admin) \/ ActsOnlyForItself(r)
  <1> DEFINE q == req[r]
             Reaches == (q.row # None /\ q.row.admin) \/ ActsOnlyForItself(r)
  <1>0. q \in Request /\ Wellformed(q) /\ Vouched(r)
    BY RequestType DEF Authority
  <1>1. ASSUME NEW x \in Requests, AuthSteps(x) \/ MemberSteps(x) \/ AdminSteps(x)
        PROVE  x = r
    <2>1. \E v : req' = [req EXCEPT ![x] = v]
      BY <1>1 DEF AuthSteps, MemberSteps, AdminSteps, Arrive, ResolveSession, LoadAccount, Abort,
         Login, LoginMint, Logout, UpdateMe, UpdateMyEmail, UpdateMySecret, SweepOthers,
         FindMySession, RevokeFound, CreateAccount, ReadForPatch, WritePatch, FindAccountSession,
         RevokeAccount, ReadTarget, ImpersonationMint, Purge, Reply, Advance
    <2> QED BY <2>1 DEF Shape, TypeOK
  <1>2. CASE UNCHANGED <<accounts, sessions>>
    BY <1>2 DEF ActsOnlyForItself
  <1>3. CASE MemberSteps(r)
    <2>1. ASSUME NEW s \in SessionIds, LoginMint(r, s) PROVE Reaches
      <3>1. sessions[s] = None /\ sessions'[s].account = q.sub
        BY <1>0, <2>1 DEF LoginMint, CreateSession, Shape, TypeOK, Drawn
      <3>2. \A x \in SessionIds : sessions'[x] # sessions[x] => x = s
        BY <2>1 DEF LoginMint, CreateSession, Shape, TypeOK
      <3>3. accounts' = accounts
        BY <2>1 DEF LoginMint
      <3> QED BY <3>1, <3>2, <3>3 DEF ActsOnlyForItself
    <2>2. ASSUME Logout(r) \/ SweepOthers(r) PROVE Reaches
      <3>1. Owned(q.tok, q.sub) /\ accounts' = accounts
        BY <1>0, <2>2 DEF Logout, SweepOthers, Serve, Vouched
      <3>2. PICK S, t : Revoke(S, t) /\ S \subseteq {q.tok} \cup SessionsOf(q.sub)
        BY <2>2 DEF Logout, SweepOthers
      <3>3. ASSUME NEW s \in SessionIds, sessions'[s] # sessions[s]
            PROVE  sessions[s] # None /\ sessions[s].account = q.sub
        BY <3>1, <3>2, <3>3, RevokeReaches DEF SessionsOf, Owned
      <3> QED BY <3>1, <3>3 DEF ActsOnlyForItself
    <2>3. ASSUME NEW row, UpdateAccount(q.sub, row), UNCHANGED sessions PROVE Reaches
      BY <2>3 DEF UpdateAccount, Updates, ActsOnlyForItself, Shape, TypeOK
    <2>4. ASSUME RevokeFound(r) PROVE Reaches
      <3>1. q.row # None
        BY <1>0, <2>4, NoneIsNoValue DEF RevokeFound, Wellformed
      <3> QED BY <1>0, <2>4, <3>1, RevokeReaches DEF RevokeFound, Vouched, Owned, ActsOnlyForItself
    <2>5. ASSUME NEW n \in Names, UpdateMe(r, n) PROVE Reaches
      BY <2>3, <2>5 DEF UpdateMe
    <2>6. ASSUME NEW c \in Secrets, NEW w \in Spellings, UpdateMyEmail(r, c, w) PROVE Reaches
      BY <2>3, <2>6 DEF UpdateMyEmail
    <2>7. ASSUME NEW c \in Secrets, NEW d \in Secrets, UpdateMySecret(r, c, d) PROVE Reaches
      BY <2>3, <2>7 DEF UpdateMySecret
    <2>8. ASSUME NEW w \in Spellings, NEW c \in Secrets, Login(r, w, c) PROVE Reaches
      BY <1>2, <2>8 DEF Login, tables
    <2>9. ASSUME NEW s \in SessionIds, FindMySession(r, s) PROVE Reaches
      BY <1>2, <2>9 DEF FindMySession, tables
    <2> HIDE DEF Reaches
    <2>10. Reaches
      BY <1>3, <2>1, <2>2, <2>4, <2>5, <2>6, <2>7, <2>8, <2>9 DEF MemberSteps
    <2> QED BY <2>10 DEF Reaches
  <1>4. CASE AdminSteps(r)
    <2>1. q.row # None /\ q.row.admin
      BY <1>0, <1>4, NoneIsNoValue DEF AdminSteps, CreateAccount, ReadForPatch, WritePatch,
         FindAccountSession, RevokeAccount, ReadTarget, ImpersonationMint, Purge, ServeAdmin,
         Serve, Wellformed, Vouched
    <2> QED BY <2>1
  <1> QED BY <1>1, <1>2, <1>3, <1>4 DEF Next, Tick, AuthSteps, Arrive, ResolveSession,
       LoadAccount, Abort, tables, vars

(* Only a request whose caller was read as an admin touches another account's
   row or sessions. *)
THEOREM AdminsAloneReachOthers == Spec => OnlyAdminsReachOthers
  <1>1. Shape /\ Lifetimes /\ Authority /\ [Next]_vars =>
          [\A r \in Requests :
             req'[r] # req[r] => \/ req[r].row # None /\ req[r].row.admin
                                 \/ ActsOnlyForItself(r)]_vars
    BY Reach DEF Lifetimes
  <1> QED BY <1>1, InitShape, ShapeInductive, InitLifetimes, LifetimesInductive,
             InitAuthority, AuthorityInductive, PTL DEF Spec, OnlyAdminsReachOthers
=============================================================================
