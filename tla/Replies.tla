------------------------------- MODULE Replies ------------------------------
(***************************************************************************)
(* One request through the server: the middleware that numbers it, logs it *)
(* and recovers its panics (server/middleware.go), the checks of its route *)
(* group, and its handler, which leaves at the first check that fails.     *)
(* What a check looks at may have changed since the one before it, so each *)
(* passes or fails on its own.                                             *)
(*                                                                         *)
(* An exit of a handler is <<why, status>>, in the order of the code, the  *)
(* last being success; exits of the same kind that follow each other are   *)
(* one.  Bodies are left out: an error's code goes with its status.        *)
(***************************************************************************)
EXTENDS Naturals, Sequences

-----------------------------------------------------------------------------
(* The handlers. *)

SystemExits == [
  getHealth |-> <<<<"done", 200>>>>,
  getVersion |-> <<<<"store", 500>>, <<"done", 200>>>>,
  login |-> <<<<"body", 400>>, <<"empty credential", 401>>, <<"store", 500>>,
              <<"credential", 401>>, <<"store", 500>>, <<"done", 200>>>>,
  logout |-> <<<<"optional body", 400>>, <<"store", 500>>, <<"done", 204>>>>]

MeExits == [
  getMe |-> <<<<"done", 200>>>>,
  updateMe |-> <<<<"body", 400>>, <<"store", 500>>, <<"done", 200>>>>,
  updateMyEmail |-> <<<<"body", 400>>, <<"secret", 401>>, <<"field", 400>>,
                      <<"email taken", 409>>, <<"store", 500>>, <<"done", 200>>>>,
  updateMySecret |-> <<<<"body", 400>>, <<"secret", 401>>, <<"field", 400>>,
                       <<"store", 500>>, <<"done", 204>>>>]

MySessionExits == [
  listMySessions |-> <<<<"store", 500>>, <<"done", 200>>>>,
  revokeMySession |-> <<<<"no session", 404>>, <<"store", 500>>, <<"not its owner", 404>>,
                        <<"purged", 404>>, <<"store", 500>>, <<"done", 204>>>>]

AccountSessionExits == [
  listAccountSessions |-> <<<<"path id", 400>>, <<"no account", 404>>, <<"store", 500>>,
                            <<"done", 200>>>>,
  revokeAccountSessions |-> <<<<"path id", 400>>, <<"no account", 404>>, <<"store", 500>>,
                              <<"done", 204>>>>,
  revokeAccountSession |-> <<<<"path id", 400>>, <<"no session", 404>>, <<"store", 500>>,
                             <<"not its owner", 404>>, <<"purged", 404>>,
                             <<"store", 500>>, <<"done", 204>>>>,
  purgeSessions |-> <<<<"store", 500>>, <<"done", 200>>>>]

AccountExits == [
  listAccounts |-> <<<<"store", 500>>, <<"done", 200>>>>,
  createAccount |-> <<<<"body", 400>>, <<"field", 400>>, <<"hash", 500>>,
                      <<"email taken", 409>>, <<"store", 500>>, <<"done", 201>>>>]

OneAccountExits == [
  getAccount |-> <<<<"path id", 400>>, <<"no account", 404>>, <<"store", 500>>,
                   <<"done", 200>>>>,
  updateAccount |-> <<<<"path id", 400>>, <<"body", 400>>, <<"no field", 400>>,
                      <<"no account", 404>>, <<"store", 500>>, <<"field", 400>>,
                      <<"hash", 500>>, <<"email taken", 409>>, <<"gone", 404>>,
                      <<"store", 500>>, <<"done", 200>>>>]

AdminExits == [
  shutdownServer |-> <<<<"not dev mode", 404>>, <<"done", 202>>>>,
  createImpersonation |-> <<<<"body", 400>>, <<"field", 400>>, <<"no account", 404>>,
                            <<"store", 500>>, <<"not eligible", 409>>,
                            <<"store", 500>>, <<"done", 200>>>>]

CatalogExits == [
  listGames |-> <<<<"query", 400>>, <<"store", 500>>, <<"done", 200>>>>,
  createGame |-> <<<<"body", 400>>, <<"field", 400>>, <<"name taken", 409>>,
                   <<"store", 500>>, <<"done", 201>>>>,
  getGame |-> <<<<"path id", 400>>, <<"no game", 404>>, <<"store", 500>>,
                <<"hidden", 403>>, <<"done", 200>>>>]

GameExits == [
  updateGame |-> <<<<"path id", 400>>, <<"body", 400>>, <<"field", 400>>,
                   <<"no game", 404>>, <<"store", 500>>, <<"not a manager", 403>>,
                   <<"visibility", 403>>, <<"archived", 409>>, <<"move", 403>>,
                   <<"backward", 409>>, <<"name taken", 409>>, <<"gone", 404>>,
                   <<"store", 500>>, <<"done", 200>>>>,
  listMyGames |-> <<<<"store", 500>>, <<"done", 200>>>>]

MemberExits == [
  listGameMembers |-> <<<<"path id", 400>>, <<"no game", 404>>, <<"store", 500>>,
                        <<"not a member", 404>>, <<"store", 500>>, <<"done", 200>>>>,
  addGameMember |-> <<<<"path id", 400>>, <<"body", 400>>, <<"field", 400>>,
                      <<"no game", 404>>, <<"store", 500>>, <<"not a manager", 403>>,
                      <<"archived", 409>>, <<"not recruiting", 409>>,
                      <<"no account", 400>>, <<"store", 500>>, <<"seated", 409>>,
                      <<"store", 500>>, <<"done", 201>>>>]

SeatExits == [
  updateGameMember |-> <<<<"path id", 400>>, <<"body", 400>>, <<"field", 400>>,
                         <<"no game", 404>>, <<"store", 500>>, <<"no member", 404>>,
                         <<"store", 500>>, <<"archived", 409>>, <<"store", 500>>,
                         <<"not a manager", 403>>, <<"not recruiting", 409>>,
                         <<"gone", 404>>, <<"store", 500>>, <<"done", 200>>>>]

(* The catch-all, of unknown paths and unknown methods alike. *)
NotFoundExits == [unrouted |-> <<<<"done", 404>>>>]

(* The union of functions with no argument in common. *)
Merged(fs) ==
  [x \in UNION {DOMAIN f : f \in fs} |-> (CHOOSE f \in fs : x \in DOMAIN f)[x]]

HandlerExits == Merged(
  {SystemExits, MeExits, MySessionExits, AccountSessionExits, AccountExits,
   OneAccountExits, AdminExits, CatalogExits, GameExits, MemberExits, SeatExits,
   NotFoundExits})

Operations == DOMAIN HandlerExits

-----------------------------------------------------------------------------
(* The routes. *)

Public == {"getHealth", "getVersion", "login", "unrouted"}
Authed ==
  {"logout", "getMe", "updateMe", "updateMyEmail", "updateMySecret", "listMySessions",
   "revokeMySession", "listMyGames", "listGames", "getGame", "updateGame",
   "listGameMembers", "addGameMember", "updateGameMember"}

(* A store that fails while the token is resolved is a 401 as well. *)
requireAuth == <<<<"session", 401>>, <<"inactive", 401>>>>
requireAdmin == <<<<"not an admin", 403>>>>

(* Mutant of Gate: the caller's own sessions are put on the admins' group. *)
GateOfSessions(op) ==
  IF op \in Public THEN <<>>
  ELSE IF op \in Authed \ {"listMySessions", "revokeMySession"} THEN requireAuth
  ELSE requireAuth \o requireAdmin

Gate(op) ==
  IF op \in Public THEN <<>>
  ELSE IF op \in Authed THEN requireAuth
  ELSE requireAuth \o requireAdmin

Exits(op) == Gate(op) \o HandlerExits[op]

-----------------------------------------------------------------------------
(* The middleware. *)

VARIABLES
  operation, at,   \* the operation, and the exit its handler has come to
  stage,
  recorder,   \* withLogging's statusRecorder
  sent,       \* the exit whose status the client was sent first
  logged      \* the status of the request's log line

replies == <<operation, at, stage, recorder, sent, logged>>

Unsent == <<"none", 0>>

RepliesInit ==
  /\ operation \in Operations /\ at = 1
  /\ stage = "handler"
  /\ recorder = [status |-> 200, wrote |-> FALSE]
  /\ sent = Unsent /\ logged = 0

(* WriteHeader of the recorder: what comes after the first is ignored. *)
WriteHeader(exit) ==
  IF recorder.wrote THEN UNCHANGED <<recorder, sent>>
  ELSE recorder' = [status |-> exit[2], wrote |-> TRUE] /\ sent' = exit

Pass ==
  /\ stage = "handler" /\ at < Len(Exits(operation))
  /\ at' = at + 1
  /\ UNCHANGED <<operation, stage, recorder, sent, logged>>

Leave ==
  /\ stage = "handler"
  /\ WriteHeader(Exits(operation)[at])
  /\ stage' = "body"
  /\ UNCHANGED <<operation, at, logged>>

Return ==
  /\ stage = "body"
  /\ stage' = "returned"
  /\ UNCHANGED <<operation, at, recorder, sent, logged>>

(* A defect, in the handler or while the body is encoded; or a call that panics with
   http.ErrAbortHandler, as no handler of the server does by itself. *)
Panic ==
  /\ stage \in {"handler", "body"}
  /\ stage' \in {"panicking", "aborting"}
  /\ UNCHANGED <<operation, at, recorder, sent, logged>>

(* Mutant of Recover: an envelope although the header has been sent; only the log is
   told. *)
RecoverAlways ==
  /\ stage = "panicking"
  /\ recorder' = [status |-> 500, wrote |-> TRUE]
  /\ sent' = IF recorder.wrote THEN sent ELSE <<"panic", 500>>
  /\ stage' = "returned"
  /\ UNCHANGED <<operation, at, logged>>

(* withRecovery: the envelope, unless the header has been sent. *)
Recover ==
  /\ stage = "panicking"
  /\ WriteHeader(<<"panic", 500>>)
  /\ stage' = "returned"
  /\ UNCHANGED <<operation, at, logged>>

(* The sentinel is passed on, past withLogging, which writes no line then, to net/http,
   which drops the connection. *)
Repanic ==
  /\ stage = "aborting"
  /\ stage' = "aborted"
  /\ UNCHANGED <<operation, at, recorder, sent, logged>>

Log ==
  /\ stage = "returned"
  /\ logged' = recorder.status
  /\ stage' = "done"
  /\ UNCHANGED <<operation, at, recorder, sent>>

RepliesNext == Pass \/ Leave \/ Return \/ Panic \/ Recover \/ Repanic \/ Log

RepliesSpec == RepliesInit /\ [][RepliesNext]_replies

-----------------------------------------------------------------------------
(* The contract: the statuses the generated response types declare. *)

DeclaredAccounts1 == [
  listAccounts |-> {200, 401, 403},
  createAccount |-> {201, 400, 401, 403, 409}]
DeclaredAccounts2 == [
  getAccount |-> {200, 401, 403, 404},
  updateAccount |-> {200, 400, 401, 403, 404, 409}]
DeclaredAccountSessions == [
  revokeAccountSessions |-> {204, 401, 403, 404},
  listAccountSessions |-> {200, 401, 403, 404},
  revokeAccountSession |-> {204, 401, 403, 404}]
DeclaredAdmin == [
  createImpersonation |-> {200, 400, 401, 403, 404, 409},
  purgeSessions |-> {200, 401, 403}]
DeclaredShutdownAndAuth == [
  shutdownServer |-> {202, 401, 403, 404},
  login |-> {200, 400, 401},
  logout |-> {204, 401}]
DeclaredCatalog == [
  listGames |-> {200, 401},
  createGame |-> {201, 400, 401, 403, 409}]
DeclaredGame == [
  getGame |-> {200, 401, 403, 404},
  updateGame |-> {200, 400, 401, 403, 404, 409}]
DeclaredRoster == [
  listGameMembers |-> {200, 401, 403, 404},
  addGameMember |-> {201, 400, 401, 403, 404, 409}]
DeclaredSeat == [
  updateGameMember |-> {200, 400, 401, 403, 404, 409},
  getHealth |-> {200}]
DeclaredMe == [
  getMe |-> {200, 401},
  updateMe |-> {200, 400, 401},
  updateMyEmail |-> {200, 400, 401, 409}]
DeclaredMine == [
  listMyGames |-> {200, 401},
  updateMySecret |-> {204, 400, 401},
  listMySessions |-> {200, 401},
  revokeMySession |-> {204, 401, 404}]
DeclaredVersion == [getVersion |-> {200}]

Declared == Merged(
  {DeclaredAccounts1, DeclaredAccounts2, DeclaredAccountSessions, DeclaredAdmin,
   DeclaredShutdownAndAuth, DeclaredCatalog, DeclaredGame, DeclaredRoster,
   DeclaredSeat, DeclaredMe, DeclaredMine, DeclaredVersion})

(* The handlers are "driven from and checked against" the contract (openapi.yaml): every
   status a client can be sent is one it declares for the operation.  The server's own
   failures are left aside: the contract declares no 500 at all, conventions.md has one
   for every endpoint.  So is an unknown path, which is no operation.  The code does
   otherwise: the operations below answer some requests with an undeclared 400. *)
RepliesAreDeclared ==
  sent # Unsent /\ operation # "unrouted" => sent[2] \in Declared[operation] \union {500}

(* The operations whose path id, status filter or optional body may be malformed, and for
   which the contract does not provide. *)
UndeclaredBadRequests ==
  {"logout", "listAccountSessions", "revokeAccountSessions", "revokeAccountSession",
   "getAccount", "listGames", "getGame", "listGameMembers"}

(* ... but that is all: those operations send nothing else that is undeclared, and no
   other operation, whatever check it fails, in its handler or in front of it, and
   wherever it panics, sends a status the contract does not declare for it. *)
OnlyBadRequestsAreUndeclared ==
  sent # Unsent /\ operation # "unrouted" =>
    \/ sent[2] \in Declared[operation] \union {500}
    \/ sent[2] = 400 /\ operation \in UndeclaredBadRequests

(* "A recovered panic is still logged with its final (500) status" (Handler), and in
   general the log line has the status the client saw, panic before, after or amid the
   reply or not; a handler that aborts its connection leaves no line. *)
LogTellsStatus == stage = "done" => logged = sent[2]
=============================================================================
