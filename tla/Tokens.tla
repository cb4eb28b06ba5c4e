------------------------------- MODULE Tokens -------------------------------
(***************************************************************************)
(* cmd/earl: invocations of the client that share one tokens.json.  Each   *)
(* loads the file, picks an identity, makes one HTTP call and may replace  *)
(* the file through a temporary one and a rename; others may do the same   *)
(* between any two of these steps, and each may be killed anywhere.        *)
(*                                                                         *)
(* The server is external: it refuses or answers as it likes, but a token  *)
(* it mints for an account is that account's.  A call that the 30-second   *)
(* timeout gives up may have been carried out; the token minted for it is  *)
(* known to nobody and so is left out.  A store is kept flat, by server    *)
(* and email; a token's type and expiry, which nothing reads, are left     *)
(* out.                                                                    *)
(***************************************************************************)
CONSTANTS
  Invocations,
  Servers,       \* base URLs
  Spellings,     \* of email addresses: typed, saved or answered
  Lower, Trim,   \* strings.ToLower and strings.TrimSpace on Spellings
  Accounts,      \* <<server, email>>: the accounts there are
  Calls,         \* <<verb, server, spelling>>: the commands given (bounds a run)
  Serials,       \* bounds the tokens an account is given
  None           \* no email, no token, no answer, nobody running

Keys == Servers \X Spellings
Verbs == {"login", "logout", "impersonate", "request", "anonymous"}

ASSUME TokensAssumption ==
  /\ Lower \in [Spellings -> Spellings] /\ Trim \in [Spellings -> Spellings]
  /\ Accounts \subseteq Keys
  /\ \A k \in Accounts : Lower[k[2]] = k[2]
  /\ Calls \subseteq Verbs \X Servers \X (Spellings \union {None})
  /\ \A call \in Calls : call[1] = "login" => call[3] # None
  /\ None \notin Spellings

Token == [key : Accounts, serial : Serials]
Store == [Keys -> Token \union {None}]

VARIABLES
  file,   \* tokens.json; a missing or empty file is an empty store
  run     \* invocation -> its command and how far it is

vars == <<file, run>>

Invocation ==
  [verb : Verbs, server : Servers, email : Spellings \union {None},
   pc : {"load", "call", "answer", "temp", "rename"},
   held : Store \union {None},      \* the store as it was loaded
   who : Spellings \union {None},    \* the identity acting
   token : Token \union {None},      \* ... and its token
   reply : Token \union {None}]      \* the token in the answer, if any

ASSUME NoneIsNoValue ==
  None \notin Token /\ None \notin Store /\ None \notin Invocation

Init ==
  /\ file = [k \in Keys |-> None]
  /\ run = [c \in Invocations |-> None]

-----------------------------------------------------------------------------
(* The store. *)

(* Mutant of Put: saved under the identity that made the call. *)
PutAsTyped(store, i) ==
  IF i.who = None THEN [store EXCEPT ![i.reply.key] = i.reply]
                  ELSE [store EXCEPT ![<<i.server, i.who>>] = i.reply]

(* put: a login's token under the email given, lowercased, an impersonation's under
   its subject's. *)
Put(store, i) ==
  LET email == IF i.verb = "login" THEN Trim[i.email] ELSE i.reply.key[2] IN
  [store EXCEPT ![<<i.server, Lower[email]>>] = i.reply]

Drop(store, i) == [store EXCEPT ![<<i.server, Lower[i.who]>>] = None]

IdentitiesAt(store, s) == {e \in Spellings : store[<<s, e>>] # None}

(* resolve: the identity asked for, or the only one there is; else none. *)
Selected(store, s, e) ==
  IF e # None
  THEN IdentitiesAt(store, s) \intersect {Lower[e]}
  ELSE {x \in IdentitiesAt(store, s) : IdentitiesAt(store, s) = {x}}

-----------------------------------------------------------------------------
At(c, pc) == run[c] # None /\ run[c].pc = pc

Set(c, i) == run' = [run EXCEPT ![c] = i]
Exit(c) == Set(c, None)

(* login calls first and loads after; the others pick an identity first, unless told
   not to. *)
Start(c, call) ==
  /\ run[c] = None
  /\ Set(c, [verb |-> call[1], server |-> call[2], email |-> call[3],
             pc |-> IF call[1] \in {"login", "anonymous"} THEN "call" ELSE "load",
             held |-> None, who |-> None, token |-> None, reply |-> None])
  /\ UNCHANGED file

(* No identity: a plain request goes unauthenticated, logout and impersonate stop. *)
Load(c) ==
  LET i == run[c]
      selected == Selected(file, i.server, i.email) IN
  /\ At(c, "load")
  /\ \/ \E e \in selected :
          Set(c, [i EXCEPT !.pc = "call", !.held = file, !.who = e,
                           !.token = file[<<i.server, e>>]])
     \/ /\ selected = {}
        /\ IF i.verb = "request" THEN Set(c, [i EXCEPT !.pc = "call", !.held = file])
                                 ELSE Exit(c)
  /\ UNCHANGED file

(* The tokens the answer may bring, unless the call is refused.  An impersonation is of
   another account than the caller's. *)
Minted(i) ==
  {t \in Token :
     /\ i.verb \in {"login", "impersonate"}
     /\ t.key[1] = i.server
     /\ i.verb = "login" => t.key[2] = Lower[Trim[i.email]]
     /\ i.verb = "impersonate" => t.key # i.token.key}

Serve(c) ==
  LET i == run[c] IN
  /\ At(c, "call")
  /\ \E reply \in Minted(i) \union {None} :
       Set(c, [i EXCEPT !.pc = "answer", !.reply = reply])
  /\ UNCHANGED file

(* Mutant of Timeout: only the answer is waited for with a limit. *)
TimeoutOfAnswer(c) ==
  /\ At(c, "answer")
  /\ Exit(c)
  /\ UNCHANGED file

(* http.Client.Timeout, and any error of the transport: the file stays as it is,
   though the server may have done what was asked. *)
Timeout(c) ==
  /\ At(c, "call") \/ At(c, "answer")
  /\ Exit(c)
  /\ UNCHANGED file

Report(c) ==
  /\ At(c, "answer")
  /\ \/ run[c].verb \in {"request", "anonymous"}
     \/ run[c].verb \in {"login", "impersonate"} /\ run[c].reply = None
  /\ Exit(c)
  /\ UNCHANGED file

(* login's load. *)
LoadToSave(c) ==
  /\ At(c, "answer") /\ run[c].verb = "login" /\ run[c].reply # None
  /\ Set(c, [run[c] EXCEPT !.pc = "temp", !.held = file])
  /\ UNCHANGED file

(* logout and impersonate go on with the store they loaded before the call; logout
   whatever the answer was. *)
Change(c) ==
  /\ At(c, "answer")
  /\ \/ run[c].verb = "logout"
     \/ run[c].verb = "impersonate" /\ run[c].reply # None
  /\ Set(c, [run[c] EXCEPT !.pc = "temp"])
  /\ UNCHANGED file

(* Mutant of WriteTemp: the file itself is opened for writing, and so emptied. *)
WriteInPlace(c) ==
  /\ At(c, "temp")
  /\ Set(c, [run[c] EXCEPT !.pc = "rename"])
  /\ file' = [k \in Keys |-> None]

(* saveTokens: the temporary file, which nobody reads ... *)
WriteTemp(c) ==
  /\ At(c, "temp")
  /\ Set(c, [run[c] EXCEPT !.pc = "rename"])
  /\ UNCHANGED file

(* ... and the rename that installs it. *)
Rename(c) ==
  LET i == run[c] IN
  /\ At(c, "rename")
  /\ file' = IF i.verb = "logout" THEN Drop(i.held, i) ELSE Put(i.held, i)
  /\ Exit(c)

(* An error of the file system, or the process is killed. *)
Fail(c) ==
  /\ run[c] # None
  /\ Exit(c)
  /\ UNCHANGED file

Proceed(c) ==
  \/ Load(c) \/ Timeout(c) \/ Report(c) \/ LoadToSave(c) \/ Change(c)
  \/ WriteTemp(c) \/ Rename(c)

Next == \E c \in Invocations :
  \/ \E call \in Calls : Start(c, call)
  \/ Proceed(c) \/ Serve(c) \/ Fail(c)

(* A command that runs goes on; the server need not answer. *)
Fairness == \A c \in Invocations : WF_vars(Proceed(c))

Spec == Init /\ [][Next]_vars /\ Fairness

-----------------------------------------------------------------------------
(* Properties. *)

(* The store and the commands have the shape of the Go values. *)
TypeOK ==
  /\ file \in Store
  /\ run \in [Invocations -> Invocation \union {None}]

(* The token a call carries is the one minted, by the server called, for the account
   named on the command line, or for the only one logged in at that server when none
   is named (resolve): neither a lookup by spelling, nor a store that is out of date
   or was written by several invocations, makes earl act as somebody else. *)
NeverActsAsAnother ==
  \A c \in Invocations : run[c] # None /\ run[c].token # None =>
    LET i == run[c] IN
    /\ i.token.key[1] = i.server
    /\ IF i.email # None THEN i.token.key[2] = Lower[i.email]
       ELSE IdentitiesAt(i.held, i.server) = {i.token.key[2]}

(* "A crash cannot leave a half-written token file" (saveTokens), and no interleaving
   does worse than to lose what others saved since the writer's load. *)
Keyring == INSTANCE Keyring WITH
  seen <- [c \in Invocations |-> IF run[c] = None THEN None ELSE run[c].held]

KeyringSpec == Keyring!Spec

(* Every command ends: no step waits for the server for ever, or for another
   invocation at all. *)
EveryCommandEnds ==
  \A c \in Invocations : run[c] # None ~> run[c] = None
=============================================================================
