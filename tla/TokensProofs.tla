---------------------------- MODULE TokensProofs ----------------------------
(* What TLAPS proves of Tokens, for any number of invocations, servers, accounts and
   tokens, and any commands. *)
EXTENDS Tokens, TLAPS

(* Every token in a store is filed under the account it was minted for. *)
Filed(store) == \A k \in Keys : store[k] # None => store[k].key = k

(* What an invocation has in hand: a store filed properly, an identity that store had
   and its token, and an answer that is about the account meant. *)
Prepared(i) ==
  /\ i.held # None => Filed(i.held)
  /\ i.verb = "login" => i.token = None /\ i.email # None
  /\ i.pc = "load" => i.verb # "login" /\ i.token = None /\ i.reply = None
  /\ i.verb \in {"logout", "impersonate"} /\ i.pc # "load" =>
       i.held # None /\ i.who # None
  /\ i.token # None =>
       /\ i.held # None
       /\ i.token.key[1] = i.server
       /\ IF i.email # None THEN i.token.key[2] = Lower[i.email]
          ELSE IdentitiesAt(i.held, i.server) = {i.token.key[2]}
  /\ i.reply # None =>
       /\ i.reply.key[1] = i.server
       /\ i.verb = "login" => i.reply.key[2] = Lower[Trim[i.email]]
  /\ i.pc \in {"temp", "rename"} =>
       /\ i.held # None
       /\ i.verb \in {"login", "logout", "impersonate"}
       /\ i.verb # "logout" => i.reply # None

IInv ==
  /\ TypeOK
  /\ Filed(file)
  /\ \A c \in Invocations : run[c] # None => Prepared(run[c])

-----------------------------------------------------------------------------
LEMMA RunType ==
  ASSUME IInv, NEW c \in Invocations, run[c] # None
  PROVE  run[c] \in Invocation /\ Prepared(run[c])
  BY DEF IInv, TypeOK

LEMMA InitInv == Init => IInv
  BY DEF Init, IInv, TypeOK, Store, Filed

(* An invocation that ends. *)
LEMMA ExitInv ==
  ASSUME IInv, NEW c \in Invocations, Exit(c), UNCHANGED file
  PROVE  IInv'
  BY DEF IInv, TypeOK, Exit, Set

(* An invocation that goes on, with i in hand. *)
LEMMA SetInv ==
  ASSUME IInv, NEW c \in Invocations, NEW i \in Invocation, Prepared(i), Set(c, i),
         UNCHANGED file
  PROVE  IInv'
  <1>1. TypeOK'
    BY DEF IInv, TypeOK, Set
  <1>2. Filed(file')
    BY DEF IInv, Filed
  <1>3. \A x \in Invocations : run'[x] # None => Prepared(run'[x])
    BY DEF IInv, TypeOK, Set
  <1> QED BY <1>1, <1>2, <1>3 DEF IInv, Filed, Prepared

LEMMA StartedType ==
  ASSUME NEW verb \in Verbs, NEW server \in Servers, NEW email \in Spellings \union {None},
         NEW pc \in {"load", "call"}
  PROVE  [verb |-> verb, server |-> server, email |-> email, pc |-> pc,
          held |-> None, who |-> None, token |-> None, reply |-> None] \in Invocation
  BY DEF Invocation

LEMMA StartInv ==
  ASSUME IInv, NEW c \in Invocations, NEW call \in Calls, Start(c, call)
  PROVE  IInv'
  <1> DEFINE i == [verb |-> call[1], server |-> call[2], email |-> call[3],
                   pc |-> IF call[1] \in {"login", "anonymous"} THEN "call" ELSE "load",
                   held |-> None, who |-> None, token |-> None, reply |-> None]
  <1>1. /\ call[1] \in Verbs /\ call[2] \in Servers
        /\ call[3] \in Spellings \union {None}
        /\ call[1] = "login" => call[3] # None
    BY TokensAssumption
  <1>2. i \in Invocation
    <2> DEFINE pc == IF call[1] \in {"login", "anonymous"} THEN "call" ELSE "load"
    <2>1. pc \in {"load", "call"}
      OBVIOUS
    <2> HIDE DEF pc
    <2>2. [verb |-> call[1], server |-> call[2], email |-> call[3], pc |-> pc,
           held |-> None, who |-> None, token |-> None, reply |-> None] \in Invocation
      BY <1>1, <2>1, StartedType
    <2> QED BY <2>2 DEF pc
  <1>3. Prepared(i)
    BY <1>1 DEF Prepared, Verbs
  <1> QED BY <1>2, <1>3, SetInv DEF Start

(* The assignments to an invocation's fields, and what they make of it. *)
Acts(i, store, e, t) ==
  [i EXCEPT !.pc = "call", !.held = store, !.who = e, !.token = t]

Holds(i, pc, store) == [i EXCEPT !.pc = pc, !.held = store]

Answered(i, reply) == [i EXCEPT !.pc = "answer", !.reply = reply]

LEMMA ActsType ==
  ASSUME NEW i \in Invocation, NEW store \in Store, NEW e \in Spellings, NEW t \in Token
  PROVE  LET j == Acts(i, store, e, t) IN
         /\ j \in Invocation /\ j.pc = "call" /\ j.held = store /\ j.who = e /\ j.token = t
         /\ j.verb = i.verb /\ j.server = i.server /\ j.email = i.email /\ j.reply = i.reply
  <1> DEFINE j1 == [i EXCEPT !.pc = "call"]
  <1> DEFINE j2 == [j1 EXCEPT !.held = store]
  <1> DEFINE j3 == [j2 EXCEPT !.who = e]
  <1>1. /\ j1 \in Invocation /\ j1.pc = "call" /\ j1.reply = i.reply
        /\ j1.verb = i.verb /\ j1.server = i.server /\ j1.email = i.email
    BY DEF Invocation
  <1> DEFINE j == [j3 EXCEPT !.token = t]
  <1>2. Acts(i, store, e, t) = j
    BY DEF Acts
  <1> HIDE DEF j1
  <1>3. /\ j2 \in Invocation /\ j2.pc = "call" /\ j2.held = store /\ j2.reply = j1.reply
        /\ j2.verb = j1.verb /\ j2.server = j1.server /\ j2.email = j1.email
    BY <1>1 DEF Invocation
  <1> HIDE DEF j2
  <1>4. /\ j3 \in Invocation /\ j3.pc = "call" /\ j3.held = store /\ j3.who = e
        /\ j3.reply = j2.reply
        /\ j3.verb = j2.verb /\ j3.server = j2.server /\ j3.email = j2.email
    BY <1>3 DEF Invocation
  <1> HIDE DEF j3
  <1> QED BY <1>1, <1>2, <1>3, <1>4 DEF Invocation

LEMMA HoldsType ==
  ASSUME NEW i \in Invocation, NEW pc \in {"call", "temp"}, NEW store \in Store
  PROVE  LET j == Holds(i, pc, store) IN
         /\ j \in Invocation /\ j.pc = pc /\ j.held = store /\ j.who = i.who
         /\ j.token = i.token /\ j.reply = i.reply
         /\ j.verb = i.verb /\ j.server = i.server /\ j.email = i.email
  <1> DEFINE j1 == [i EXCEPT !.pc = pc]
  <1>1. /\ j1 \in Invocation /\ j1.pc = pc /\ j1.who = i.who
        /\ j1.token = i.token /\ j1.reply = i.reply
        /\ j1.verb = i.verb /\ j1.server = i.server /\ j1.email = i.email
    BY DEF Invocation
  <1> DEFINE j == [j1 EXCEPT !.held = store]
  <1>2. Holds(i, pc, store) = j
    BY DEF Holds
  <1> HIDE DEF j1
  <1> QED BY <1>1, <1>2 DEF Invocation

LEMMA AnsweredType ==
  ASSUME NEW i \in Invocation, NEW reply \in Token \union {None}
  PROVE  LET j == Answered(i, reply) IN
         /\ j \in Invocation /\ j.pc = "answer" /\ j.reply = reply /\ j.held = i.held
         /\ j.who = i.who /\ j.token = i.token
         /\ j.verb = i.verb /\ j.server = i.server /\ j.email = i.email
  <1> DEFINE j1 == [i EXCEPT !.pc = "answer"]
  <1>1. /\ j1 \in Invocation /\ j1.pc = "answer" /\ j1.held = i.held /\ j1.who = i.who
        /\ j1.token = i.token
        /\ j1.verb = i.verb /\ j1.server = i.server /\ j1.email = i.email
    BY DEF Invocation
  <1> DEFINE j == [j1 EXCEPT !.reply = reply]
  <1>2. Answered(i, reply) = j
    BY DEF Answered
  <1> HIDE DEF j1
  <1> QED BY <1>1, <1>2 DEF Invocation

LEMMA LoadInv ==
  ASSUME IInv, NEW c \in Invocations, Load(c)
  PROVE  IInv'
  <1> DEFINE i == run[c]
  <1> DEFINE selected == Selected(file, i.server, i.email)
  <1>1. i # None /\ i.pc = "load" /\ i \in Invocation /\ Prepared(i) /\ UNCHANGED file
    BY RunType DEF Load, At
  <1>2. file \in Store /\ Filed(file)
    BY DEF IInv, TypeOK
  <1>3. CASE \E e \in selected :
               Set(c, Acts(i, file, e, file[<<i.server, e>>]))
    <2>1. PICK e \in selected :
                 Set(c, Acts(i, file, e, file[<<i.server, e>>]))
      BY <1>3
    <2> DEFINE j == Acts(i, file, e, file[<<i.server, e>>])
    <2>2. e \in Spellings /\ <<i.server, e>> \in Keys /\ file[<<i.server, e>>] # None
            /\ (IF i.email # None THEN e = Lower[i.email]
                ELSE IdentitiesAt(file, i.server) = {e})
      BY <1>1 DEF Selected, IdentitiesAt, Keys, Invocation
    <2>3. file[<<i.server, e>>] \in Token /\ file[<<i.server, e>>].key = <<i.server, e>>
      BY <1>2, <2>2 DEF Store, Filed
    <2>4. /\ j \in Invocation /\ j.pc = "call" /\ j.held = file /\ j.who = e
          /\ j.token = file[<<i.server, e>>] /\ j.reply = i.reply
          /\ j.verb = i.verb /\ j.server = i.server /\ j.email = i.email
      BY <1>1, <1>2, <2>2, <2>3, ActsType
    <2>5. Set(c, j)
      BY <2>1
    <2> HIDE DEF j
    <2>6. Prepared(j)
      <3>1. j.held # None /\ j.who # None /\ Filed(j.held)
        BY <1>2, <2>2, <2>4, NoneIsNoValue, TokensAssumption
      <3>2. j.token.key[1] = j.server /\ j.token.key[2] = e
        BY <2>3, <2>4
      <3>3. IF j.email # None THEN j.token.key[2] = Lower[j.email]
            ELSE IdentitiesAt(j.held, j.server) = {j.token.key[2]}
        BY <2>2, <2>4, <3>2
      <3>4. j.verb # "login" /\ j.reply = None
        BY <1>1, <2>4 DEF Prepared
      <3> QED BY <2>4, <3>1, <3>2, <3>3, <3>4 DEF Prepared
    <2> QED BY <1>1, <2>4, <2>5, <2>6, SetInv
  <1>4. CASE selected = {} /\ i.verb = "request"
               /\ Set(c, Holds(i, "call", file))
    <2> DEFINE j == Holds(i, "call", file)
    <2>1. /\ j \in Invocation /\ j.pc = "call" /\ j.held = file
          /\ j.token = i.token /\ j.reply = i.reply
          /\ j.verb = "request" /\ j.server = i.server /\ j.email = i.email
      BY <1>1, <1>2, <1>4, HoldsType
    <2>2. Set(c, j)
      BY <1>4
    <2> HIDE DEF j
    <2>3. Prepared(j)
      BY <1>1, <1>2, <2>1, NoneIsNoValue DEF Prepared
    <2> QED BY <1>1, <2>1, <2>2, <2>3, SetInv
  <1>5. CASE Exit(c)
    BY <1>1, <1>5, ExitInv
  <1> QED BY <1>3, <1>4, <1>5 DEF Load, Acts, Holds

(* The server's answer. *)
LEMMA ServeInv ==
  ASSUME IInv, NEW c \in Invocations, Serve(c)
  PROVE  IInv'
  <1> DEFINE i == run[c]
  <1>1. i # None /\ i.pc = "call" /\ i \in Invocation /\ Prepared(i) /\ UNCHANGED file
    BY RunType DEF Serve, At
  <1>2. PICK reply \in Minted(i) \union {None} :
               Set(c, Answered(i, reply))
    BY DEF Serve, Answered
  <1> DEFINE j == Answered(i, reply)
  <1>3. reply \in Token \union {None}
    BY DEF Minted
  <1>4. /\ j \in Invocation /\ j.pc = "answer" /\ j.verb = i.verb /\ j.server = i.server
        /\ j.email = i.email /\ j.held = i.held /\ j.who = i.who /\ j.token = i.token
        /\ j.reply = reply
    BY <1>1, <1>3, AnsweredType
  <1>5. Set(c, j)
    BY <1>2
  <1> HIDE DEF j
  <1>6. reply # None =>
          /\ reply.key[1] = i.server
          /\ i.verb = "login" => reply.key[2] = Lower[Trim[i.email]]
    BY DEF Minted
  <1>7. Prepared(j)
    BY <1>1, <1>4, <1>6 DEF Prepared
  <1> QED BY <1>1, <1>4, <1>5, <1>7, SetInv

(* The way from the answer to the rename. *)
LEMMA SaveInv ==
  ASSUME IInv, NEW c \in Invocations, LoadToSave(c) \/ Change(c) \/ WriteTemp(c)
  PROVE  IInv'
  <1> DEFINE i == run[c]
  <1>1. i # None /\ i \in Invocation /\ Prepared(i) /\ UNCHANGED file
    BY RunType DEF LoadToSave, Change, WriteTemp, At
  <1>2. CASE LoadToSave(c)
    <2> DEFINE j == Holds(i, "temp", file)
    <2>1. i.verb = "login" /\ i.reply # None /\ file \in Store /\ Filed(file)
      BY <1>2 DEF LoadToSave, IInv, TypeOK
    <2>2. /\ j \in Invocation /\ j.pc = "temp" /\ j.verb = i.verb /\ j.server = i.server
          /\ j.email = i.email /\ j.who = i.who /\ j.token = i.token /\ j.reply = i.reply
          /\ j.held = file
      BY <1>1, <2>1, HoldsType
    <2>3. Set(c, j)
      BY <1>2 DEF LoadToSave, Holds
    <2> HIDE DEF j
    <2>4. j.held # None
      BY <2>1, <2>2, NoneIsNoValue
    <2>5. Prepared(j)
      BY <1>1, <2>1, <2>2, <2>4 DEF Prepared
    <2> QED BY <1>1, <2>2, <2>3, <2>5, SetInv
  <1>3. CASE Change(c)
    <2> DEFINE j == [i EXCEPT !.pc = "temp"]
    <2>1. i.pc = "answer" /\ (i.verb = "logout" \/ (i.verb = "impersonate" /\ i.reply # None))
            /\ Set(c, j)
      BY <1>3 DEF Change, At
    <2>2. j \in Invocation /\ Prepared(j)
      BY <1>1, <2>1 DEF Invocation, Prepared
    <2> QED BY <1>1, <2>1, <2>2, SetInv
  <1>4. CASE WriteTemp(c)
    <2> DEFINE j == [i EXCEPT !.pc = "rename"]
    <2>1. i.pc = "temp" /\ Set(c, j)
      BY <1>4 DEF WriteTemp, At
    <2>2. j \in Invocation /\ Prepared(j)
      BY <1>1, <2>1 DEF Invocation, Prepared
    <2> QED BY <1>1, <2>1, <2>2, SetInv
  <1> QED BY <1>2, <1>3, <1>4

(* What is saved is filed under the account it is for: the key put builds from the
   command line or from the answer is the token's own. *)
LEMMA PutFiles ==
  ASSUME NEW i \in Invocation, Prepared(i), i.verb \in {"login", "impersonate"},
         i.reply # None
  PROVE  /\ i.reply \in Token /\ i.reply.key \in Keys
         /\ Put(i.held, i) = [i.held EXCEPT ![i.reply.key] = i.reply]
  <1>1. i.reply \in Token
    BY DEF Invocation
  <1>2. i.reply.key \in Accounts
    BY <1>1 DEF Token
  <1>3. /\ i.reply.key \in Keys /\ Lower[i.reply.key[2]] = i.reply.key[2]
        /\ i.reply.key[1] = i.server
    BY <1>2, TokensAssumption DEF Prepared
  <1>4. i.reply.key = <<i.server, i.reply.key[2]>>
    BY <1>3 DEF Keys
  <1>5. CASE i.verb = "login"
    <2>1. Lower[Trim[i.email]] = i.reply.key[2]
      BY <1>5 DEF Prepared
    <2> QED BY <1>1, <1>3, <1>4, <1>5, <2>1 DEF Put
  <1>6. CASE i.verb = "impersonate"
    BY <1>1, <1>3, <1>4, <1>6 DEF Put
  <1> QED BY <1>5, <1>6

LEMMA RenameInv ==
  ASSUME IInv, NEW c \in Invocations, Rename(c)
  PROVE  IInv'
  <1> DEFINE i == run[c]
  <1>1. /\ i # None /\ i \in Invocation /\ Prepared(i) /\ i.pc = "rename" /\ Exit(c)
        /\ file' = IF i.verb = "logout" THEN Drop(i.held, i) ELSE Put(i.held, i)
    BY RunType DEF Rename, At
  <1>2. i.held \in Store /\ Filed(i.held)
    BY <1>1 DEF Prepared, Invocation
  <1>3. file' \in Store /\ Filed(file')
    <2>1. CASE i.verb = "logout"
      BY <1>1, <1>2, <2>1 DEF Drop, Store, Filed
    <2>2. CASE i.verb # "logout"
      <3>1. i.verb \in {"login", "impersonate"} /\ i.reply # None
        BY <1>1, <2>2 DEF Prepared
      <3>2. /\ i.reply \in Token /\ i.reply.key \in Keys
            /\ file' = [i.held EXCEPT ![i.reply.key] = i.reply]
        BY <1>1, <2>2, <3>1, PutFiles
      <3> QED BY <1>2, <3>2 DEF Store, Filed
    <2> QED BY <2>1, <2>2
  <1>4. run' \in [Invocations -> Invocation \union {None}]
          /\ \A x \in Invocations : run'[x] # None => Prepared(run'[x])
    BY <1>1 DEF IInv, TypeOK, Exit, Set
  <1> QED BY <1>3, <1>4 DEF IInv, TypeOK, Filed, Prepared

LEMMA Inductive == IInv /\ [Next]_vars => IInv'
  <1> SUFFICES ASSUME IInv, [Next]_vars PROVE IInv'
    OBVIOUS
  <1>1. ASSUME NEW c \in Invocations, NEW call \in Calls, Start(c, call) PROVE IInv'
    BY <1>1, StartInv
  <1>2. ASSUME NEW c \in Invocations, Timeout(c) \/ Report(c) \/ Fail(c) PROVE IInv'
    BY <1>2, ExitInv DEF Timeout, Report, Fail
  <1>3. ASSUME NEW c \in Invocations, Proceed(c) PROVE IInv'
    BY <1>2, <1>3, LoadInv, SaveInv, RenameInv DEF Proceed
  <1>4. ASSUME NEW c \in Invocations, Serve(c) PROVE IInv'
    BY <1>4, ServeInv
  <1>5. CASE UNCHANGED vars
    BY <1>5 DEF vars, IInv, TypeOK, Filed, Prepared
  <1> QED BY <1>1, <1>2, <1>3, <1>4, <1>5 DEF Next

LEMMA Invariant == Spec => []IInv
  BY InitInv, Inductive, PTL DEF Spec

-----------------------------------------------------------------------------
(* Stores and commands keep their shape. *)
THEOREM TypeCorrect == Spec => []TypeOK
  <1>1. IInv => TypeOK
    BY DEF IInv
  <1> QED BY <1>1, Invariant, PTL

(* The identity that acts is the one named, or the only one there is. *)
THEOREM ActsAsMeant == Spec => []NeverActsAsAnother
  <1>1. IInv => NeverActsAsAnother
    BY DEF IInv, NeverActsAsAnother, Prepared
  <1> QED BY <1>1, Invariant, PTL

(* Any number of invocations that load and replace the token file implement the promise
   of Keyring. *)
THEOREM Implements == Spec => KeyringSpec
  <1> DEFINE held == [c \in Invocations |-> IF run[c] = None THEN None ELSE run[c].held]
  <1>1. Init => Keyring!Init
    BY DEF Init, Keyring!Init
  <1>2. ASSUME IInv, [Next]_vars PROVE [Keyring!Next]_<<file, held>>
    <2>1. ASSUME NEW c \in Invocations, Exit(c), UNCHANGED file
          PROVE  Keyring!Leave(c)
      BY <1>2, <2>1 DEF IInv, TypeOK, Exit, Set, Keyring!Leave
    <2>2. ASSUME NEW c \in Invocations, NEW i \in Invocation, Set(c, i), UNCHANGED file,
                 i.held = held[c]
          PROVE  UNCHANGED <<file, held>>
      BY <1>2, <2>2, NoneIsNoValue DEF IInv, TypeOK, Set
    <2>3. ASSUME NEW c \in Invocations, NEW i \in Invocation, Set(c, i), UNCHANGED file,
                 i.held = file
          PROVE  Keyring!Read(c)
      BY <1>2, <2>3, NoneIsNoValue DEF IInv, TypeOK, Set, Keyring!Read
    <2>4. ASSUME NEW c \in Invocations, NEW call \in Calls, Start(c, call)
          PROVE  UNCHANGED <<file, held>>
      BY <1>2, <2>4 DEF IInv, TypeOK, Start, Set
    <2>5. ASSUME NEW c \in Invocations, Timeout(c) \/ Report(c) \/ Fail(c)
          PROVE  Keyring!Leave(c)
      BY <2>1, <2>5 DEF Timeout, Report, Fail
    <2>6. ASSUME NEW c \in Invocations, Load(c)
          PROVE  Keyring!Read(c) \/ Keyring!Leave(c)
      <3> DEFINE i == run[c]
      <3>1. i \in Invocation /\ UNCHANGED file /\ file \in Store
        BY <1>2, <2>6, RunType DEF Load, At, IInv, TypeOK
      <3>2. CASE \E e \in Selected(file, i.server, i.email) :
                   Set(c, Acts(i, file, e, file[<<i.server, e>>]))
        <4>1. PICK e \in Selected(file, i.server, i.email) :
                     Set(c, Acts(i, file, e, file[<<i.server, e>>]))
          BY <3>2
        <4>2. e \in Spellings /\ file[<<i.server, e>>] \in Token
          BY <3>1 DEF Selected, IdentitiesAt, Keys, Invocation, Store
        <4> DEFINE j == Acts(i, file, e, file[<<i.server, e>>])
        <4>3. j \in Invocation /\ j.held = file
          BY <3>1, <4>2, ActsType
        <4> HIDE DEF j
        <4>4. Set(c, j)
          BY <4>1 DEF j
        <4> QED BY <2>3, <3>1, <4>3, <4>4
      <3>3. CASE Set(c, Holds(i, "call", file))
        <4> DEFINE j == Holds(i, "call", file)
        <4>1. j \in Invocation /\ j.held = file
          BY <3>1, HoldsType
        <4> HIDE DEF j
        <4>2. Set(c, j)
          BY <3>3 DEF j
        <4> QED BY <2>3, <3>1, <4>1, <4>2
      <3>4. CASE Exit(c)
        BY <2>1, <3>1, <3>4
      <3> QED BY <2>6, <3>2, <3>3, <3>4 DEF Load, Acts, Holds
    <2>7. ASSUME NEW c \in Invocations, Serve(c)
          PROVE  UNCHANGED <<file, held>>
      <3> DEFINE i == run[c]
      <3>1. i # None /\ i \in Invocation /\ UNCHANGED file /\ held[c] = i.held
        BY <1>2, <2>7, RunType DEF Serve, At
      <3>2. PICK reply \in Minted(i) \union {None} :
                   Set(c, Answered(i, reply))
        BY <2>7 DEF Serve, Answered
      <3> DEFINE j == Answered(i, reply)
      <3>3. reply \in Token \union {None}
        BY DEF Minted
      <3>4. j \in Invocation /\ j.held = i.held
        BY <3>1, <3>3, AnsweredType
      <3> HIDE DEF j
      <3>5. Set(c, j)
        BY <3>2 DEF j
      <3> QED BY <2>2, <3>1, <3>4, <3>5
    <2>8. ASSUME NEW c \in Invocations, LoadToSave(c)
          PROVE  Keyring!Read(c)
      <3> DEFINE j == Holds(run[c], "temp", file)
      <3>1. run[c] \in Invocation /\ UNCHANGED file /\ file \in Store /\ Set(c, j)
        BY <1>2, <2>8, RunType DEF LoadToSave, Holds, At, IInv, TypeOK
      <3>2. j \in Invocation /\ j.held = file
        BY <3>1, HoldsType
      <3> HIDE DEF j
      <3> QED BY <2>3, <3>1, <3>2
    <2>9. ASSUME NEW c \in Invocations, Change(c) \/ WriteTemp(c)
          PROVE  UNCHANGED <<file, held>>
      <3>1. /\ run[c] # None /\ run[c] \in Invocation /\ UNCHANGED file
            /\ held[c] = run[c].held
        BY <1>2, <2>9, RunType DEF Change, WriteTemp, At
      <3>2. PICK pc \in {"temp", "rename"} : Set(c, [run[c] EXCEPT !.pc = pc])
        BY <2>9 DEF Change, WriteTemp
      <3> DEFINE j == [run[c] EXCEPT !.pc = pc]
      <3>3. j \in Invocation /\ j.held = run[c].held
        BY <3>1 DEF Invocation
      <3> HIDE DEF j
      <3>4. Set(c, j)
        BY <3>2 DEF j
      <3> QED BY <2>2, <3>1, <3>3, <3>4
    <2>10. ASSUME NEW c \in Invocations, Rename(c)
           PROVE  Keyring!Write(c)
      <3> DEFINE i == run[c]
      <3>1. /\ i # None /\ i \in Invocation /\ Prepared(i) /\ i.pc = "rename" /\ Exit(c)
            /\ file' = IF i.verb = "logout" THEN Drop(i.held, i) ELSE Put(i.held, i)
        BY <1>2, <2>10, RunType DEF Rename, At
      <3>2. held[c] = i.held /\ i.held # None
        BY <3>1 DEF Prepared
      <3>3. held' = [held EXCEPT ![c] = None]
        BY <1>2, <3>1 DEF IInv, TypeOK, Exit, Set
      <3>4. CASE i.verb = "logout"
        <4>1. <<i.server, Lower[i.who]>> \in Keys
          BY <3>1, <3>4, TokensAssumption DEF Prepared, Invocation, Keys
        <4> QED BY <3>1, <3>2, <3>3, <3>4, <4>1 DEF Drop, Keyring!Write
      <3>5. CASE i.verb # "logout"
        <4>1. i.verb \in {"login", "impersonate"} /\ i.reply # None
          BY <3>1, <3>5 DEF Prepared
        <4>2. /\ i.reply \in Token
              /\ file' = [held[c] EXCEPT ![i.reply.key] = i.reply]
          BY <3>1, <3>2, <3>5, <4>1, PutFiles
        <4> QED BY <3>2, <3>3, <4>2 DEF Keyring!Write
      <3> QED BY <3>4, <3>5
    <2>11. CASE UNCHANGED vars
      BY <2>11 DEF vars
    <2>12. ASSUME NEW c \in Invocations,
                  (\E call \in Calls : Start(c, call)) \/ Proceed(c) \/ Serve(c) \/ Fail(c)
           PROVE  [Keyring!Next]_<<file, held>>
      <3>1. CASE \E call \in Calls : Start(c, call)
        BY <2>4, <3>1
      <3>2. CASE Proceed(c)
        BY <2>5, <2>6, <2>8, <2>9, <2>10, <3>2 DEF Proceed, Keyring!Next
      <3>3. CASE Serve(c) \/ Fail(c)
        BY <2>5, <2>7, <3>3 DEF Keyring!Next
      <3> QED BY <2>12, <3>1, <3>2, <3>3
    <2> QED BY <1>2, <2>11, <2>12 DEF Next
  <1> QED BY <1>1, <1>2, Invariant, PTL DEF Spec, KeyringSpec, Keyring!Spec
=============================================================================
