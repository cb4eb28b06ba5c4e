--------------------------- MODULE LifecycleProofs ---------------------------
(* What TLAPS proves of Lifecycle, for any number of connections. *)
EXTENDS Lifecycle, TLAPS

(* A drain has closed the listener for good, so that nobody comes in after it; Run's
   result says how it ended. *)
Stopping ==
  /\ result = Nobody <=> runs \in {"serving", "drain"}
  /\ runs = "drain" \/ result \in {"clean", "overrun"} => listener = "closed"

(* The holder of the lock is the one at the database, and nobody goes there once the
   version is cached. *)
OneReader ==
  /\ \A c \in Conns : conn[c] = "read" <=> lock = c
  /\ lock # Nobody => ~cached

IInv ==
  /\ ServerTypeOK
  /\ Stopping
  /\ OneReader
  /\ CleanStopAnswersAll
  /\ GraceIsGranted
  /\ SchemaReadOnce

-----------------------------------------------------------------------------
LEMMA InitInv == LifecycleInit => IInv
  <1> SUFFICES ASSUME LifecycleInit PROVE IInv
    OBVIOUS
  <1>1. ServerTypeOK
    BY DEF LifecycleInit, ServerTypeOK, States
  <1>2. Stopping /\ CleanStopAnswersAll /\ GraceIsGranted /\ SchemaReadOnce
    BY NobodyIsNoValue
    DEF LifecycleInit, Stopping, CleanStopAnswersAll, GraceIsGranted, SchemaReadOnce
  <1>3. OneReader
    BY NobodyIsNoValue DEF LifecycleInit, OneReader
  <1> QED BY <1>1, <1>2, <1>3 DEF IInv

(* The steps of Run, of the listener and of the signals leave the connections and the
   version alone. *)
LEMMA ProcessInv ==
  ASSUME IInv,
         \/ Listen \/ ListenerFails \/ Signal
         \/ RunFails \/ StartDrain \/ FifteenSeconds \/ FinishDrain \/ ServerExits
  PROVE  IInv'
  <1>1. conn' = conn /\ lock' = lock /\ cached' = cached /\ reads' = reads
    BY DEF Listen, ListenerFails, Signal, RunFails, StartDrain, FifteenSeconds,
           FinishDrain, ServerExits, version
  <1>2. OneReader' /\ SchemaReadOnce'
    BY <1>1 DEF IInv, OneReader, SchemaReadOnce
  <1>3. ServerTypeOK'
    <2>1. /\ runs' \in {"serving", "drain", "returned", "exited"}
          /\ result' \in {Nobody, "clean", "overrun", "failed"}
          /\ listener' \in {"starting", "open", "failed", "closed"}
          /\ closes' \in {0, 1}
      BY DEF IInv, ServerTypeOK, Listen, ListenerFails, Signal, RunFails, StartDrain,
             FifteenSeconds, FinishDrain, ServerExits
    <2>2. dev' = dev /\ signalled' \in BOOLEAN /\ elapsed' \in BOOLEAN
      BY DEF IInv, ServerTypeOK, Listen, ListenerFails, Signal, RunFails, StartDrain,
             FifteenSeconds, FinishDrain, ServerExits
    <2> QED BY <1>1, <2>1, <2>2 DEF IInv, ServerTypeOK
  <1>4. Stopping'
    BY NobodyIsNoValue
    DEF IInv, ServerTypeOK, Stopping, Listen, ListenerFails, Signal, RunFails, StartDrain,
        FifteenSeconds, FinishDrain, ServerExits
  <1>5. CleanStopAnswersAll' /\ GraceIsGranted'
    BY <1>1
    DEF IInv, CleanStopAnswersAll, GraceIsGranted, Drained, DrainExpired, Listen,
        ListenerFails, Signal, RunFails, StartDrain, FifteenSeconds, FinishDrain,
        ServerExits
  <1> QED BY <1>2, <1>3, <1>4, <1>5 DEF IInv

(* A step of a connection, other than the shutdown's, moves it from one state to another
   and leaves the process as it is. *)
LEMMA ConnectionInv ==
  ASSUME IInv, NEW c \in Conns, NEW s \in States, Goto(c, s), s # "read",
         conn[c] \notin {"none", "read"}, ServerTypeOK', Stopping',
         UNCHANGED <<result, elapsed, version>>
  PROVE  IInv'
  <1>1. conn \in [Conns -> States] /\ conn' = [conn EXCEPT ![c] = s]
    BY DEF IInv, ServerTypeOK, Goto
  <1>2. lock # c
    BY DEF IInv, OneReader
  <1>3. OneReader'
    BY <1>1, <1>2 DEF IInv, OneReader, version
  <1>4. CleanStopAnswersAll' /\ GraceIsGranted' /\ SchemaReadOnce'
    BY <1>1 DEF IInv, CleanStopAnswersAll, GraceIsGranted, SchemaReadOnce, version
  <1> QED BY <1>3, <1>4 DEF IInv

LEMMA AcceptInv ==
  ASSUME IInv, NEW c \in Conns, Accept(c)
  PROVE  IInv'
  <1>1. conn \in [Conns -> States] /\ conn' = [conn EXCEPT ![c] = "new"]
    BY DEF IInv, ServerTypeOK, Goto, Accept
  <1>2. UNCHANGED <<dev, process, version>> /\ listener = "open"
    BY DEF Accept
  <1>3. result \notin {"clean", "overrun"}
    BY <1>2 DEF IInv, Stopping
  <1>4. ServerTypeOK' /\ Stopping'
    BY <1>1, <1>2 DEF IInv, ServerTypeOK, Stopping, States, process, version
  <1>5. OneReader'
    BY <1>1, <1>2 DEF IInv, OneReader, Accept, version
  <1>6. CleanStopAnswersAll' /\ GraceIsGranted' /\ SchemaReadOnce'
    BY <1>2, <1>3
    DEF IInv, CleanStopAnswersAll, GraceIsGranted, SchemaReadOnce, process, version
  <1> QED BY <1>4, <1>5, <1>6 DEF IInv

(* The steps that read the version or hand on the lock. *)
LEMMA LockInv ==
  ASSUME IInv, NEW c \in Conns, Lock(c) \/ ReadVersion(c) \/ ReadFails(c)
  PROVE  IInv'
  <1>1. conn \in [Conns -> States] /\ UNCHANGED <<dev, process>>
    BY DEF IInv, ServerTypeOK, Lock, ReadVersion, ReadFails
  <1>2. ServerTypeOK' /\ Stopping'
    <2>1. conn' \in [Conns -> States]
      <3>1. conn' = [conn EXCEPT ![c] = "done"] \/ conn' = [conn EXCEPT ![c] = "read"]
        BY DEF Lock, ReadVersion, ReadFails, Goto
      <3> QED BY <1>1, <3>1 DEF States
    <2>2. lock' \in Conns \cup {Nobody} /\ reads' \in Nat
      BY DEF IInv, ServerTypeOK, Lock, ReadVersion, ReadFails
    <2>3. cached' \in BOOLEAN
      BY Zenon DEF IInv, ServerTypeOK, Lock, ReadVersion, ReadFails
    <2> QED BY <1>1, <2>1, <2>2, <2>3 DEF IInv, ServerTypeOK, Stopping, process
  <1>3. OneReader'
    BY <1>1, NobodyIsNoValue
    DEF IInv, ServerTypeOK, OneReader, Lock, ReadVersion, ReadFails, Goto
  <1>4. SchemaReadOnce'
    BY NobodyIsNoValue
    DEF IInv, ServerTypeOK, OneReader, SchemaReadOnce, Lock, ReadVersion, ReadFails
  <1>5. result # "clean"
    BY DEF IInv, CleanStopAnswersAll, Lock, ReadVersion, ReadFails
  <1>6. CleanStopAnswersAll' /\ GraceIsGranted'
    BY <1>1, <1>5 DEF IInv, CleanStopAnswersAll, GraceIsGranted, process
  <1> QED BY <1>2, <1>3, <1>4, <1>6 DEF IInv

LEMMA HandlerInv ==
  ASSUME IInv, NEW c \in Conns, Hangup(c) \/ Handlers(c)
  PROVE  IInv'
  <1>1. ASSUME Hangup(c) \/ Other(c) \/ OtherReturns(c) \/ Answer(c) \/ HandleShutdown(c)
                 \/ HandleVersion(c)
        PROVE  IInv'
    <2>1. PICK s \in States \ {"read"} : Goto(c, s)
      <3>1. \/ Goto(c, "none") \/ Goto(c, "handler") \/ Goto(c, "done")
            \/ Goto(c, "trigger") \/ Goto(c, "lock")
        <4>1. CASE HandleShutdown(c)
          <5>1. CASE dev
            BY <4>1, <5>1 DEF HandleShutdown
          <5>2. CASE ~dev
            BY <4>1, <5>2 DEF HandleShutdown
          <5> QED BY <5>1, <5>2
        <4> QED BY <1>1, <4>1 DEF Hangup, Other, OtherReturns, Answer, HandleVersion
      <3> QED BY <3>1 DEF States
    <2>2. conn[c] \notin {"none", "read"} /\ UNCHANGED <<dev, process, version>>
      BY <1>1 DEF Hangup, Other, OtherReturns, Answer, HandleShutdown, HandleVersion
    <2>3. ServerTypeOK' /\ Stopping'
      BY <2>1, <2>2 DEF IInv, ServerTypeOK, Stopping, Goto, process, version
    <2> QED BY <2>1, <2>2, <2>3, ConnectionInv DEF process
  <1>2. ASSUME TriggerShutdown(c) PROVE IInv'
    <2>1. /\ Goto(c, "done") /\ "done" \in States \ {"read"} /\ conn[c] = "trigger"
          /\ UNCHANGED <<dev, runs, result, listener, signalled, elapsed, version>>
          /\ closes' = IF closes = 0 THEN 1 ELSE closes
      BY <1>2 DEF TriggerShutdown, States
    <2>2. ServerTypeOK' /\ Stopping'
      BY <2>1 DEF IInv, ServerTypeOK, Stopping, Goto, version
    <2> QED BY <2>1, <2>2, ConnectionInv
  <1> QED BY <1>1, <1>2, LockInv DEF Handlers

LEMMA Inductive == IInv /\ [LifecycleNext]_lifecycle => IInv'
  <1> SUFFICES ASSUME IInv, [LifecycleNext]_lifecycle PROVE IInv'
    OBVIOUS
  <1>1. CASE UNCHANGED lifecycle
    BY <1>1
    DEF lifecycle, process, version, IInv, ServerTypeOK, Stopping, OneReader,
        CleanStopAnswersAll, GraceIsGranted, SchemaReadOnce
  <1> QED BY <1>1, ProcessInv, AcceptInv, HandlerInv DEF LifecycleNext

LEMMA Invariant == LifecycleSpec => []IInv
  BY InitInv, Inductive, PTL DEF LifecycleSpec

-----------------------------------------------------------------------------
(* Shapes; and the shutdown channel is never closed twice. *)
THEOREM TypeCorrect == LifecycleSpec => []ServerTypeOK
  <1>1. IInv => ServerTypeOK
    BY DEF IInv
  <1> QED BY <1>1, Invariant, PTL

(* When Run returns nil no request is left without its answer. *)
THEOREM CleanStopsCutNobodyOff == LifecycleSpec => []CleanStopAnswersAll
  <1>1. IInv => CleanStopAnswersAll
    BY DEF IInv
  <1> QED BY <1>1, Invariant, PTL

(* A drain that cuts requests off has waited for its deadline. *)
THEOREM DrainsWait == LifecycleSpec => []GraceIsGranted
  <1>1. IInv => GraceIsGranted
    BY DEF IInv
  <1> QED BY <1>1, Invariant, PTL

(* The schema version is read once at most, and what is cached was read. *)
THEOREM OneReadIsCached == LifecycleSpec => []SchemaReadOnce
  <1>1. IInv => SchemaReadOnce
    BY DEF IInv
  <1> QED BY <1>1, Invariant, PTL
=============================================================================
