------------------------------ MODULE Lifecycle -----------------------------
(***************************************************************************)
(* The life of one server process: server.Run, drain and triggerShutdown,  *)
(* the shutdown handler, cmdServe around them, and the one lock the server *)
(* has, the one behind GET /version.                                       *)
(*                                                                         *)
(* Run waits for the listener to fail, for a signal, or for an admin; then *)
(* http.Server.Shutdown closes the listener and waits for the connections, *)
(* at most 15 seconds.  net/http is external: a connection is accepted,    *)
(* carries one request, and is gone; Shutdown may hang up on those that    *)
(* have sent nothing.                                                      *)
(***************************************************************************)
EXTENDS Naturals

CONSTANTS Conns, Nobody

ASSUME NobodyIsNoValue ==
  Nobody \notin Conns /\ Nobody \notin {"clean", "overrun", "failed"}

VARIABLES
  dev,        \* Config.DevMode
  runs,       \* where Run and, after it, cmdServe are
  result,     \* what Run returned
  listener,
  signalled,  \* the run context has been cancelled
  closes,     \* how often the shutdown channel has been closed
  elapsed,    \* the drain's 15 seconds are over
  conn,       \* the connections
  lock,       \* schemaVersionMu: who holds it
  cached,     \* schemaVersionCached
  reads       \* history: successful reads of the schema version

process == <<runs, result, listener, signalled, closes, elapsed>>
version == <<lock, cached, reads>>
lifecycle == <<dev, process, conn, version>>

States == {"none", "new", "handler", "lock", "read", "trigger", "done"}

LifecycleInit ==
  /\ dev \in BOOLEAN
  /\ runs = "serving" /\ result = Nobody
  /\ listener = "starting" /\ signalled = FALSE /\ closes = 0 /\ elapsed = FALSE
  /\ conn = [c \in Conns |-> "none"]
  /\ lock = Nobody /\ cached = FALSE /\ reads = 0

Up == runs # "exited"

Goto(c, pc) == conn' = [conn EXCEPT ![c] = pc]

-----------------------------------------------------------------------------
(* The listener's goroutine and the world outside. *)

Listen ==
  /\ Up /\ listener = "starting"
  /\ listener' = "open"
  /\ UNCHANGED <<dev, runs, result, signalled, closes, elapsed, conn, version>>

(* ListenAndServe returns an error: the port is taken, or Accept fails. *)
ListenerFails ==
  /\ Up /\ listener \in {"starting", "open"}
  /\ listener' = "failed"
  /\ UNCHANGED <<dev, runs, result, signalled, closes, elapsed, conn, version>>

(* SIGINT or SIGTERM.  The handler stays installed until cmdServe returns, so a
   second signal does nothing more. *)
Signal ==
  /\ Up /\ ~signalled
  /\ signalled' = TRUE
  /\ UNCHANGED <<dev, runs, result, listener, closes, elapsed, conn, version>>

Accept(c) ==
  /\ Up /\ listener = "open" /\ conn[c] = "none"
  /\ Goto(c, "new")
  /\ UNCHANGED <<dev, process, version>>

Hangup(c) ==
  /\ Up /\ conn[c] = "new"
  /\ Goto(c, "none")
  /\ UNCHANGED <<dev, process, version>>

-----------------------------------------------------------------------------
(* Run. *)

(* ErrServerClosed is not among these: only the drain closes the server. *)
RunFails ==
  /\ runs = "serving" /\ listener = "failed"
  /\ runs' = "returned" /\ result' = "failed"
  /\ UNCHANGED <<dev, listener, signalled, closes, elapsed, conn, version>>

(* Either request to stop starts the drain; a select with several cases ready
   takes any of them. *)
StartDrain ==
  /\ runs = "serving" /\ (signalled \/ closes > 0)
  /\ runs' = "drain" /\ listener' = "closed"
  /\ UNCHANGED <<dev, result, signalled, closes, elapsed, conn, version>>

(* Mutants of DrainExpired: the drain's context descends from the cancelled
   one; the drain has no deadline. *)
DrainExpiredWithRun == elapsed \/ signalled
DrainNeverExpires == FALSE

(* drain derives its context from Background, with the timeout. *)
DrainExpired == elapsed

(* Mutant of Drained: Close instead of Shutdown. *)
DrainedAtOnce == listener = "closed"

(* Shutdown waits until no connection is left. *)
Drained == \A c \in Conns : conn[c] = "none"

FifteenSeconds ==
  /\ runs = "drain" /\ ~elapsed
  /\ elapsed' = TRUE
  /\ UNCHANGED <<dev, runs, result, listener, signalled, closes, conn, version>>

FinishDrain ==
  /\ runs = "drain" /\ (Drained \/ DrainExpired)
  /\ runs' = "returned"
  /\ result' = IF Drained THEN "clean" ELSE "overrun"
  /\ UNCHANGED <<dev, listener, signalled, closes, elapsed, conn, version>>

(* cmdServe's deferred calls: the store is closed and the process ends. *)
ServerExits ==
  /\ runs = "returned"
  /\ runs' = "exited"
  /\ UNCHANGED <<dev, result, listener, signalled, closes, elapsed, conn, version>>

-----------------------------------------------------------------------------
(* The handlers.  A request has passed the checks of its route. *)

Other(c) ==
  /\ Up /\ conn[c] = "new"
  /\ Goto(c, "handler")
  /\ UNCHANGED <<dev, process, version>>

(* Any other handler returns whenever it likes, if it does. *)
OtherReturns(c) ==
  /\ Up /\ conn[c] = "handler"
  /\ Goto(c, "done")
  /\ UNCHANGED <<dev, process, version>>

(* The reply is flushed once the handler has returned. *)
Answer(c) ==
  /\ Up /\ conn[c] = "done"
  /\ Goto(c, "none")
  /\ UNCHANGED <<dev, process, version>>

(* POST /admin/shutdown: 404 in production. *)
HandleShutdown(c) ==
  /\ Up /\ conn[c] = "new"
  /\ Goto(c, IF dev THEN "trigger" ELSE "done")
  /\ UNCHANGED <<dev, process, version>>

(* Mutant of TriggerShutdown: without the Once. *)
TriggerShutdownAgain(c) ==
  /\ Up /\ conn[c] = "trigger"
  /\ closes' = closes + 1
  /\ Goto(c, "done")
  /\ UNCHANGED <<dev, runs, result, listener, signalled, elapsed, version>>

TriggerShutdown(c) ==
  /\ Up /\ conn[c] = "trigger"
  /\ closes' = IF closes = 0 THEN 1 ELSE closes
  /\ Goto(c, "done")
  /\ UNCHANGED <<dev, runs, result, listener, signalled, elapsed, version>>

(* GET /version: everybody queues for the lock. *)
HandleVersion(c) ==
  /\ Up /\ conn[c] = "new"
  /\ Goto(c, "lock")
  /\ UNCHANGED <<dev, process, version>>

(* Mutant of Lock: the cache is not looked at once the lock is held. *)
LockUnchecked(c) ==
  /\ Up /\ conn[c] = "lock" /\ lock = Nobody
  /\ lock' = c /\ Goto(c, "read")
  /\ UNCHANGED <<dev, process, cached, reads>>

(* The holder finds the version cached, and is done, or goes to the database
   with the lock held. *)
Lock(c) ==
  /\ Up /\ conn[c] = "lock" /\ lock = Nobody
  /\ \/ cached /\ Goto(c, "done") /\ UNCHANGED lock
     \/ ~cached /\ Goto(c, "read") /\ lock' = c
  /\ UNCHANGED <<dev, process, cached, reads>>

(* Mutant of ReadFails: the lock is not released on the error path. *)
ReadFailsLocked(c) ==
  /\ Up /\ conn[c] = "read"
  /\ Goto(c, "done")
  /\ UNCHANGED <<dev, process, version>>

(* A failure is a 500 and is not cached. *)
ReadFails(c) ==
  /\ Up /\ conn[c] = "read"
  /\ lock' = Nobody /\ Goto(c, "done")
  /\ UNCHANGED <<dev, process, cached, reads>>

ReadVersion(c) ==
  /\ Up /\ conn[c] = "read"
  /\ cached' = TRUE /\ reads' = reads + 1
  /\ lock' = Nobody /\ Goto(c, "done")
  /\ UNCHANGED <<dev, process>>

Handlers(c) ==
  \/ Other(c) \/ OtherReturns(c) \/ Answer(c)
  \/ HandleShutdown(c) \/ TriggerShutdown(c)
  \/ HandleVersion(c) \/ Lock(c) \/ ReadVersion(c) \/ ReadFails(c)

LifecycleNext ==
  \/ Listen \/ ListenerFails \/ Signal
  \/ RunFails \/ StartDrain \/ FifteenSeconds \/ FinishDrain \/ ServerExits
  \/ \E c \in Conns : Accept(c) \/ Hangup(c) \/ Handlers(c)

(* Run's goroutine, the timer and the handlers that wait for nobody are
   scheduled; sync.Mutex hands the lock to a waiter in the end.  Nothing is
   assumed of clients, signals or other handlers. *)
LifecycleFairness ==
  /\ WF_lifecycle(RunFails \/ StartDrain) /\ WF_lifecycle(FifteenSeconds)
  /\ WF_lifecycle(FinishDrain) /\ WF_lifecycle(ServerExits)
  /\ \A c \in Conns : /\ WF_lifecycle(TriggerShutdown(c)) /\ WF_lifecycle(Answer(c))
                      /\ WF_lifecycle(ReadVersion(c) \/ ReadFails(c))
                      /\ SF_lifecycle(Lock(c))

LifecycleSpec == LifecycleInit /\ [][LifecycleNext]_lifecycle /\ LifecycleFairness

-----------------------------------------------------------------------------
(* Properties. *)

(* Shapes; the shutdown channel is closed at most once (a second close would
   panic). *)
ServerTypeOK ==
  /\ dev \in BOOLEAN /\ signalled \in BOOLEAN /\ elapsed \in BOOLEAN
  /\ runs \in {"serving", "drain", "returned", "exited"}
  /\ result \in {Nobody, "clean", "overrun", "failed"}
  /\ listener \in {"starting", "open", "failed", "closed"}
  /\ closes \in {0, 1}
  /\ conn \in [Conns -> States]
  /\ lock \in Conns \cup {Nobody} /\ cached \in BOOLEAN /\ reads \in Nat

(* A clean stop cuts nobody off: when Run returns nil, and so before the store
   is closed under them, every request has its answer, those that asked for the
   shutdown included (server.go, drain). *)
CleanStopAnswersAll == result = "clean" => \A c \in Conns : conn[c] = "none"

(* ... and a stop that does cut requests off has first given them the whole
   grace period, although the context Run was given is cancelled by then. *)
GraceIsGranted == result = "overrun" => elapsed

(* The version is read "at most once for the process lifetime" (server.go),
   however many ask at once, and what is cached was read: no failure poisons
   it. *)
SchemaReadOnce == reads = IF cached THEN 1 ELSE 0

(* Whoever asks the server to stop, it stops, even if some handler never
   returns. *)
StopsWhenAsked ==
  (signalled \/ \E c \in Conns : conn[c] = "trigger") ~> runs = "exited"

(* Nobody waits for the version for ever, though reads may fail. *)
VersionIsAnswered ==
  \A c \in Conns : conn[c] = "lock" ~> (conn[c] = "none" \/ runs = "exited")
=============================================================================
