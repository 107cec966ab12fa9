----------------------------- MODULE WriteQueue -----------------------------
(***************************************************************************)
(* The write path of screenpipe-db.  Hot-path writes are submitted to a     *)
(* bounded channel and executed by one drain loop in batched transactions   *)
(* (write_queue.rs); cold-path callers open an ImmediateTx of their own     *)
(* (db.rs, begin_immediate_with_retry).  Both take the one permit of the    *)
(* write semaphore and a connection of the write pool.  The sleep monitor   *)
(* pauses the drain loop before the machine sleeps and resumes it five      *)
(* seconds after it wakes.                                                  *)
(*                                                                          *)
(* A step is the code between two awaits.  SQLite itself is an environment  *)
(* that answers each statement with one of the outcomes its documentation   *)
(* allows and that the code tells apart; Faults says which failures a run   *)
(* considers.                                                               *)
(***************************************************************************)
EXTENDS Naturals, Sequences, Functions

CONSTANTS
    Writes,      \* submissions to the queue, one WriteOp each
    Compound,    \* the writes whose WriteOp runs more than one statement
    Lenient,     \* the writes that swallow an error of their element rows
    Tasks,       \* cold-path transactions (ImmediateTx)
    Drain,       \* the drain loop
    Conns,       \* connections of the write pool
    NoConn,      \* "holds no connection"
    Capacity,    \* CHANNEL_CAPACITY
    MaxBatch,    \* MAX_BATCH_SIZE
    MaxRetries,  \* max_retries of both BEGIN loops
    Faults,      \* SQLite failures considered: subset of FaultKinds
    MaxSleeps,   \* bound: times the machine goes to sleep
    MaxCancels   \* bound: futures dropped before their transaction began

\* "row"  - a statement fails and the transaction goes on (constraint, ...)
\* "full" - a failure the code takes for a row error, or swallows, but on which
\*          SQLite has rolled the transaction back by itself (SQLITE_FULL and
\*          the like)
\* "io"   - the connection-fatal errors of sqlite_error.rs, at connect, BEGIN,
\*          a statement, COMMIT or ROLLBACK
FaultKinds == {"row", "full", "io"}

Actors == Tasks \cup {Drain}

ASSUME SetAssumption ==
    /\ Compound \subseteq Writes
    /\ Lenient \subseteq Writes
    /\ Writes \cap Tasks = {}
    /\ Drain \notin Tasks
    /\ NoConn \notin Conns
    /\ Conns # {}
    /\ Faults \subseteq FaultKinds

ASSUME BoundAssumption ==
    /\ Capacity \in Nat \ {0}
    /\ MaxBatch \in Nat \ {0}
    /\ MaxRetries \in Nat \ {0}
    /\ MaxSleeps \in Nat
    /\ MaxCancels \in Nat

VARIABLES
    client,     \* what the caller of submit() knows of its write
    queue,      \* the mpsc channel
    closed,     \* every WriteQueue handle has been dropped
    batch,      \* the drain loop's batch
    next,       \* index in batch of the next write to execute
    result,     \* the results vector, by write
    pc,         \* where each actor stands
    attempt,    \* the attempt counter of each BEGIN loop
    permits,    \* permits left in write_semaphore
    pool,       \* idle connections of write_pool
    held,       \* the connection each actor holds
    inTx,       \* connections inside a transaction
    poisoned,   \* connections that met a connection-fatal error
    dirty,      \* what the open transaction has written
    disk,       \* what is durable
    paused,     \* WRITE_PAUSED
    notify,     \* RESUME_NOTIFY: not created, created, or holding a permit
    asleep,     \* between the will-sleep and the did-wake notification
    settling,   \* wake tasks inside their 5 s delay
    notifying,  \* request_write_resume calls between the store and the notify
    sleeps, cancels

loopVars   == <<batch, next, result>>
sqlVars    == <<inTx, poisoned, dirty, disk>>
gateVars   == <<paused, notify, asleep, settling, notifying, sleeps>>
clientVars == <<client, queue, closed>>
vars == <<clientVars, loopVars, pc, attempt, permits, pool, held, sqlVars,
          gateVars, cancels>>

\* The rows an item leaves in the database: a compound WriteOp has a first
\* statement and a rest, and nothing (no SAVEPOINT) ties them together.
Parts(x) == IF x \in Compound THEN {<<x, 1>>, <<x, 2>>} ELSE {<<x, 1>>}

\* The states in which an actor owns the write permit.  A task's "rollback" is
\* the ROLLBACK spawned by ImmediateTx::drop, to which the permit is moved.
Critical == {"conn", "begin", "exec", "commit", "unwind", "respond",
             "tx", "rollback"}
\* ... and those in which it owns a connection too.
Holding == Critical \ {"conn"}

Places == {"idle", "recv", "gate", "park", "parked", "sem", "exited", "done"}
             \cup Critical

Rows == (Writes \cup Tasks) \X {1, 2}

ClientTypes ==
    /\ client \in [Writes -> {"idle", "waiting", "ok", "err"}]
    /\ queue \in Seq(Writes)
    /\ closed \in BOOLEAN

LoopTypes ==
    /\ batch \in Seq(Writes)
    /\ next \in Nat
    /\ result \in [Writes -> {"none", "ok", "err"}]

ActorTypes ==
    /\ pc \in [Actors -> Places]
    /\ attempt \in [Actors -> 1..MaxRetries]
    /\ permits \in {0, 1}
    /\ pool \subseteq Conns
    /\ held \in [Actors -> Conns \cup {NoConn}]

SqlTypes ==
    /\ inTx \subseteq Conns
    /\ poisoned \subseteq Conns
    /\ dirty \subseteq Rows
    /\ disk \subseteq Rows

GateTypes ==
    /\ paused \in BOOLEAN
    /\ notify \in {"unset", "empty", "permit"}
    /\ asleep \in BOOLEAN
    /\ settling \in Nat
    /\ notifying \in Nat
    /\ sleeps \in 0..MaxSleeps
    /\ cancels \in 0..MaxCancels

TypeOK == ClientTypes /\ LoopTypes /\ ActorTypes /\ SqlTypes /\ GateTypes

Init ==
    /\ client = [w \in Writes |-> "idle"]
    /\ queue = <<>>
    /\ closed = FALSE
    /\ batch = <<>>
    /\ next = 1
    /\ result = [w \in Writes |-> "none"]
    /\ pc = [a \in Actors |-> IF a = Drain THEN "recv" ELSE "idle"]
    /\ attempt = [a \in Actors |-> 1]
    /\ permits = 1
    /\ pool = Conns
    /\ held = [a \in Actors |-> NoConn]
    /\ inTx = {}
    /\ poisoned = {}
    /\ dirty = {}
    /\ disk = {}
    /\ paused = FALSE
    /\ notify = "unset"
    /\ asleep = FALSE
    /\ settling = 0
    /\ notifying = 0
    /\ sleeps = 0
    /\ cancels = 0

-----------------------------------------------------------------------------
(* Callers of submit().                                                     *)

\* WriteQueue::submit: the send waits for room in the channel, then the caller
\* waits on its oneshot.
Submit(w) ==
    /\ client[w] = "idle"
    /\ ~closed
    /\ Len(queue) < Capacity
    /\ client' = [client EXCEPT ![w] = "waiting"]
    /\ queue' = Append(queue, w)
    /\ UNCHANGED <<closed, loopVars, pc, attempt, permits, pool, held, sqlVars,
                   gateVars, cancels>>

\* The last handle goes away.  A caller inside submit() borrows one.
DropHandles ==
    /\ ~closed
    /\ \A w \in Writes : client[w] # "waiting"
    /\ closed' = TRUE
    /\ UNCHANGED <<client, queue, loopVars, pc, attempt, permits, pool, held,
                   sqlVars, gateVars, cancels>>

-----------------------------------------------------------------------------
(* The drain loop up to execute_batch: receive, then the sleep gate.        *)

\* recv_many: everything waiting, up to MAX_BATCH_SIZE.
Receive ==
    LET n == IF Len(queue) < MaxBatch THEN Len(queue) ELSE MaxBatch
    IN  /\ pc[Drain] = "recv"
        /\ queue # <<>>
        /\ batch' = SubSeq(queue, 1, n)
        /\ queue' = SubSeq(queue, n + 1, Len(queue))
        /\ result' = [w \in Writes |-> "none"]
        /\ next' = 1
        /\ pc' = [pc EXCEPT ![Drain] = "gate"]
        /\ UNCHANGED <<client, closed, attempt, permits, pool, held, sqlVars,
                       gateVars, cancels>>

\* recv_many returned 0: closed and empty.  The flush that follows in the code
\* finds nothing for the same reason.
Exit ==
    /\ pc[Drain] = "recv"
    /\ closed
    /\ queue = <<>>
    /\ pc' = [pc EXCEPT ![Drain] = "exited"]
    /\ UNCHANGED <<clientVars, loopVars, attempt, permits, pool, held, sqlVars,
                   gateVars, cancels>>

\* WRITE_PAUSED.load
Gate ==
    /\ pc[Drain] = "gate"
    /\ pc' = [pc EXCEPT ![Drain] = IF paused THEN "park" ELSE "sem"]
    /\ UNCHANGED <<clientVars, loopVars, attempt, permits, pool, held, sqlVars,
                   gateVars, cancels>>

\* RESUME_NOTIFY.get_or_init and the first poll of notified(), which consumes a
\* permit stored by an earlier notify_one.  WRITE_PAUSED is not read again.
Park ==
    /\ pc[Drain] = "park"
    /\ pc' = [pc EXCEPT ![Drain] = IF notify = "permit" THEN "sem" ELSE "parked"]
    /\ notify' = "empty"
    /\ UNCHANGED <<clientVars, loopVars, attempt, permits, pool, held, sqlVars,
                   paused, asleep, settling, notifying, sleeps, cancels>>

\* Mutation: the select without its timeout arm.
ParkTimeoutBug == FALSE

\* The 120 s arm of the select: the loop clears the flag by itself.
ParkTimeout ==
    /\ pc[Drain] = "parked"
    /\ pc' = [pc EXCEPT ![Drain] = "sem"]
    /\ paused' = FALSE
    /\ UNCHANGED <<clientVars, loopVars, attempt, permits, pool, held, sqlVars,
                   notify, asleep, settling, notifying, sleeps, cancels>>

-----------------------------------------------------------------------------
(* Sleep monitor: on_will_sleep, on_did_wake and the task it spawns.        *)

WillSleep ==
    /\ ~asleep
    /\ sleeps < MaxSleeps
    /\ asleep' = TRUE
    /\ paused' = TRUE
    /\ sleeps' = sleeps + 1
    /\ UNCHANGED <<clientVars, loopVars, pc, attempt, permits, pool, held,
                   sqlVars, notify, settling, notifying, cancels>>

DidWake ==
    /\ asleep
    /\ asleep' = FALSE
    /\ settling' = settling + 1
    /\ UNCHANGED <<clientVars, loopVars, pc, attempt, permits, pool, held,
                   sqlVars, paused, notify, notifying, sleeps, cancels>>

\* request_write_resume, first half: five seconds after some wake.
ResumeStore ==
    /\ settling > 0
    /\ settling' = settling - 1
    /\ notifying' = notifying + 1
    /\ paused' = FALSE
    /\ UNCHANGED <<clientVars, loopVars, pc, attempt, permits, pool, held,
                   sqlVars, notify, asleep, sleeps, cancels>>

\* Second half.  RESUME_NOTIFY is only there once the drain loop has parked for
\* the first time; notify_one wakes the parked loop or leaves a permit.
ResumeNotify ==
    /\ notifying > 0
    /\ notifying' = notifying - 1
    /\ \/ /\ notify = "unset"
          /\ UNCHANGED <<pc, notify>>
       \/ /\ notify # "unset"
          /\ pc[Drain] = "parked"
          /\ pc' = [pc EXCEPT ![Drain] = "sem"]
          /\ UNCHANGED notify
       \/ /\ notify # "unset"
          /\ pc[Drain] # "parked"
          /\ notify' = "permit"
          /\ UNCHANGED pc
    /\ UNCHANGED <<clientVars, loopVars, attempt, permits, pool, held, sqlVars,
                   paused, asleep, settling, sleeps, cancels>>

-----------------------------------------------------------------------------
(* Permit, connection and BEGIN IMMEDIATE: execute_batch and                *)
(* begin_immediate_with_retry run the same loop.                            *)

\* Every caller of the batch gets the same answer and the batch is emptied.
TellAll(answer) ==
    /\ client' = [w \in Writes |-> IF w \in Range(batch) THEN answer
                                                         ELSE client[w]]
    /\ batch' = <<>>

\* The error return of either function: send_error_to_all, or Err to the caller.
Fail(a) ==
    \/ /\ a = Drain
       /\ TellAll("err")
       /\ pc' = [pc EXCEPT ![a] = "recv"]
    \/ /\ a # Drain
       /\ pc' = [pc EXCEPT ![a] = "done"]
       /\ UNCHANGED <<client, batch>>

\* The error return after the permit was taken, which drops it.
GiveUp(a) ==
    /\ Fail(a)
    /\ permits' = permits + 1
    /\ UNCHANGED attempt

\* `continue` while attempts are left, else the error return.
RetryOrFail(a) ==
    \/ /\ attempt[a] < MaxRetries
       /\ attempt' = [attempt EXCEPT ![a] = @ + 1]
       /\ pc' = [pc EXCEPT ![a] = "conn"]
       /\ UNCHANGED <<client, batch, permits>>
    \/ attempt[a] = MaxRetries /\ GiveUp(a)

\* Dropping a pooled connection returns it to the pool as it is; a detached one
\* is closed, SQLite rolls its transaction back, and the pool may open another
\* in its place: PoolConnection::detach of sqlx (0.7.2 here) gives the slot and
\* its permit back to the pool ("allowing it to open a replacement"; the call that
\* keeps the slot taken is leak).  The comments of db.rs that a detach "permanently
\* removes the slot from the pool" describe leak, not detach.
GiveBack(a) ==
    /\ pool' = pool \cup {held[a]}
    /\ held' = [held EXCEPT ![a] = NoConn]
\* Mutation: a detached connection never frees its slot.
DetachBug(a) ==
    /\ held' = [held EXCEPT ![a] = NoConn]
    /\ poisoned' = poisoned \ {held[a]}
    /\ UNCHANGED pool
Detach(a) ==
    /\ GiveBack(a)
    /\ poisoned' = poisoned \ {held[a]}

\* The transaction of a's connection ends without effect.
Abort(a) ==
    /\ inTx' = inTx \ {held[a]}
    /\ dirty' = IF held[a] \in inTx THEN {} ELSE dirty

\* A cold-path caller enters begin_immediate_with_retry.
AskTx(t) ==
    /\ pc[t] = "idle"
    /\ pc' = [pc EXCEPT ![t] = "sem"]
    /\ UNCHANGED <<clientVars, loopVars, attempt, permits, pool, held, sqlVars,
                   gateVars, cancels>>

TakePermit(a) ==
    /\ pc[a] = "sem"
    /\ permits > 0
    /\ permits' = permits - 1
    /\ attempt' = [attempt EXCEPT ![a] = 1]
    /\ pc' = [pc EXCEPT ![a] = "conn"]
    /\ UNCHANGED <<clientVars, loopVars, pool, held, sqlVars, gateVars, cancels>>

\* 30 s (drain loop) or 10 s (cold path) behind a permit that does not come.
PermitTimeout(a) ==
    /\ pc[a] = "sem"
    /\ permits = 0
    /\ Fail(a)
    /\ UNCHANGED <<queue, closed, next, result, attempt, permits, pool, held,
                   sqlVars, gateVars, cancels>>

GetConn(a) ==
    /\ pc[a] = "conn"
    /\ \E c \in pool :
          /\ pool' = pool \ {c}
          /\ held' = [held EXCEPT ![a] = c]
    /\ pc' = [pc EXCEPT ![a] = "begin"]
    /\ UNCHANGED <<clientVars, loopVars, attempt, permits, sqlVars, gateVars,
                   cancels>>

\* acquire() fails: a connection error is retried, a timeout is not.
ConnError(a) ==
    /\ "io" \in Faults
    /\ pc[a] = "conn"
    /\ RetryOrFail(a) \/ GiveUp(a)
    /\ UNCHANGED <<queue, closed, next, result, pool, held, sqlVars, gateVars,
                   cancels>>

\* SQLite grants BEGIN IMMEDIATE to one connection at a time.
BeginOk(a) ==
    /\ pc[a] = "begin"
    /\ inTx = {}
    /\ inTx' = {held[a]}
    /\ pc' = [pc EXCEPT ![a] = IF a = Drain THEN "exec" ELSE "tx"]
    /\ UNCHANGED <<clientVars, loopVars, attempt, permits, pool, held, poisoned,
                   dirty, disk, gateVars, cancels>>

\* "cannot start a transaction within a transaction": ROLLBACK and return the
\* connection, or detach it when the ROLLBACK fails too.
BeginNested(a) ==
    /\ pc[a] = "begin"
    /\ held[a] \in inTx
    /\ Abort(a)
    /\ \/ GiveBack(a) /\ UNCHANGED poisoned
       \/ "io" \in Faults /\ Detach(a)
    /\ RetryOrFail(a)
    /\ UNCHANGED <<queue, closed, next, result, disk, gateVars, cancels>>

\* "database is locked": some other connection writes, one of this pool or one
\* outside it (writes run on the read pool, another process).  Any error the code
\* has no name for is returned at once.
BeginBusy(a) ==
    /\ pc[a] = "begin"
    /\ held[a] \notin inTx
    /\ GiveBack(a)
    /\ RetryOrFail(a) \/ ("row" \in Faults /\ GiveUp(a))
    /\ UNCHANGED <<queue, closed, next, result, sqlVars, gateVars, cancels>>

\* A connection-fatal BEGIN: the connection is detached.
BeginBroken(a) ==
    /\ "io" \in Faults
    /\ pc[a] = "begin"
    /\ Detach(a)
    /\ Abort(a)
    /\ RetryOrFail(a)
    /\ UNCHANGED <<queue, closed, next, result, disk, gateVars, cancels>>

-----------------------------------------------------------------------------
(* execute_batch inside the transaction.                                    *)

Current == batch[next]

\* Store the outcome of the current write and move on; after the last one the
\* loop goes to COMMIT.
Record(answer) ==
    /\ result' = [result EXCEPT ![Current] = answer]
    /\ next' = next + 1
    /\ pc' = [pc EXCEPT ![Drain] = IF next = Len(batch) THEN "commit" ELSE "exec"]

\* A statement's rows join the open transaction, or, on a connection whose
\* transaction is gone, are committed on the spot (autocommit).
Put(rows) ==
    IF held[Drain] \in inTx
    THEN dirty' = dirty \cup rows /\ UNCHANGED disk
    ELSE disk' = disk \cup rows /\ UNCHANGED dirty

ExecOk ==
    /\ pc[Drain] = "exec"
    /\ Put(Parts(Current))
    /\ Record("ok")
    /\ UNCHANGED <<clientVars, batch, attempt, permits, pool, held, inTx,
                   poisoned, gateVars, cancels>>

\* What a write answers after one of its statements has failed.  The element
\* rows of InsertDeferredElements and InsertFramesBatch are inserted by functions
\* that log their errors and return nothing: such a write answers Ok.
FailureAnswers(w) == IF w \in Lenient THEN {"ok", "err"} ELSE {"err"}

\* The rows a write has stored when a statement of it fails: none, or those of a
\* compound write's first statement.
Remnants(w) == {{}, IF w \in Compound THEN {<<w, 1>>} ELSE {}}

\* A per-row error: logged, and the batch goes on.
ExecRowError ==
    /\ "row" \in Faults
    /\ pc[Drain] = "exec"
    /\ \E rows \in Remnants(Current) : Put(rows)
    /\ \E answer \in FailureAnswers(Current) : Record(answer)
    /\ UNCHANGED <<clientVars, batch, attempt, permits, pool, held, inTx,
                   poisoned, gateVars, cancels>>

\* The same in the code, but SQLite has rolled the whole transaction back.
ExecImplicitRollback ==
    /\ "full" \in Faults
    /\ pc[Drain] = "exec"
    /\ held[Drain] \in inTx
    /\ Abort(Drain)
    /\ \E answer \in FailureAnswers(Current) : Record(answer)
    /\ UNCHANGED <<clientVars, batch, attempt, permits, pool, held, poisoned,
                   disk, gateVars, cancels>>

\* A connection-fatal error that a lenient write swallows never reaches
\* is_connection_error: the write answers Ok, and the batch goes on, and commits,
\* on the connection that met the error.
ExecSwallowed ==
    /\ "io" \in Faults
    /\ pc[Drain] = "exec"
    /\ Current \in Lenient
    /\ \E rows \in Remnants(Current) : Put(rows)
    /\ poisoned' = poisoned \cup {held[Drain]}
    /\ Record("ok")
    /\ UNCHANGED <<clientVars, batch, attempt, permits, pool, held, inTx,
                   gateVars, cancels>>

\* is_connection_error: any_fatal is set, no later write runs and every result
\* becomes an error.  SQLite may or may not have rolled back already.
ExecFatal ==
    /\ "io" \in Faults
    /\ pc[Drain] = "exec"
    /\ poisoned' = poisoned \cup {held[Drain]}
    /\ \/ Abort(Drain)
       \/ UNCHANGED <<inTx, dirty>>
    /\ pc' = [pc EXCEPT ![Drain] = "unwind"]
    /\ UNCHANGED <<clientVars, loopVars, attempt, permits, pool, held, disk,
                   gateVars, cancels>>

\* execute_batch returns: the connection and the permit are dropped.
EndBatch == permits' = permits + 1 /\ pc' = [pc EXCEPT ![Drain] = "recv"]

\* ROLLBACK after any_fatal.  It fails when SQLite has already rolled back, and
\* only then is the connection detached.
Unwind ==
    /\ pc[Drain] = "unwind"
    /\ \/ held[Drain] \in inTx /\ GiveBack(Drain) /\ UNCHANGED poisoned
       \/ Detach(Drain)
    /\ Abort(Drain)
    /\ TellAll("err")
    /\ EndBatch
    /\ UNCHANGED <<queue, closed, next, result, attempt, disk, gateVars, cancels>>

CommitOk ==
    /\ pc[Drain] = "commit"
    /\ held[Drain] \in inTx
    /\ disk' = disk \cup dirty
    /\ dirty' = {}
    /\ inTx' = inTx \ {held[Drain]}
    /\ pc' = [pc EXCEPT ![Drain] = "respond"]
    /\ UNCHANGED <<clientVars, loopVars, attempt, permits, pool, held, poisoned,
                   gateVars, cancels>>

\* Mutation: a failed COMMIT answers the results the writes had.
CommitErrorBug ==
    /\ pc[Drain] = "commit"
    /\ "io" \in Faults \/ held[Drain] \notin inTx
    /\ Detach(Drain)
    /\ Abort(Drain)
    /\ client' = [w \in Writes |-> IF w \in Range(batch) THEN result[w]
                                                         ELSE client[w]]
    /\ batch' = <<>>
    /\ EndBatch
    /\ UNCHANGED <<queue, closed, next, result, attempt, disk, gateVars, cancels>>

\* COMMIT fails: always when no transaction is active.
CommitError ==
    /\ pc[Drain] = "commit"
    /\ "io" \in Faults \/ held[Drain] \notin inTx
    /\ Detach(Drain)
    /\ Abort(Drain)
    /\ TellAll("err")
    /\ EndBatch
    /\ UNCHANGED <<queue, closed, next, result, attempt, disk, gateVars, cancels>>

\* Mutation: the results are zipped with the batch in the wrong order.
RespondBug ==
    /\ pc[Drain] = "respond"
    /\ client' = [w \in Writes |->
                    IF w \in Range(batch)
                    THEN LET i == CHOOSE i \in DOMAIN batch : batch[i] = w
                         IN  result[batch[Len(batch) + 1 - i]]
                    ELSE client[w]]
    /\ batch' = <<>>
    /\ GiveBack(Drain)
    /\ EndBatch
    /\ UNCHANGED <<queue, closed, next, result, attempt, sqlVars, gateVars,
                   cancels>>

\* Each caller gets its own result.
Respond ==
    /\ pc[Drain] = "respond"
    /\ client' = [w \in Writes |-> IF w \in Range(batch) THEN result[w]
                                                         ELSE client[w]]
    /\ batch' = <<>>
    /\ GiveBack(Drain)
    /\ EndBatch
    /\ UNCHANGED <<queue, closed, next, result, attempt, sqlVars, gateVars,
                   cancels>>

-----------------------------------------------------------------------------
(* ImmediateTx.                                                             *)

\* The caller's statements and commit().
TxCommit(t) ==
    /\ pc[t] = "tx"
    /\ disk' = disk \cup Parts(t)
    /\ inTx' = inTx \ {held[t]}
    /\ GiveBack(t)
    /\ permits' = permits + 1
    /\ pc' = [pc EXCEPT ![t] = "done"]
    /\ UNCHANGED <<clientVars, loopVars, attempt, poisoned, dirty, gateVars,
                   cancels>>

\* Mutation: the permit is released by the drop, not by the ROLLBACK it spawns.
TxDropBug(t) ==
    /\ pc[t] = "tx"
    /\ pc' = [pc EXCEPT ![t] = "rollback"]
    /\ permits' = permits + 1
    /\ UNCHANGED <<clientVars, loopVars, attempt, pool, held, sqlVars, gateVars,
                   cancels>>

\* Mutation: the connection returns to the pool without a ROLLBACK.
TxDropNoRollback(t) ==
    /\ pc[t] = "tx"
    /\ GiveBack(t)
    /\ permits' = permits + 1
    /\ pc' = [pc EXCEPT ![t] = "done"]
    /\ UNCHANGED <<clientVars, loopVars, attempt, sqlVars, gateVars, cancels>>

\* Dropped without commit: an early return, a cancelled caller, a failed COMMIT.
\* The spawned task takes the connection and the permit.
TxDrop(t) ==
    /\ pc[t] = "tx"
    /\ pc' = [pc EXCEPT ![t] = "rollback"]
    /\ UNCHANGED <<clientVars, loopVars, attempt, permits, pool, held, sqlVars,
                   gateVars, cancels>>

\* Mutation: the spawned ROLLBACK forgets the permit.
TxRollbackBug(t) ==
    /\ pc[t] = "rollback"
    /\ Abort(t)
    /\ GiveBack(t)
    /\ pc' = [pc EXCEPT ![t] = "done"]
    /\ UNCHANGED <<clientVars, loopVars, attempt, permits, poisoned, disk,
                   gateVars, cancels>>

TxRollback(t) ==
    /\ pc[t] = "rollback"
    /\ Abort(t)
    /\ \/ GiveBack(t) /\ UNCHANGED poisoned
       \/ "io" \in Faults /\ Detach(t)
    /\ permits' = permits + 1
    /\ pc' = [pc EXCEPT ![t] = "done"]
    /\ UNCHANGED <<clientVars, loopVars, attempt, disk, gateVars, cancels>>

\* The caller's future is dropped before there is an ImmediateTx: the permit and
\* the connection go back and nothing rolls back.  A BEGIN IMMEDIATE in flight may
\* still succeed, and leaves the pooled connection inside a transaction (the
\* "stuck transaction" of the retry loops).
TxCancel(t) ==
    /\ cancels < MaxCancels
    /\ cancels' = cancels + 1
    /\ permits' = permits + 1
    /\ pc' = [pc EXCEPT ![t] = "done"]
    /\ \/ pc[t] = "conn" /\ UNCHANGED <<pool, held, inTx>>
       \/ /\ pc[t] = "begin"
          /\ GiveBack(t)
          /\ \/ inTx = {} /\ inTx' = {held[t]}
             \/ UNCHANGED inTx
    /\ UNCHANGED <<clientVars, loopVars, attempt, poisoned, dirty, disk,
                   gateVars>>

-----------------------------------------------------------------------------
\* Nothing is left to do: the loop has exited and every transaction is over.
Finished ==
    /\ pc[Drain] = "exited"
    /\ \A t \in Tasks : pc[t] = "done"
    /\ UNCHANGED vars

Begin(a) ==
    \/ TakePermit(a) \/ PermitTimeout(a) \/ GetConn(a) \/ ConnError(a)
    \/ BeginOk(a) \/ BeginNested(a) \/ BeginBusy(a) \/ BeginBroken(a)

DrainStep ==
    \/ Receive \/ Exit \/ Gate \/ Park \/ ParkTimeout
    \/ ExecOk \/ ExecRowError \/ ExecImplicitRollback \/ ExecSwallowed
    \/ ExecFatal \/ Unwind \/ CommitOk \/ CommitError \/ Respond

TxStep(t) == TxCommit(t) \/ TxDrop(t) \/ TxRollback(t)

Wake == ResumeStore \/ ResumeNotify

Next ==
    \/ \E w \in Writes : Submit(w)
    \/ DropHandles
    \/ DrainStep
    \/ \E a \in Actors : Begin(a)
    \/ \E t \in Tasks : AskTx(t) \/ TxStep(t) \/ TxCancel(t)
    \/ WillSleep \/ DidWake \/ Wake
    \/ Finished

Spec == Init /\ [][Next]_vars

(***************************************************************************)
(* Fairness.  The drain loop and the spawned rollback are tasks of a        *)
(* running tokio runtime, SQLite answers every statement (busy_timeout,     *)
(* acquire timeouts), and a cold-path caller commits or drops its           *)
(* transaction.  Nothing is assumed of callers, of the machine's sleep or   *)
(* of the wake task: the 120 s timer alone has to open the gate.            *)
(***************************************************************************)
Fairness ==
    /\ WF_vars(DrainStep)
    /\ \A a \in Actors : WF_vars(Begin(a))
    /\ \A t \in Tasks : WF_vars(TxStep(t))

FairSpec == Spec /\ Fairness

-----------------------------------------------------------------------------
(* Properties.                                                              *)

\* The write semaphore serialises the drain loop, the cold-path transactions
\* and the ROLLBACKs their drops spawn: a free permit means none of them is
\* between BEGIN and the end of its transaction, and no two ever are.
OneWriter ==
    /\ permits = 1 => \A a \in Actors : pc[a] \notin Critical
    /\ \A a, b \in Actors : pc[a] \in Critical /\ pc[b] \in Critical => a = b

\* A write answered Ok is durable, whatever rolled back in between: a batch that
\* lost its transaction never answers Ok for the rows it lost.  Of the writes that
\* swallow the errors of their element rows (Lenient) it is not true: see
\* OkComplete.
OkDurable ==
    \A w \in Writes \ Lenient : client[w] = "ok" => Parts(w) \subseteq disk

\* Every write answered Ok is durable with all its rows.  False: "Errors are logged
\* and swallowed" (db.rs, insert_ocr_elements), and the WriteOp answers Ok.
OkComplete ==
    \A w \in Writes : client[w] = "ok" => Parts(w) \subseteq disk

\* No batch is half stored while its callers still wait: rows of an unanswered
\* write become durable only once the COMMIT of its batch has succeeded.
NothingEarly ==
    \A w \in Writes : client[w] = "waiting" /\ Parts(w) \cap disk # {}
                        => pc[Drain] = "respond" /\ w \in Range(batch)

\* The pool never lends a connection that is inside a transaction, unless a
\* future was dropped during BEGIN: commit, drop, fatal errors and failed
\* commits all end the transaction before the connection goes back.
CleanPool == cancels = 0 => inTx \cap pool = {}

\* Whoever owns the permit finds a connection: detached and stuck connections
\* never drain the pool.
PoolNotStarved ==
    \A a \in Actors : pc[a] = "conn" => pool # {}

\* Every submitted write is answered, through sleep, errors and timeouts.
EveryWriteAnswered ==
    \A w \in Writes : client[w] = "waiting" ~> client[w] \in {"ok", "err"}

\* The permit always comes back, also when its owner was dropped.
PermitReturned == permits = 0 ~> permits = 1

\* A batch that finds the queue paused is not let through while it is still
\* paused (sleep_monitor.rs: "then block until resumed on wake"): the wake-up it
\* consumes belongs to this pause, not to an earlier one.  False: a resume that
\* found nobody parked leaves a permit for the next sleep.
PauseHolds ==
    [][ pc[Drain] = "park" /\ pc'[Drain] = "sem" => ~paused ]_vars

\* A parked drain loop still has its resume to come: either the queue is paused
\* or the notify of the resume that cleared the flag is on its way.
ResumeReaches == pc[Drain] = "parked" => paused \/ notifying > 0

\* A connection that met a fatal error is never lent again.
PoisonedDropped == poisoned \cap pool = {}

-----------------------------------------------------------------------------
\* The writes that propagate every error.  One is kept once all its rows are
\* durable.
Strict == Writes \ Lenient
Kept == {w \in Strict : Parts(w) \subseteq disk}
Told == [w \in Strict |-> IF client[w] \in {"ok", "err"} THEN client[w]
                                                        ELSE "none"]

Store == INSTANCE AckedStore WITH Items <- Strict, told <- Told, kept <- Kept

\* For the writes that propagate their errors the queue implements the
\* acknowledged store, whatever lenient writes share their batches, as long as
\* SQLite does not roll a transaction back behind the code's back ("full").
ImplementsAckedStore == Store!Spec

=============================================================================
