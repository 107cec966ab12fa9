-------------------------- MODULE WriteQueue_proofs --------------------------
(***************************************************************************)
(* Theorems about WriteQueue, for every set of writes, transactions and     *)
(* connections, every capacity and every set of SQLite faults.              *)
(***************************************************************************)
EXTENDS WriteQueue, SequenceTheorems, TLAPS

\* A permit is owned by nobody, or by one actor that stands in a critical state.
PermitInv ==
    /\ OneWriter
    /\ pc[Drain] \notin {"idle", "tx", "rollback", "done"}
    /\ \A t \in Tasks : pc[t] \in {"idle", "sem", "conn", "begin", "tx",
                                   "rollback", "done"}

\* A connection is idle in the pool exactly when nobody holds it.
PoolInv ==
    /\ \A a \in Actors : pc[a] \in Holding => held[a] \in Conns
    /\ \A c \in Conns :
          c \in pool <=> \A a \in Actors : pc[a] \in Holding => held[a] # c

\* The batch while it is being received, executed and answered.
BatchInv ==
    /\ pc[Drain] \in {"gate", "park", "parked", "sem", "conn", "begin"}
          => next = 1 /\ Len(batch) > 0
    /\ pc[Drain] = "exec" => next \in 1..Len(batch)
    /\ pc[Drain] \in {"commit", "respond"} => next = Len(batch) + 1

\* Every executed write has its result.
ResultInv ==
    pc[Drain] \in {"exec", "commit", "respond"} =>
        \A i \in 1..(next - 1) : result[batch[i]] \in {"ok", "err"}

\* What a write with result "ok" wrote, unless it may have swallowed an error, is in the open transaction, while there
\* is one, and durable once the COMMIT has succeeded.
RowsInv ==
    /\ pc[Drain] \in {"exec", "commit"} /\ held[Drain] \in inTx =>
          \A i \in 1..(next - 1) :
              batch[i] \notin Lenient /\ result[batch[i]] = "ok"
                 => Parts(batch[i]) \subseteq dirty \cup disk
    /\ pc[Drain] = "respond" =>
          \A i \in 1..(next - 1) :
              batch[i] \notin Lenient /\ result[batch[i]] = "ok"
                 => Parts(batch[i]) \subseteq disk

\* Without a cancelled BEGIN, a transaction belongs to the actor running it.
TxInv ==
    cancels = 0 =>
        \A c \in inTx : \E a \in Actors :
            /\ held[a] = c
            /\ pc[a] \in {"exec", "commit", "unwind", "tx", "rollback"}

IInv ==
    /\ TypeOK
    /\ PermitInv
    /\ PoolInv
    /\ BatchInv
    /\ ResultInv
    /\ RowsInv
    /\ TxInv
    /\ OkDurable

\* What the error return of a BEGIN loop does to its actor and its callers.
LEMMA FailMoves ==
    ASSUME NEW a \in Actors, pc \in [Actors -> Places], Fail(a)
    PROVE  /\ pc' = [pc EXCEPT ![a] = IF a = Drain THEN "recv" ELSE "done"]
           /\ \/ a = Drain /\ TellAll("err")
              \/ a # Drain /\ UNCHANGED <<client, batch>>
  BY DEF Fail

\* How a failed BEGIN attempt moves its actor: on to the next attempt with the
\* permit, or out of the transaction without it.
LEMMA RetryMoves ==
    ASSUME NEW a \in Actors, pc \in [Actors -> Places], RetryOrFail(a) \/ GiveUp(a)
    PROVE  \/ /\ pc' = [pc EXCEPT ![a] = "conn"]
              /\ UNCHANGED <<permits, client, batch>>
           \/ /\ pc' = [pc EXCEPT ![a] = IF a = Drain THEN "recv" ELSE "done"]
              /\ permits' = permits + 1
              /\ \/ a = Drain /\ TellAll("err")
                 \/ a # Drain /\ UNCHANGED <<client, batch>>
  BY FailMoves DEF RetryOrFail, GiveUp

\* The permit changes hands only through the critical states.
LEMMA PermitStep ==
    IInv /\ [Next]_vars => PermitInv'
<1> SUFFICES ASSUME IInv, [Next]_vars PROVE PermitInv'
  OBVIOUS
<1>0. /\ pc \in [Actors -> Places]
     /\ permits \in {0, 1}
  BY DEF IInv, TypeOK, ActorTypes
<1>. USE <1>0, SetAssumption DEF IInv, PermitInv, OneWriter, Critical, Actors
<1>1. ASSUME NEW w \in Writes, Submit(w)
      PROVE  PermitInv'
  BY <1>1 DEF Submit, vars, clientVars, loopVars, sqlVars, gateVars
<1>2. CASE DropHandles
  BY <1>2 DEF DropHandles, vars, clientVars, loopVars, sqlVars, gateVars
<1>3. CASE Receive
  BY <1>3 DEF Receive, vars, clientVars, loopVars, sqlVars, gateVars
<1>4. CASE Exit
  BY <1>4 DEF Exit, vars, clientVars, loopVars, sqlVars, gateVars
<1>5. CASE Gate
  BY <1>5 DEF Gate, vars, clientVars, loopVars, sqlVars, gateVars
<1>6. CASE Park
  BY <1>6 DEF Park, vars, clientVars, loopVars, sqlVars, gateVars
<1>7. CASE ParkTimeout
  BY <1>7 DEF ParkTimeout, vars, clientVars, loopVars, sqlVars, gateVars
<1>8. CASE ExecOk
  BY <1>8 DEF ExecOk, Record, Put, Current, vars, clientVars, loopVars,
    sqlVars, gateVars
<1>9. CASE ExecRowError
  BY <1>9 DEF ExecRowError, FailureAnswers, Remnants, Record, Put, Current, vars, clientVars, loopVars,
    sqlVars, gateVars
<1>sw. CASE ExecSwallowed
  BY <1>sw DEF ExecSwallowed, Remnants, Record, Put, Current, vars, clientVars, loopVars,
    sqlVars, gateVars
<1>10. CASE ExecImplicitRollback
  BY <1>10 DEF ExecImplicitRollback, FailureAnswers, Record, Abort, Current, vars,
    clientVars, loopVars, sqlVars, gateVars
<1>11. CASE ExecFatal
  BY <1>11 DEF ExecFatal, Abort, vars, clientVars, loopVars, sqlVars,
    gateVars
<1>12. CASE Unwind
  BY <1>12 DEF Unwind, GiveBack, Detach, Abort, TellAll, EndBatch, vars,
    clientVars, loopVars, sqlVars, gateVars
<1>13. CASE CommitOk
  BY <1>13 DEF CommitOk, vars, clientVars, loopVars, sqlVars, gateVars
<1>14. CASE CommitError
  BY <1>14 DEF CommitError, GiveBack, Detach, Abort, TellAll, EndBatch, vars,
    clientVars, loopVars, sqlVars, gateVars
<1>15. CASE Respond
  BY <1>15 DEF Respond, GiveBack, EndBatch, vars, clientVars, loopVars,
    sqlVars, gateVars
<1>16. ASSUME NEW a \in Actors, TakePermit(a)
      PROVE  PermitInv'
  BY <1>16 DEF TakePermit, vars, clientVars, loopVars, sqlVars, gateVars
<1>17. ASSUME NEW a \in Actors, PermitTimeout(a)
      PROVE  PermitInv'
  BY <1>0, <1>17, FailMoves DEF PermitTimeout
<1>18. ASSUME NEW a \in Actors, GetConn(a)
      PROVE  PermitInv'
  BY <1>18 DEF GetConn, vars, clientVars, loopVars, sqlVars, gateVars
<1>19. ASSUME NEW a \in Actors, ConnError(a)
      PROVE  PermitInv'
  BY <1>0, <1>19, RetryMoves DEF ConnError
<1>20. ASSUME NEW a \in Actors, BeginOk(a)
      PROVE  PermitInv'
  BY <1>20 DEF BeginOk, vars, clientVars, loopVars, sqlVars, gateVars
<1>21. ASSUME NEW a \in Actors, BeginNested(a)
      PROVE  PermitInv'
  BY <1>0, <1>21, RetryMoves DEF BeginNested
<1>22. ASSUME NEW a \in Actors, BeginBusy(a)
      PROVE  PermitInv'
  BY <1>0, <1>22, RetryMoves DEF BeginBusy
<1>23. ASSUME NEW a \in Actors, BeginBroken(a)
      PROVE  PermitInv'
  BY <1>0, <1>23, RetryMoves DEF BeginBroken
<1>24. ASSUME NEW t \in Tasks, AskTx(t)
      PROVE  PermitInv'
  BY <1>24 DEF AskTx, vars, clientVars, loopVars, sqlVars, gateVars
<1>25. ASSUME NEW t \in Tasks, TxCommit(t)
      PROVE  PermitInv'
  BY <1>25 DEF TxCommit, GiveBack, vars, clientVars, loopVars, sqlVars,
    gateVars
<1>26. ASSUME NEW t \in Tasks, TxDrop(t)
      PROVE  PermitInv'
  BY <1>26 DEF TxDrop, vars, clientVars, loopVars, sqlVars, gateVars
<1>27. ASSUME NEW t \in Tasks, TxRollback(t)
      PROVE  PermitInv'
  BY <1>27 DEF TxRollback, Abort, GiveBack, Detach, vars, clientVars,
    loopVars, sqlVars, gateVars
<1>28. ASSUME NEW t \in Tasks, TxCancel(t)
      PROVE  PermitInv'
  BY <1>28 DEF TxCancel, GiveBack, vars, clientVars, loopVars, sqlVars,
    gateVars
<1>29. CASE WillSleep
  BY <1>29 DEF WillSleep, vars, clientVars, loopVars, sqlVars, gateVars
<1>30. CASE DidWake
  BY <1>30 DEF DidWake, vars, clientVars, loopVars, sqlVars, gateVars
<1>31. CASE ResumeStore
  BY <1>31 DEF ResumeStore, vars, clientVars, loopVars, sqlVars, gateVars
<1>32. CASE ResumeNotify
  BY <1>32 DEF ResumeNotify, vars, clientVars, loopVars, sqlVars, gateVars
<1>33. CASE UNCHANGED vars
  BY <1>33 DEF vars, clientVars, loopVars, sqlVars, gateVars
<1>. QED BY <1>sw, <1>1, <1>2, <1>3, <1>4, <1>5, <1>6, <1>7, <1>8, <1>9, <1>10,
  <1>11, <1>12, <1>13, <1>14, <1>15, <1>16, <1>17, <1>18, <1>19, <1>20,
  <1>21, <1>22, <1>23, <1>24, <1>25, <1>26, <1>27, <1>28, <1>29, <1>30,
  <1>31, <1>32, <1>33 DEF Next, DrainStep, Begin, TxStep, Wake, Finished

-----------------------------------------------------------------------------
(* Types.                                                                   *)

\* The rows of a write or a transaction are rows.
LEMMA RowsOf ==
    /\ \A x \in Writes \cup Tasks : Parts(x) \subseteq Rows
    /\ \A x \in Writes \cup Tasks : <<x, 1>> \in Rows
  BY DEF Parts, Rows

\* TellAll answers every caller of the batch and empties it.
LEMMA TellAllTypes ==
    ASSUME NEW answer \in {"ok", "err"}, ClientTypes, TellAll(answer)
    PROVE  /\ client' \in [Writes -> {"idle", "waiting", "ok", "err"}]
           /\ batch' \in Seq(Writes)
  BY DEF ClientTypes, TellAll

\* The error return keeps the types of what it changes.
LEMMA FailTypes ==
    ASSUME NEW a \in Actors, ActorTypes, ClientTypes, batch \in Seq(Writes), Fail(a)
    PROVE  /\ client' \in [Writes -> {"idle", "waiting", "ok", "err"}]
           /\ batch' \in Seq(Writes)
           /\ pc' \in [Actors -> Places]
  <1>1. CASE a = Drain /\ TellAll("err") /\ pc' = [pc EXCEPT ![a] = "recv"]
    BY <1>1, TellAllTypes DEF ActorTypes, Places
  <1>2. CASE pc' = [pc EXCEPT ![a] = "done"] /\ UNCHANGED <<client, batch>>
    BY <1>2 DEF ActorTypes, ClientTypes, Places
  <1>. QED BY <1>1, <1>2 DEF Fail

\* So does a failed BEGIN attempt, of either kind.
LEMMA RetryTypes ==
    ASSUME NEW a \in Actors, ActorTypes, ClientTypes, batch \in Seq(Writes),
           permits = 0, RetryOrFail(a) \/ GiveUp(a)
    PROVE  /\ client' \in [Writes -> {"idle", "waiting", "ok", "err"}]
           /\ batch' \in Seq(Writes)
           /\ pc' \in [Actors -> Places]
           /\ attempt' \in [Actors -> 1..MaxRetries]
           /\ permits' \in {0, 1}
  <1>1. CASE attempt[a] < MaxRetries /\ attempt' = [attempt EXCEPT ![a] = @ + 1]
              /\ pc' = [pc EXCEPT ![a] = "conn"] /\ UNCHANGED <<client, batch, permits>>
    BY <1>1, BoundAssumption DEF ActorTypes, ClientTypes, Places, Critical
  <1>2. CASE GiveUp(a)
    BY <1>2, FailTypes DEF ActorTypes, GiveUp
  <1>. QED BY <1>1, <1>2 DEF RetryOrFail

\* A returned connection is one of the pool's.
LEMMA GiveBackTypes ==
    ASSUME NEW a \in Actors, ActorTypes, held[a] \in Conns, GiveBack(a)
    PROVE  pool' \subseteq Conns /\ held' \in [Actors -> Conns \cup {NoConn}]
  BY DEF ActorTypes, GiveBack

\* A detached connection leaves its slot to another.
LEMMA DetachTypes ==
    ASSUME NEW a \in Actors, ActorTypes, SqlTypes, held[a] \in Conns, Detach(a)
    PROVE  /\ pool' \subseteq Conns /\ held' \in [Actors -> Conns \cup {NoConn}]
           /\ poisoned' \subseteq Conns
  BY GiveBackTypes DEF Detach, SqlTypes

\* Rolling back only removes.
LEMMA AbortTypes ==
    ASSUME NEW a \in Actors, SqlTypes, Abort(a)
    PROVE  inTx' \subseteq Conns /\ dirty' \subseteq Rows
  BY DEF Abort, SqlTypes


\* Receiving cuts the channel in two: a non-empty batch and what stays.
LEMMA ReceiveSplits ==
    ASSUME ClientTypes, Receive
    PROVE  /\ batch' \in Seq(Writes)
           /\ queue' \in Seq(Writes)
           /\ Len(batch') > 0
  <1> DEFINE n == IF Len(queue) < MaxBatch THEN Len(queue) ELSE MaxBatch
  <1>1. n \in 1..Len(queue)
    BY BoundAssumption DEF ClientTypes, Receive
  <1>2. \A i \in 1..Len(queue) : queue[i] \in Writes
    BY DEF ClientTypes
  <1>3. batch' = SubSeq(queue, 1, n) /\ queue' = SubSeq(queue, n + 1, Len(queue))
    BY DEF Receive
  <1>. HIDE DEF n
  <1>4. SubSeq(queue, 1, n) \in Seq(Writes) /\ Len(SubSeq(queue, 1, n)) = n
    BY <1>1, <1>2, SubSeqProperties
  <1>5. Len(queue) \in Nat
    BY DEF ClientTypes
  <1>6. SubSeq(queue, n + 1, Len(queue)) \in Seq(Writes)
    <2>1. \A i \in (n + 1)..Len(queue) : queue[i] \in Writes
      BY <1>1, <1>2, <1>5
    <2>2. n + 1 \in Int /\ Len(queue) \in Int
      BY <1>1, <1>5
    <2>. QED BY <2>1, <2>2, SubSeqProperties
  <1>. QED BY <1>1, <1>3, <1>4, <1>6

\* A statement's rows are added on either side of the COMMIT.
LEMMA PutTypes ==
    ASSUME NEW rows \in SUBSET Rows, SqlTypes, Put(rows)
    PROVE  dirty' \subseteq Rows /\ disk' \subseteq Rows
  BY DEF Put, SqlTypes

\* Recording a result moves the loop on within its places.
LEMMA RecordTypes ==
    ASSUME NEW answer \in {"ok", "err"}, LoopTypes, ActorTypes, Record(answer),
           next \in 1..Len(batch)
    PROVE  /\ result' \in [Writes -> {"none", "ok", "err"}]
           /\ next' \in Nat
           /\ pc' \in [Actors -> Places]
           /\ Current \in Writes
  <1>1. Current \in Writes
    BY DEF LoopTypes, Current
  <1>2. "commit" \in Places /\ "exec" \in Places
    BY DEF Places, Critical
  <1>3. next' \in Nat
    BY DEF LoopTypes, Record
  <1>4. result' \in [Writes -> {"none", "ok", "err"}]
    BY <1>1 DEF LoopTypes, Record
  <1>5. pc' \in [Actors -> Places]
    BY <1>2 DEF ActorTypes, Record
  <1>. QED BY <1>1, <1>3, <1>4, <1>5


\* The pause flag, its notify and the sleep monitor.
LEMMA GateTypesStep ==
    ASSUME IInv, [Next]_vars
    PROVE  GateTypes'
  <1>0. GateTypes
    BY DEF IInv, TypeOK
  <1>. USE <1>0 DEF GateTypes
  <1>1. CASE Park
    BY <1>1 DEF Park
  <1>2. CASE ParkTimeout
    BY <1>2 DEF ParkTimeout
  <1>3. CASE WillSleep
    BY <1>3, BoundAssumption DEF WillSleep
  <1>4. CASE DidWake
    <2>1. settling' \in Nat
      BY <1>4 DEF DidWake
    <2>2. UNCHANGED <<paused, notify, notifying, sleeps, cancels>> /\ asleep' = FALSE
      BY <1>4 DEF DidWake
    <2>. QED BY <2>1, <2>2
  <1>5. CASE ResumeStore
    <2>1. settling' \in Nat /\ notifying' \in Nat
      BY <1>5 DEF ResumeStore
    <2>2. UNCHANGED <<asleep, notify, sleeps, cancels>> /\ paused' = FALSE
      BY <1>5 DEF ResumeStore
    <2>. QED BY <2>1, <2>2
  <1>6. CASE ResumeNotify
    BY <1>6 DEF ResumeNotify
  <1>7. ASSUME NEW t \in Tasks, TxCancel(t)
        PROVE  GateTypes'
    BY <1>7, BoundAssumption DEF TxCancel, gateVars
  <1>8. CASE UNCHANGED <<gateVars, cancels>>
    BY <1>8 DEF gateVars
  <1>. QED BY <1>1, <1>2, <1>3, <1>4, <1>5, <1>6, <1>7, <1>8 DEF Next,
    DrainStep, Begin, TxStep, Wake, Finished, vars, clientVars, loopVars,
    sqlVars, gateVars, Submit, DropHandles, Receive, Exit, Gate, ExecOk,
    ExecRowError, ExecImplicitRollback, ExecSwallowed, ExecFatal, Unwind, CommitOk,
    CommitError, Respond, TakePermit, PermitTimeout, GetConn, ConnError,
    BeginOk, BeginNested, BeginBusy, BeginBroken, AskTx, TxCommit, TxDrop,
    TxRollback

\* Callers and their channel.
LEMMA ClientTypesStep ==
    ASSUME IInv, [Next]_vars
    PROVE  ClientTypes'
  <1>0. /\ ClientTypes /\ LoopTypes /\ ActorTypes /\ SqlTypes
        /\ batch \in Seq(Writes)
        /\ Drain \in Actors
    BY DEF IInv, TypeOK, LoopTypes, Actors
  <1>d. \A a \in Actors : pc[a] \in Critical => permits = 0
    BY <1>0 DEF IInv, PermitInv, OneWriter, ActorTypes
  <1>e. pc[Drain] = "respond" => \A w \in Range(batch) : result[w] \in {"ok", "err"}
    BY <1>0 DEF IInv, BatchInv, ResultInv, LoopTypes, Range
  <1>. USE <1>0
  <1>1. ASSUME NEW w \in Writes, Submit(w)
        PROVE  ClientTypes'
    BY <1>1 DEF Submit, ClientTypes
  <1>2. CASE DropHandles
    BY <1>2 DEF DropHandles, ClientTypes
  <1>3. CASE Receive
    BY <1>3, ReceiveSplits DEF Receive, ClientTypes
  <1>4. CASE Unwind
    BY <1>4, TellAllTypes DEF Unwind, ClientTypes
  <1>5. CASE CommitError
    BY <1>5, TellAllTypes DEF CommitError, ClientTypes
  <1>6. CASE Respond
    BY <1>6, <1>e DEF Respond, ClientTypes
  <1>7. ASSUME NEW a \in Actors, PermitTimeout(a)
        PROVE  ClientTypes'
    BY <1>7, FailTypes DEF PermitTimeout, ClientTypes
  <1>8. ASSUME NEW a \in Actors, ConnError(a)
        PROVE  ClientTypes'
    BY <1>8, RetryTypes, <1>d DEF ConnError, Critical, ClientTypes
  <1>9. ASSUME NEW a \in Actors, BeginNested(a)
        PROVE  ClientTypes'
    BY <1>9, RetryTypes, <1>d DEF BeginNested, Critical, ClientTypes
  <1>10. ASSUME NEW a \in Actors, BeginBusy(a)
        PROVE  ClientTypes'
    BY <1>10, RetryTypes, <1>d DEF BeginBusy, Critical, ClientTypes
  <1>11. ASSUME NEW a \in Actors, BeginBroken(a)
        PROVE  ClientTypes'
    BY <1>11, RetryTypes, <1>d DEF BeginBroken, Critical, ClientTypes
  <1>12. CASE UNCHANGED <<clientVars>>
    BY <1>12 DEF ClientTypes, clientVars
  <1>. QED BY <1>1, <1>2, <1>3, <1>4, <1>5, <1>6, <1>7, <1>8, <1>9, <1>10,
    <1>11, <1>12 DEF Next, DrainStep, Begin, TxStep, Wake, Finished, vars,
    clientVars, loopVars, sqlVars, gateVars, Exit, Gate, Park, ParkTimeout,
    ExecOk, ExecRowError, ExecImplicitRollback, ExecSwallowed, ExecFatal, CommitOk,
    TakePermit, GetConn, BeginOk, AskTx, TxCommit, TxDrop, TxRollback,
    TxCancel, WillSleep, DidWake, ResumeStore, ResumeNotify

\* The drain loop's batch and results.
LEMMA LoopTypesStep ==
    ASSUME IInv, [Next]_vars
    PROVE  LoopTypes'
  <1>0. /\ ClientTypes /\ LoopTypes /\ ActorTypes /\ SqlTypes
        /\ batch \in Seq(Writes)
        /\ Drain \in Actors
    BY DEF IInv, TypeOK, LoopTypes, Actors
  <1>a. pc[Drain] = "exec" => next \in 1..Len(batch)
    BY DEF IInv, BatchInv
  <1>d. \A a \in Actors : pc[a] \in Critical => permits = 0
    BY <1>0 DEF IInv, PermitInv, OneWriter, ActorTypes
  <1>. USE <1>0
  <1>1. CASE Receive
    BY <1>1, ReceiveSplits DEF Receive, LoopTypes
  <1>2. CASE ExecOk
    BY <1>2, <1>a, RecordTypes DEF ExecOk, LoopTypes
  <1>3. CASE ExecRowError
    BY <1>3, <1>a, RecordTypes DEF ExecRowError, FailureAnswers, Remnants, LoopTypes
  <1>sw. CASE ExecSwallowed
    BY <1>sw, <1>a, RecordTypes DEF ExecSwallowed, Remnants, LoopTypes
  <1>4. CASE ExecImplicitRollback
    BY <1>4, <1>a, RecordTypes DEF ExecImplicitRollback, FailureAnswers, LoopTypes
  <1>5. CASE Unwind
    BY <1>5, TellAllTypes DEF Unwind, LoopTypes
  <1>6. CASE CommitError
    BY <1>6, TellAllTypes DEF CommitError, LoopTypes
  <1>7. CASE Respond
    BY <1>7 DEF Respond, LoopTypes
  <1>8. ASSUME NEW a \in Actors, PermitTimeout(a)
        PROVE  LoopTypes'
    BY <1>8, FailTypes DEF PermitTimeout, LoopTypes
  <1>9. ASSUME NEW a \in Actors, ConnError(a)
        PROVE  LoopTypes'
    BY <1>9, RetryTypes, <1>d DEF ConnError, Critical, LoopTypes
  <1>10. ASSUME NEW a \in Actors, BeginNested(a)
        PROVE  LoopTypes'
    BY <1>10, RetryTypes, <1>d DEF BeginNested, Critical, LoopTypes
  <1>11. ASSUME NEW a \in Actors, BeginBusy(a)
        PROVE  LoopTypes'
    BY <1>11, RetryTypes, <1>d DEF BeginBusy, Critical, LoopTypes
  <1>12. ASSUME NEW a \in Actors, BeginBroken(a)
        PROVE  LoopTypes'
    BY <1>12, RetryTypes, <1>d DEF BeginBroken, Critical, LoopTypes
  <1>13. CASE UNCHANGED <<loopVars>>
    BY <1>13 DEF LoopTypes, loopVars
  <1>. QED BY <1>sw, <1>1, <1>2, <1>3, <1>4, <1>5, <1>6, <1>7, <1>8, <1>9, <1>10,
    <1>11, <1>12, <1>13 DEF Next, DrainStep, Begin, TxStep, Wake, Finished,
    vars, clientVars, loopVars, sqlVars, gateVars, Submit, DropHandles, Exit,
    Gate, Park, ParkTimeout, ExecFatal, CommitOk, TakePermit, GetConn,
    BeginOk, AskTx, TxCommit, TxDrop, TxRollback, TxCancel, WillSleep,
    DidWake, ResumeStore, ResumeNotify

\* What SQLite holds.
LEMMA SqlTypesStep ==
    ASSUME IInv, [Next]_vars
    PROVE  SqlTypes'
  <1>0. /\ ClientTypes /\ LoopTypes /\ ActorTypes /\ SqlTypes
        /\ batch \in Seq(Writes)
        /\ Drain \in Actors
    BY DEF IInv, TypeOK, LoopTypes, Actors
  <1>a. pc[Drain] = "exec" => next \in 1..Len(batch)
    BY DEF IInv, BatchInv
  <1>b. \A a \in Actors : pc[a] \in Holding => held[a] \in Conns
    BY DEF IInv, PoolInv
  <1>c. Tasks \subseteq Actors
    BY DEF Actors
  <1>. USE <1>0
  <1>1. CASE ExecOk
    BY <1>1, <1>a, RecordTypes, PutTypes, RowsOf DEF ExecOk, SqlTypes
  <1>2. CASE ExecRowError
    BY <1>2, <1>a, RecordTypes, PutTypes, RowsOf DEF ExecRowError, FailureAnswers, Remnants, SqlTypes
  <1>sw. CASE ExecSwallowed
    <2>1. held[Drain] \in Conns
      BY <1>sw, <1>b DEF ExecSwallowed, Holding, Critical
    <2>2. poisoned' \subseteq Conns /\ UNCHANGED inTx
      BY <1>sw, <2>1 DEF ExecSwallowed, SqlTypes
    <2>3. dirty' \subseteq Rows /\ disk' \subseteq Rows
      BY <1>sw, <1>a, RecordTypes, PutTypes, RowsOf DEF ExecSwallowed, Remnants, SqlTypes
    <2>. QED BY <2>2, <2>3 DEF SqlTypes
  <1>3. CASE ExecImplicitRollback
    BY <1>3, AbortTypes DEF ExecImplicitRollback, FailureAnswers, SqlTypes
  <1>4. CASE ExecFatal
    BY <1>4, <1>b, AbortTypes DEF ExecFatal, SqlTypes, Holding, Critical
  <1>5. CASE Unwind
    BY <1>5, <1>b, AbortTypes, DetachTypes DEF Unwind, SqlTypes, Holding,
      Critical
  <1>6. CASE CommitOk
    BY <1>6 DEF CommitOk, SqlTypes
  <1>7. CASE CommitError
    BY <1>7, <1>b, AbortTypes, DetachTypes DEF CommitError, SqlTypes,
      Holding, Critical
  <1>8. ASSUME NEW a \in Actors, BeginOk(a)
        PROVE  SqlTypes'
    BY <1>8, <1>b DEF BeginOk, SqlTypes, Holding, Critical
  <1>9. ASSUME NEW a \in Actors, BeginNested(a)
        PROVE  SqlTypes'
    BY <1>9, <1>b, AbortTypes, DetachTypes DEF BeginNested, SqlTypes,
      Holding, Critical
  <1>10. ASSUME NEW a \in Actors, BeginBroken(a)
        PROVE  SqlTypes'
    BY <1>10, <1>b, AbortTypes, DetachTypes DEF BeginBroken, SqlTypes,
      Holding, Critical
  <1>11. ASSUME NEW t \in Tasks, TxCommit(t)
        PROVE  SqlTypes'
    BY <1>11, RowsOf DEF TxCommit, SqlTypes
  <1>12. ASSUME NEW t \in Tasks, TxRollback(t)
        PROVE  SqlTypes'
    BY <1>12, <1>b, <1>c, AbortTypes, DetachTypes DEF TxRollback, SqlTypes,
      Holding, Critical
  <1>13. ASSUME NEW t \in Tasks, TxCancel(t)
        PROVE  SqlTypes'
    BY <1>13, <1>b, <1>c DEF TxCancel, SqlTypes, Holding, Critical
  <1>14. CASE UNCHANGED <<sqlVars>>
    BY <1>14 DEF SqlTypes, sqlVars
  <1>. QED BY <1>sw, <1>1, <1>2, <1>3, <1>4, <1>5, <1>6, <1>7, <1>8, <1>9, <1>10,
    <1>11, <1>12, <1>13, <1>14 DEF Next, DrainStep, Begin, TxStep, Wake,
    Finished, vars, clientVars, loopVars, sqlVars, gateVars, Submit,
    DropHandles, Receive, Exit, Gate, Park, ParkTimeout, Respond, TakePermit,
    PermitTimeout, GetConn, ConnError, BeginBusy, AskTx, TxDrop, WillSleep,
    DidWake, ResumeStore, ResumeNotify

\* Places, attempts, the permit and the connections.
LEMMA ActorTypesStep ==
    ASSUME IInv, [Next]_vars
    PROVE  ActorTypes'
  <1>0. /\ ClientTypes /\ LoopTypes /\ ActorTypes /\ SqlTypes
        /\ batch \in Seq(Writes)
        /\ Drain \in Actors
    BY DEF IInv, TypeOK, LoopTypes, Actors
  <1>a. pc[Drain] = "exec" => next \in 1..Len(batch)
    BY DEF IInv, BatchInv
  <1>b. \A a \in Actors : pc[a] \in Holding => held[a] \in Conns
    BY DEF IInv, PoolInv
  <1>c. Tasks \subseteq Actors
    BY DEF Actors
  <1>d. \A a \in Actors : pc[a] \in Critical => permits = 0
    BY <1>0 DEF IInv, PermitInv, OneWriter, ActorTypes
  <1>e. /\ Critical \subseteq Places
        /\ {"idle", "recv", "gate", "park", "parked", "sem", "exited", "done"}
              \subseteq Places
    BY DEF Places
  <1>f. permits \in {0, 1} /\ pc \in [Actors -> Places]
    BY <1>0 DEF ActorTypes
  <1>. USE <1>0, <1>b, <1>c, <1>d, <1>e DEF Critical
  <1>1. CASE Receive
    BY <1>1 DEF Receive, ActorTypes
  <1>2. CASE Exit
    BY <1>2 DEF Exit, ActorTypes
  <1>3. CASE Gate
    BY <1>3 DEF Gate, ActorTypes
  <1>4. CASE Park
    BY <1>4 DEF Park, ActorTypes
  <1>5. CASE ParkTimeout
    BY <1>5 DEF ParkTimeout, ActorTypes
  <1>6. CASE ResumeNotify
    BY <1>6 DEF ResumeNotify, ActorTypes
  <1>7. CASE ExecOk
    BY <1>7, <1>a, RecordTypes DEF ExecOk, ActorTypes
  <1>8. CASE ExecRowError
    BY <1>8, <1>a, RecordTypes DEF ExecRowError, FailureAnswers, Remnants, ActorTypes
  <1>sw. CASE ExecSwallowed
    BY <1>sw, <1>a, RecordTypes DEF ExecSwallowed, Remnants, ActorTypes
  <1>9. CASE ExecImplicitRollback
    BY <1>9, <1>a, RecordTypes DEF ExecImplicitRollback, FailureAnswers, ActorTypes
  <1>10. CASE ExecFatal
    BY <1>10 DEF ExecFatal, ActorTypes
  <1>11. CASE Unwind
    BY <1>11, GiveBackTypes, DetachTypes DEF Unwind, Holding, Critical,
      ActorTypes, EndBatch
  <1>12. CASE CommitOk
    BY <1>12 DEF CommitOk, ActorTypes
  <1>13. CASE CommitError
    BY <1>13, GiveBackTypes, DetachTypes DEF CommitError, Holding, Critical,
      ActorTypes, EndBatch
  <1>14. CASE Respond
    BY <1>14, GiveBackTypes DEF Respond, Holding, Critical, ActorTypes,
      EndBatch
  <1>15. ASSUME NEW a \in Actors, TakePermit(a)
        PROVE  ActorTypes'
    BY <1>15, BoundAssumption DEF TakePermit, ActorTypes
  <1>16. ASSUME NEW a \in Actors, PermitTimeout(a)
        PROVE  ActorTypes'
    BY <1>16, FailTypes DEF PermitTimeout, ActorTypes
  <1>17. ASSUME NEW a \in Actors, GetConn(a)
        PROVE  ActorTypes'
    BY <1>17 DEF GetConn, ActorTypes
  <1>18. ASSUME NEW a \in Actors, ConnError(a)
        PROVE  ActorTypes'
    BY <1>18, RetryTypes DEF ConnError, Holding, Critical, ActorTypes
  <1>19. ASSUME NEW a \in Actors, BeginOk(a)
        PROVE  ActorTypes'
    BY <1>19 DEF BeginOk, ActorTypes
  <1>20. ASSUME NEW a \in Actors, BeginNested(a)
        PROVE  ActorTypes'
    BY <1>20, RetryTypes, GiveBackTypes, DetachTypes DEF BeginNested,
      Holding, Critical, ActorTypes
  <1>21. ASSUME NEW a \in Actors, BeginBusy(a)
        PROVE  ActorTypes'
    BY <1>21, RetryTypes, GiveBackTypes DEF BeginBusy, Holding, Critical,
      ActorTypes
  <1>22. ASSUME NEW a \in Actors, BeginBroken(a)
        PROVE  ActorTypes'
    BY <1>22, RetryTypes, DetachTypes DEF BeginBroken, Holding, Critical,
      ActorTypes
  <1>23. ASSUME NEW t \in Tasks, AskTx(t)
        PROVE  ActorTypes'
    BY <1>23 DEF AskTx, ActorTypes
  <1>24. ASSUME NEW t \in Tasks, TxCommit(t)
        PROVE  ActorTypes'
    BY <1>24, GiveBackTypes DEF TxCommit, Holding, Critical, ActorTypes
  <1>25. ASSUME NEW t \in Tasks, TxDrop(t)
        PROVE  ActorTypes'
    BY <1>25 DEF TxDrop, ActorTypes
  <1>26. ASSUME NEW t \in Tasks, TxRollback(t)
        PROVE  ActorTypes'
    BY <1>26, GiveBackTypes, DetachTypes DEF TxRollback, Holding, Critical,
      ActorTypes
  <1>27. ASSUME NEW t \in Tasks, TxCancel(t)
        PROVE  ActorTypes'
      <2>1. permits = 0
        BY <1>27 DEF TxCancel, Critical
      <2>2. pool' \subseteq Conns /\ held' \in [Actors -> Conns \cup {NoConn}]
        <3>1. CASE pc[t] = "begin" /\ GiveBack(t)
          <4>1. held[t] \in Conns
            BY <3>1 DEF Holding, Critical
          <4>. QED BY <3>1, <4>1, GiveBackTypes
        <3>2. CASE UNCHANGED <<pool, held>>
          BY <3>2 DEF ActorTypes
        <3>. QED BY <1>27, <3>1, <3>2 DEF TxCancel
      <2>3. permits' = 1 /\ attempt' = attempt
        BY <1>27, <2>1 DEF TxCancel
      <2>4. pc' \in [Actors -> Places]
        BY <1>27, <1>f DEF TxCancel
      <2>. QED BY <2>2, <2>3, <2>4 DEF ActorTypes
  <1>28. CASE UNCHANGED <<pc, attempt, permits, pool, held>>
    BY <1>28 DEF ActorTypes
  <1>. QED BY <1>sw, <1>1, <1>2, <1>3, <1>4, <1>5, <1>6, <1>7, <1>8, <1>9, <1>10,
    <1>11, <1>12, <1>13, <1>14, <1>15, <1>16, <1>17, <1>18, <1>19, <1>20,
    <1>21, <1>22, <1>23, <1>24, <1>25, <1>26, <1>27, <1>28 DEF Next,
    DrainStep, Begin, TxStep, Wake, Finished, vars, clientVars, loopVars,
    sqlVars, gateVars, Submit, DropHandles, WillSleep, DidWake, ResumeStore

\* Every step keeps the types.
LEMMA TypeStep ==
    ASSUME IInv, [Next]_vars
    PROVE  TypeOK'
  BY ClientTypesStep, LoopTypesStep, ActorTypesStep, SqlTypesStep, GateTypesStep
     DEF TypeOK

\* A connection leaves the pool with its holder and comes back with the end of
\* the holding.
LEMMA PoolStep ==
    ASSUME IInv, [Next]_vars
    PROVE  PoolInv'
  <1>a. /\ pc \in [Actors -> Places]
        /\ held \in [Actors -> Conns \cup {NoConn}]
        /\ pool \subseteq Conns
        /\ Drain \in Actors /\ Tasks \subseteq Actors
    BY DEF IInv, TypeOK, ActorTypes, Actors
  <1>b. /\ \A a \in Actors : pc[a] \in Holding => held[a] \in Conns
        /\ \A c \in Conns :
              c \in pool <=> \A a \in Actors : pc[a] \in Holding => held[a] # c
    BY DEF IInv, PoolInv
  <1>c. \A a, b \in Actors : pc[a] \in Critical /\ pc[b] \in Critical => a = b
    BY DEF IInv, PermitInv, OneWriter
  <1>. USE <1>a, <1>b, <1>c DEF PoolInv, Holding, Critical

  <1>1. CASE Receive
    BY <1>1 DEF Receive
  <1>2. CASE Exit
    BY <1>2 DEF Exit
  <1>3. CASE Gate
    BY <1>3 DEF Gate
  <1>4. CASE Park
    BY <1>4 DEF Park
  <1>5. CASE ParkTimeout
    BY <1>5 DEF ParkTimeout
  <1>6. CASE ResumeNotify
    BY <1>6 DEF ResumeNotify
  <1>7. CASE ExecFatal
    BY <1>7 DEF ExecFatal
  <1>8. CASE CommitOk
    BY <1>8 DEF CommitOk
  <1>9. CASE ExecOk
    BY <1>9 DEF ExecOk, Record
  <1>10. CASE ExecRowError
    BY <1>10 DEF ExecRowError, FailureAnswers, Remnants, Record
  <1>sw. CASE ExecSwallowed
    BY <1>sw DEF ExecSwallowed, Remnants, Record
  <1>11. CASE ExecImplicitRollback
    BY <1>11 DEF ExecImplicitRollback, FailureAnswers, Record
  <1>12. CASE Unwind
    BY <1>12 DEF Unwind, EndBatch, GiveBack, Detach
  <1>13. CASE CommitError
    BY <1>13 DEF CommitError, EndBatch, GiveBack, Detach
  <1>14. CASE Respond
    BY <1>14 DEF Respond, EndBatch, GiveBack
  <1>15. ASSUME NEW a \in Actors, TakePermit(a)
        PROVE  PoolInv'
    BY <1>15 DEF TakePermit
  <1>16. ASSUME NEW a \in Actors, PermitTimeout(a)
        PROVE  PoolInv'
    BY <1>16, FailMoves DEF PermitTimeout
  <1>17. ASSUME NEW a \in Actors, GetConn(a)
        PROVE  PoolInv'
    BY <1>17 DEF GetConn
  <1>18. ASSUME NEW a \in Actors, ConnError(a)
        PROVE  PoolInv'
    BY <1>18, RetryMoves DEF ConnError
  <1>19. ASSUME NEW a \in Actors, BeginOk(a)
        PROVE  PoolInv'
    BY <1>19 DEF BeginOk
  <1>20. ASSUME NEW a \in Actors, BeginNested(a)
        PROVE  PoolInv'
    BY <1>20, RetryMoves DEF BeginNested, GiveBack, Detach
  <1>21. ASSUME NEW a \in Actors, BeginBusy(a)
        PROVE  PoolInv'
    BY <1>21, RetryMoves DEF BeginBusy, GiveBack
  <1>22. ASSUME NEW a \in Actors, BeginBroken(a)
        PROVE  PoolInv'
    BY <1>22, RetryMoves DEF BeginBroken, GiveBack, Detach
  <1>23. ASSUME NEW t \in Tasks, AskTx(t)
        PROVE  PoolInv'
    BY <1>23 DEF AskTx
  <1>24. ASSUME NEW t \in Tasks, TxCommit(t)
        PROVE  PoolInv'
    BY <1>24 DEF TxCommit, GiveBack
  <1>25. ASSUME NEW t \in Tasks, TxDrop(t)
        PROVE  PoolInv'
    BY <1>25 DEF TxDrop
  <1>26. ASSUME NEW t \in Tasks, TxRollback(t)
        PROVE  PoolInv'
    BY <1>26 DEF TxRollback, GiveBack, Detach
  <1>27. ASSUME NEW t \in Tasks, TxCancel(t)
        PROVE  PoolInv'
    BY <1>27 DEF TxCancel, GiveBack
  <1>28. CASE UNCHANGED <<pc, pool, held>>
    BY <1>28 DEF PoolInv
  <1>. QED BY <1>sw, <1>1, <1>2, <1>3, <1>4, <1>5, <1>6, <1>7, <1>8, <1>9, <1>10,
    <1>11, <1>12, <1>13, <1>14, <1>15, <1>16, <1>17, <1>18, <1>19, <1>20,
    <1>21, <1>22, <1>23, <1>24, <1>25, <1>26, <1>27, <1>28 DEF Next,
    DrainStep, Begin, TxStep, Wake, Finished, vars, clientVars, loopVars,
    sqlVars, gateVars, Submit, DropHandles, WillSleep, DidWake, ResumeStore

-----------------------------------------------------------------------------
(* The batch, its results and its rows.                                     *)

\* The index runs through a batch that is not empty.
LEMMA BatchStep ==
    ASSUME IInv, [Next]_vars
    PROVE  BatchInv'
  <1>a. /\ pc \in [Actors -> Places]
        /\ batch \in Seq(Writes) /\ next \in Nat
        /\ result \in [Writes -> {"none", "ok", "err"}]
        /\ Drain \in Actors /\ Drain \notin Tasks
        /\ ClientTypes
    BY SetAssumption DEF IInv, TypeOK, ActorTypes, LoopTypes, Actors
  <1>b. BatchInv /\ ResultInv
    BY DEF IInv
  <1>c. pc[Drain] \notin {"idle", "tx", "rollback", "done"}
    BY DEF IInv, PermitInv
  <1>d. \A t \in Tasks : pc[t] \in {"idle", "sem", "conn", "begin", "tx",
                                   "rollback", "done"}
    BY DEF IInv, PermitInv
  <1>. USE <1>a, <1>b, <1>c DEF BatchInv, loopVars
  <1>1. CASE Receive
    BY <1>1, ReceiveSplits DEF Receive
  <1>2. CASE Exit
    BY <1>2 DEF Exit
  <1>3. CASE Gate
    BY <1>3 DEF Gate
  <1>4. CASE Park
    BY <1>4 DEF Park
  <1>5. CASE ParkTimeout
    BY <1>5 DEF ParkTimeout
  <1>6. CASE ResumeNotify
    BY <1>6 DEF ResumeNotify
  <1>7. CASE ExecOk
    BY <1>7 DEF ExecOk, Record, Current
  <1>8. CASE ExecRowError
    BY <1>8 DEF ExecRowError, FailureAnswers, Remnants, Record, Current
  <1>sw. CASE ExecSwallowed
    BY <1>sw DEF ExecSwallowed, Remnants, Record, Current
  <1>9. CASE ExecImplicitRollback
    BY <1>9 DEF ExecImplicitRollback, FailureAnswers, Record, Current
  <1>10. CASE ExecFatal
    BY <1>10 DEF ExecFatal
  <1>11. CASE Unwind
    BY <1>11 DEF Unwind, EndBatch
  <1>12. CASE CommitOk
    BY <1>12 DEF CommitOk
  <1>13. CASE CommitError
    BY <1>13 DEF CommitError, EndBatch
  <1>14. CASE Respond
    BY <1>14 DEF Respond, EndBatch
  <1>15. ASSUME NEW a \in Actors, TakePermit(a)
        PROVE  BatchInv'
    BY <1>15 DEF TakePermit
  <1>16. ASSUME NEW a \in Actors, PermitTimeout(a)
        PROVE  BatchInv'
    BY <1>16, FailMoves DEF PermitTimeout
  <1>17. ASSUME NEW a \in Actors, GetConn(a)
        PROVE  BatchInv'
    BY <1>17 DEF GetConn
  <1>18. ASSUME NEW a \in Actors, ConnError(a)
        PROVE  BatchInv'
    BY <1>18, RetryMoves DEF ConnError
  <1>19. ASSUME NEW a \in Actors, BeginOk(a)
        PROVE  BatchInv'
    BY <1>19 DEF BeginOk
  <1>20. ASSUME NEW a \in Actors, BeginNested(a)
        PROVE  BatchInv'
    BY <1>20, RetryMoves DEF BeginNested
  <1>21. ASSUME NEW a \in Actors, BeginBusy(a)
        PROVE  BatchInv'
    BY <1>21, RetryMoves DEF BeginBusy
  <1>22. ASSUME NEW a \in Actors, BeginBroken(a)
        PROVE  BatchInv'
    BY <1>22, RetryMoves DEF BeginBroken
  <1>23. ASSUME NEW t \in Tasks, AskTx(t)
        PROVE  BatchInv'
    BY <1>23, <1>d DEF AskTx
  <1>24. ASSUME NEW t \in Tasks, TxCommit(t)
        PROVE  BatchInv'
    BY <1>24, <1>d DEF TxCommit
  <1>25. ASSUME NEW t \in Tasks, TxDrop(t)
        PROVE  BatchInv'
    BY <1>25, <1>d DEF TxDrop
  <1>26. ASSUME NEW t \in Tasks, TxRollback(t)
        PROVE  BatchInv'
    BY <1>26, <1>d DEF TxRollback
  <1>27. ASSUME NEW t \in Tasks, TxCancel(t)
        PROVE  BatchInv'
    BY <1>27, <1>d DEF TxCancel
  <1>28. CASE UNCHANGED <<pc, batch, next>>
    BY <1>28 DEF BatchInv
  <1>. QED BY <1>sw, <1>1, <1>2, <1>3, <1>4, <1>5, <1>6, <1>7, <1>8, <1>9, <1>10,
    <1>11, <1>12, <1>13, <1>14, <1>15, <1>16, <1>17, <1>18, <1>19, <1>20,
    <1>21, <1>22, <1>23, <1>24, <1>25, <1>26, <1>27, <1>28 DEF Next,
    DrainStep, Begin, TxStep, Wake, Finished, vars, clientVars, loopVars,
    sqlVars, gateVars, Submit, DropHandles, WillSleep, DidWake, ResumeStore

\* No write is passed over without a result.
LEMMA ResultStep ==
    ASSUME IInv, [Next]_vars
    PROVE  ResultInv'
  <1>a. /\ pc \in [Actors -> Places]
        /\ batch \in Seq(Writes) /\ next \in Nat
        /\ result \in [Writes -> {"none", "ok", "err"}]
        /\ Drain \in Actors /\ Drain \notin Tasks
        /\ ClientTypes
    BY SetAssumption DEF IInv, TypeOK, ActorTypes, LoopTypes, Actors
  <1>b. BatchInv /\ ResultInv
    BY DEF IInv
  <1>c. pc[Drain] \notin {"idle", "tx", "rollback", "done"}
    BY DEF IInv, PermitInv
  <1>d. \A t \in Tasks : pc[t] \in {"idle", "sem", "conn", "begin", "tx",
                                   "rollback", "done"}
    BY DEF IInv, PermitInv
  <1>. USE <1>a, <1>b, <1>c DEF BatchInv, ResultInv, loopVars
  <1>1. CASE Receive
    BY <1>1 DEF Receive
  <1>2. CASE Exit
    BY <1>2 DEF Exit
  <1>3. CASE Gate
    BY <1>3 DEF Gate
  <1>4. CASE Park
    BY <1>4 DEF Park
  <1>5. CASE ParkTimeout
    BY <1>5 DEF ParkTimeout
  <1>6. CASE ResumeNotify
    BY <1>6 DEF ResumeNotify
  <1>7. CASE ExecOk
    BY <1>7 DEF ExecOk, Record, Current
  <1>8. CASE ExecRowError
    BY <1>8 DEF ExecRowError, FailureAnswers, Remnants, Record, Current
  <1>sw. CASE ExecSwallowed
    BY <1>sw DEF ExecSwallowed, Remnants, Record, Current
  <1>9. CASE ExecImplicitRollback
    BY <1>9 DEF ExecImplicitRollback, FailureAnswers, Record, Current
  <1>10. CASE ExecFatal
    BY <1>10 DEF ExecFatal
  <1>11. CASE Unwind
    BY <1>11 DEF Unwind, EndBatch
  <1>12. CASE CommitOk
    BY <1>12 DEF CommitOk
  <1>13. CASE CommitError
    BY <1>13 DEF CommitError, EndBatch
  <1>14. CASE Respond
    BY <1>14 DEF Respond, EndBatch
  <1>15. ASSUME NEW a \in Actors, TakePermit(a)
        PROVE  ResultInv'
    BY <1>15 DEF TakePermit
  <1>16. ASSUME NEW a \in Actors, PermitTimeout(a)
        PROVE  ResultInv'
    BY <1>16, FailMoves DEF PermitTimeout
  <1>17. ASSUME NEW a \in Actors, GetConn(a)
        PROVE  ResultInv'
    BY <1>17 DEF GetConn
  <1>18. ASSUME NEW a \in Actors, ConnError(a)
        PROVE  ResultInv'
    BY <1>18, RetryMoves DEF ConnError
  <1>19. ASSUME NEW a \in Actors, BeginOk(a)
        PROVE  ResultInv'
    BY <1>19 DEF BeginOk
  <1>20. ASSUME NEW a \in Actors, BeginNested(a)
        PROVE  ResultInv'
    BY <1>20, RetryMoves DEF BeginNested
  <1>21. ASSUME NEW a \in Actors, BeginBusy(a)
        PROVE  ResultInv'
    BY <1>21, RetryMoves DEF BeginBusy
  <1>22. ASSUME NEW a \in Actors, BeginBroken(a)
        PROVE  ResultInv'
    BY <1>22, RetryMoves DEF BeginBroken
  <1>23. ASSUME NEW t \in Tasks, AskTx(t)
        PROVE  ResultInv'
    BY <1>23, <1>d DEF AskTx
  <1>24. ASSUME NEW t \in Tasks, TxCommit(t)
        PROVE  ResultInv'
    BY <1>24, <1>d DEF TxCommit
  <1>25. ASSUME NEW t \in Tasks, TxDrop(t)
        PROVE  ResultInv'
    BY <1>25, <1>d DEF TxDrop
  <1>26. ASSUME NEW t \in Tasks, TxRollback(t)
        PROVE  ResultInv'
    BY <1>26, <1>d DEF TxRollback
  <1>27. ASSUME NEW t \in Tasks, TxCancel(t)
        PROVE  ResultInv'
    BY <1>27, <1>d DEF TxCancel
  <1>28. CASE UNCHANGED <<pc, batch, next, result>>
    BY <1>28 DEF ResultInv
  <1>. QED BY <1>sw, <1>1, <1>2, <1>3, <1>4, <1>5, <1>6, <1>7, <1>8, <1>9, <1>10,
    <1>11, <1>12, <1>13, <1>14, <1>15, <1>16, <1>17, <1>18, <1>19, <1>20,
    <1>21, <1>22, <1>23, <1>24, <1>25, <1>26, <1>27, <1>28 DEF Next,
    DrainStep, Begin, TxStep, Wake, Finished, vars, clientVars, loopVars,
    sqlVars, gateVars, Submit, DropHandles, WillSleep, DidWake, ResumeStore

\* The rows of the writes that succeeded are where they should be.
LEMMA RowsStep ==
    ASSUME IInv, [Next]_vars
    PROVE  RowsInv'
  <1>a. /\ pc \in [Actors -> Places]
        /\ batch \in Seq(Writes) /\ next \in Nat
        /\ result \in [Writes -> {"none", "ok", "err"}]
        /\ Drain \in Actors /\ Drain \notin Tasks
        /\ ClientTypes
    BY SetAssumption DEF IInv, TypeOK, ActorTypes, LoopTypes, Actors
  <1>b. BatchInv /\ ResultInv
    BY DEF IInv
  <1>c. pc[Drain] \notin {"idle", "tx", "rollback", "done"}
    BY DEF IInv, PermitInv
  <1>d. \A t \in Tasks : pc[t] \in {"idle", "sem", "conn", "begin", "tx",
                                   "rollback", "done"}
    BY DEF IInv, PermitInv
  <1>e. RowsInv
    BY DEF IInv
  <1>f. \A a, b \in Actors : pc[a] \in Critical /\ pc[b] \in Critical => a = b
    BY DEF IInv, PermitInv, OneWriter
  <1>g. Tasks \subseteq Actors
    BY DEF Actors
  <1>. USE <1>a, <1>b, <1>c, <1>e DEF BatchInv, RowsInv, Critical, sqlVars, loopVars

  <1>1. CASE Receive
    BY <1>1 DEF Receive
  <1>2. CASE Exit
    BY <1>2 DEF Exit
  <1>3. CASE Gate
    BY <1>3 DEF Gate
  <1>4. CASE Park
    BY <1>4 DEF Park
  <1>5. CASE ParkTimeout
    BY <1>5 DEF ParkTimeout
  <1>6. CASE ResumeNotify
    BY <1>6 DEF ResumeNotify
  <1>7. CASE ExecOk
    BY <1>7 DEF ExecOk, Record, Current, Put
  <1>8. CASE ExecRowError
    BY <1>8 DEF ExecRowError, FailureAnswers, Remnants, Record, Current, Put
  <1>sw. CASE ExecSwallowed
    BY <1>sw DEF ExecSwallowed, Remnants, Record, Current, Put
  <1>9. CASE ExecImplicitRollback
    BY <1>9 DEF ExecImplicitRollback, FailureAnswers, Record, Current, Abort
  <1>10. CASE ExecFatal
    BY <1>10 DEF ExecFatal
  <1>11. CASE Unwind
    BY <1>11 DEF Unwind, EndBatch
  <1>12. CASE CommitOk
    BY <1>12 DEF CommitOk
  <1>13. CASE CommitError
    BY <1>13 DEF CommitError, EndBatch
  <1>14. CASE Respond
    BY <1>14 DEF Respond, EndBatch
  <1>15. ASSUME NEW a \in Actors, TakePermit(a)
        PROVE  RowsInv'
    BY <1>15 DEF TakePermit
  <1>16. ASSUME NEW a \in Actors, PermitTimeout(a)
        PROVE  RowsInv'
    BY <1>16, <1>f, FailMoves DEF PermitTimeout
  <1>17. ASSUME NEW a \in Actors, GetConn(a)
        PROVE  RowsInv'
    BY <1>17, <1>f DEF GetConn
  <1>18. ASSUME NEW a \in Actors, ConnError(a)
        PROVE  RowsInv'
    BY <1>18, <1>f, RetryMoves DEF ConnError
  <1>19. ASSUME NEW a \in Actors, BeginOk(a)
        PROVE  RowsInv'
    BY <1>19, <1>f DEF BeginOk
  <1>20. ASSUME NEW a \in Actors, BeginNested(a)
        PROVE  RowsInv'
    BY <1>20, <1>f, RetryMoves DEF BeginNested
  <1>21. ASSUME NEW a \in Actors, BeginBusy(a)
        PROVE  RowsInv'
    BY <1>21, <1>f, RetryMoves DEF BeginBusy
  <1>22. ASSUME NEW a \in Actors, BeginBroken(a)
        PROVE  RowsInv'
    BY <1>22, <1>f, RetryMoves DEF BeginBroken
  <1>23. ASSUME NEW t \in Tasks, AskTx(t)
        PROVE  RowsInv'
    BY <1>23, <1>d DEF AskTx
  <1>24. ASSUME NEW t \in Tasks, TxCommit(t)
        PROVE  RowsInv'
    BY <1>24, <1>d, <1>f, <1>g DEF TxCommit
  <1>25. ASSUME NEW t \in Tasks, TxDrop(t)
        PROVE  RowsInv'
    BY <1>25, <1>d DEF TxDrop
  <1>26. ASSUME NEW t \in Tasks, TxRollback(t)
        PROVE  RowsInv'
    BY <1>26, <1>d, <1>f, <1>g DEF TxRollback
  <1>27. ASSUME NEW t \in Tasks, TxCancel(t)
        PROVE  RowsInv'
    BY <1>27, <1>d, <1>f, <1>g DEF TxCancel
  <1>28. CASE UNCHANGED <<pc, batch, next, result, held, inTx, dirty, disk>>
    BY <1>28 DEF RowsInv
  <1>. QED BY <1>sw, <1>1, <1>2, <1>3, <1>4, <1>5, <1>6, <1>7, <1>8, <1>9, <1>10,
    <1>11, <1>12, <1>13, <1>14, <1>15, <1>16, <1>17, <1>18, <1>19, <1>20,
    <1>21, <1>22, <1>23, <1>24, <1>25, <1>26, <1>27, <1>28 DEF Next,
    DrainStep, Begin, TxStep, Wake, Finished, vars, clientVars, loopVars,
    sqlVars, gateVars, Submit, DropHandles, WillSleep, DidWake, ResumeStore

\* The disk only grows.
LEMMA DiskGrows ==
    ASSUME IInv, [Next]_vars
    PROVE  disk \subseteq disk'
  <1>1. CASE ExecOk
    BY <1>1 DEF ExecOk, Put
  <1>2. CASE ExecRowError
    BY <1>2 DEF ExecRowError, FailureAnswers, Remnants, Put
  <1>sw. CASE ExecSwallowed
    BY <1>sw DEF ExecSwallowed, Remnants, Put
  <1>3. CASE CommitOk
    BY <1>3 DEF CommitOk
  <1>4. ASSUME NEW t \in Tasks, TxCommit(t)
        PROVE  disk \subseteq disk'
    BY <1>4 DEF TxCommit
  <1>5. CASE UNCHANGED <<disk>>
    BY <1>5
  <1>. QED BY <1>sw, <1>1, <1>2, <1>3, <1>4, <1>5 DEF Next, DrainStep, Begin,
    TxStep, Wake, Finished, vars, clientVars, loopVars, sqlVars, gateVars,
    Submit, DropHandles, Receive, Exit, Gate, Park, ParkTimeout,
    ExecImplicitRollback, ExecSwallowed, ExecFatal, Unwind, CommitError, Respond,
    TakePermit, PermitTimeout, GetConn, ConnError, BeginOk, BeginNested,
    BeginBusy, BeginBroken, AskTx, TxDrop, TxRollback, TxCancel, WillSleep,
    DidWake, ResumeStore, ResumeNotify

\* An answer Ok comes from a batch whose COMMIT succeeded, and is never taken
\* back.
LEMMA OkStep ==
    ASSUME IInv, [Next]_vars
    PROVE  OkDurable'
  <1>a. /\ pc \in [Actors -> Places]
        /\ client \in [Writes -> {"idle", "waiting", "ok", "err"}]
        /\ batch \in Seq(Writes) /\ next \in Nat
    BY DEF IInv, TypeOK, ActorTypes, LoopTypes, ClientTypes
  <1>b. OkDurable /\ RowsInv /\ BatchInv
    BY DEF IInv
  <1>c. disk \subseteq disk'
    BY DiskGrows
  <1>. USE <1>a, <1>b, <1>c DEF OkDurable
  <1>1. ASSUME NEW w \in Writes, Submit(w)
        PROVE  OkDurable'
    BY <1>1 DEF Submit
  <1>2. CASE Unwind
    BY <1>2 DEF Unwind, TellAll
  <1>3. CASE CommitError
    BY <1>3 DEF CommitError, TellAll
  <1>4. CASE Respond
    BY <1>4 DEF Respond, RowsInv, BatchInv, Range
  <1>5. ASSUME NEW a \in Actors, PermitTimeout(a)
        PROVE  OkDurable'
    BY <1>5, FailMoves DEF PermitTimeout, TellAll
  <1>6. ASSUME NEW a \in Actors, ConnError(a)
        PROVE  OkDurable'
    BY <1>6, RetryMoves DEF ConnError, TellAll
  <1>7. ASSUME NEW a \in Actors, BeginNested(a)
        PROVE  OkDurable'
    BY <1>7, RetryMoves DEF BeginNested, TellAll
  <1>8. ASSUME NEW a \in Actors, BeginBusy(a)
        PROVE  OkDurable'
    BY <1>8, RetryMoves DEF BeginBusy, TellAll
  <1>9. ASSUME NEW a \in Actors, BeginBroken(a)
        PROVE  OkDurable'
    BY <1>9, RetryMoves DEF BeginBroken, TellAll
  <1>10. CASE UNCHANGED <<client>>
    BY <1>10 DEF OkDurable
  <1>. QED BY <1>1, <1>2, <1>3, <1>4, <1>5, <1>6, <1>7, <1>8, <1>9, <1>10 DEF
    Next, DrainStep, Begin, TxStep, Wake, Finished, vars, clientVars,
    loopVars, sqlVars, gateVars, DropHandles, Receive, Exit, Gate, Park,
    ParkTimeout, ExecOk, ExecRowError, ExecImplicitRollback, ExecSwallowed, ExecFatal,
    CommitOk, TakePermit, GetConn, BeginOk, AskTx, TxCommit, TxDrop,
    TxRollback, TxCancel, WillSleep, DidWake, ResumeStore, ResumeNotify

\* Whoever ends a transaction or gives its connection back does both.
LEMMA TxInvStep ==
    ASSUME IInv, [Next]_vars
    PROVE  TxInv'
  <1>a. /\ pc \in [Actors -> Places]
        /\ held \in [Actors -> Conns \cup {NoConn}]
        /\ inTx \subseteq Conns /\ cancels \in Nat
        /\ Drain \in Actors /\ Drain \notin Tasks /\ Tasks \subseteq Actors
    BY SetAssumption, BoundAssumption
       DEF IInv, TypeOK, ActorTypes, SqlTypes, GateTypes, Actors
  <1>b. \A a, b \in Actors : pc[a] \in Critical /\ pc[b] \in Critical => a = b
    BY DEF IInv, PermitInv, OneWriter
  <1>c. TxInv
    BY DEF IInv
  <1>. USE <1>a, <1>b, <1>c DEF TxInv, Critical, sqlVars

  <1>1. CASE Receive
    BY <1>1 DEF Receive
  <1>2. CASE Exit
    BY <1>2 DEF Exit
  <1>3. CASE Gate
    BY <1>3 DEF Gate
  <1>4. CASE Park
    BY <1>4 DEF Park
  <1>5. CASE ParkTimeout
    BY <1>5 DEF ParkTimeout
  <1>6. CASE ResumeNotify
    BY <1>6 DEF ResumeNotify
  <1>7. CASE ExecOk
    BY <1>7 DEF ExecOk, Record
  <1>8. CASE ExecRowError
    BY <1>8 DEF ExecRowError, FailureAnswers, Remnants, Record
  <1>sw. CASE ExecSwallowed
    BY <1>sw DEF ExecSwallowed, Remnants, Record
  <1>9. CASE ExecImplicitRollback
    BY <1>9 DEF ExecImplicitRollback, FailureAnswers, Record, Abort
  <1>10. CASE ExecFatal
    BY <1>10 DEF ExecFatal, Abort
  <1>11. CASE Unwind
    BY <1>11 DEF Unwind, EndBatch, Abort, GiveBack, Detach
  <1>12. CASE CommitOk
    BY <1>12 DEF CommitOk
  <1>13. CASE CommitError
    BY <1>13 DEF CommitError, EndBatch, Abort, GiveBack, Detach
  <1>14. CASE Respond
    BY <1>14 DEF Respond, EndBatch, GiveBack
  <1>15. ASSUME NEW a \in Actors, TakePermit(a)
        PROVE  TxInv'
    BY <1>15 DEF TakePermit
  <1>16. ASSUME NEW a \in Actors, PermitTimeout(a)
        PROVE  TxInv'
    BY <1>16, FailMoves DEF PermitTimeout
  <1>17. ASSUME NEW a \in Actors, GetConn(a)
        PROVE  TxInv'
    BY <1>17 DEF GetConn
  <1>18. ASSUME NEW a \in Actors, ConnError(a)
        PROVE  TxInv'
    BY <1>18, RetryMoves DEF ConnError
  <1>19. ASSUME NEW a \in Actors, BeginOk(a)
        PROVE  TxInv'
    BY <1>19 DEF BeginOk
  <1>20. ASSUME NEW a \in Actors, BeginNested(a)
        PROVE  TxInv'
    BY <1>20, RetryMoves DEF BeginNested, Abort, GiveBack, Detach
  <1>21. ASSUME NEW a \in Actors, BeginBusy(a)
        PROVE  TxInv'
    BY <1>21, RetryMoves DEF BeginBusy, GiveBack
  <1>22. ASSUME NEW a \in Actors, BeginBroken(a)
        PROVE  TxInv'
    BY <1>22, RetryMoves DEF BeginBroken, Abort, GiveBack, Detach
  <1>23. ASSUME NEW t \in Tasks, AskTx(t)
        PROVE  TxInv'
    BY <1>23 DEF AskTx
  <1>24. ASSUME NEW t \in Tasks, TxCommit(t)
        PROVE  TxInv'
    BY <1>24 DEF TxCommit, GiveBack
  <1>25. ASSUME NEW t \in Tasks, TxDrop(t)
        PROVE  TxInv'
    BY <1>25 DEF TxDrop
  <1>26. ASSUME NEW t \in Tasks, TxRollback(t)
        PROVE  TxInv'
    BY <1>26 DEF TxRollback, Abort, GiveBack, Detach
  <1>27. ASSUME NEW t \in Tasks, TxCancel(t)
        PROVE  TxInv'
    BY <1>27 DEF TxCancel, GiveBack
  <1>28. CASE UNCHANGED <<pc, held, inTx, cancels>>
    BY <1>28 DEF TxInv
  <1>. QED BY <1>sw, <1>1, <1>2, <1>3, <1>4, <1>5, <1>6, <1>7, <1>8, <1>9, <1>10,
    <1>11, <1>12, <1>13, <1>14, <1>15, <1>16, <1>17, <1>18, <1>19, <1>20,
    <1>21, <1>22, <1>23, <1>24, <1>25, <1>26, <1>27, <1>28 DEF Next,
    DrainStep, Begin, TxStep, Wake, Finished, vars, clientVars, loopVars,
    sqlVars, gateVars, Submit, DropHandles, WillSleep, DidWake, ResumeStore

-----------------------------------------------------------------------------
(* Theorems.                                                                *)

\* The write path starts in the invariant.
LEMMA InitIInv == Init => IInv
  <1> SUFFICES ASSUME Init PROVE IInv
    OBVIOUS
  <1>1. TypeOK
    <2>1. ClientTypes /\ LoopTypes /\ SqlTypes
      <3>1. queue \in Seq(Writes) /\ batch \in Seq(Writes) /\ next \in Nat
        BY DEF Init
      <3>2. /\ client \in [Writes -> {"idle", "waiting", "ok", "err"}]
            /\ result \in [Writes -> {"none", "ok", "err"}]
        BY DEF Init
      <3>3. closed \in BOOLEAN /\ SqlTypes
        BY DEF Init, SqlTypes
      <3>. QED BY <3>1, <3>2, <3>3 DEF ClientTypes, LoopTypes
    <2>2. ActorTypes
      BY BoundAssumption DEF Init, ActorTypes, Places
    <2>3. GateTypes
      <3>1. paused \in BOOLEAN /\ asleep \in BOOLEAN
        BY DEF Init
      <3>2. /\ settling \in Nat /\ notifying \in Nat
            /\ sleeps \in 0..MaxSleeps /\ cancels \in 0..MaxCancels
        BY BoundAssumption DEF Init
      <3>3. notify \in {"unset", "empty", "permit"}
        BY DEF Init
      <3>. QED BY <3>1, <3>2, <3>3 DEF GateTypes
    <2>. QED BY <2>1, <2>2, <2>3 DEF TypeOK
  <1>2. PermitInv /\ PoolInv /\ BatchInv /\ ResultInv /\ TxInv
    BY SetAssumption DEF Init, PermitInv, OneWriter, PoolInv, BatchInv,
       ResultInv, TxInv, Critical, Holding, Actors
  <1>3. RowsInv /\ OkDurable
    BY SetAssumption DEF Init, RowsInv, OkDurable, Actors
  <1>. QED BY <1>1, <1>2, <1>3 DEF IInv

\* IInv is inductive: it is what the theorems below follow from.
THEOREM Invariance == Spec => []IInv
  <1>1. IInv /\ [Next]_vars => IInv'
    BY TypeStep, PermitStep, PoolStep, BatchStep, ResultStep, RowsStep,
       TxInvStep, OkStep DEF IInv
  <1>. QED BY InitIInv, <1>1, PTL DEF Spec

\* Every variable of the write path keeps its type, whatever SQLite answers.
THEOREM TypeCorrect == Spec => []TypeOK
  <1>1. IInv => TypeOK
    BY DEF IInv
  <1>. QED BY Invariance, <1>1, PTL

\* The semaphore of db.rs and write_queue.rs, with the permit that
\* ImmediateTx::drop hands to its ROLLBACK, lets one writer at a time through.
THEOREM SingleWriter == Spec => []OneWriter
  <1>1. IInv => OneWriter
    BY DEF IInv, PermitInv
  <1>. QED BY Invariance, <1>1, PTL

\* execute_batch answers Ok only for writes that are durable, under every fault,
\* implicit rollbacks included.
THEOREM Durability == Spec => []OkDurable
  <1>1. IInv => OkDurable
    BY DEF IInv
  <1>. QED BY Invariance, <1>1, PTL

\* The permit's owner always finds an idle connection: neither detached nor
\* stuck connections use the write pool up.
THEOREM PoolAvailable == Spec => []PoolNotStarved
  <1>1. IInv => PoolNotStarved
    <2> SUFFICES ASSUME IInv, NEW a \in Actors, pc[a] = "conn" PROVE pool # {}
      BY DEF PoolNotStarved
    <2>1. \A b \in Actors : pc[b] \notin Holding
      BY DEF IInv, PermitInv, OneWriter, Critical, Holding
    <2>2. \A c \in Conns : c \in pool
      BY <2>1 DEF IInv, PoolInv
    <2>. QED BY <2>2, SetAssumption
  <1>. QED BY Invariance, <1>1, PTL

\* Unless a future was dropped during BEGIN, no connection in the pool is inside
\* a transaction.
THEOREM PoolClean == Spec => []CleanPool
  <1>1. IInv => CleanPool
    BY DEF IInv, TxInv, PoolInv, CleanPool, Holding, Critical, TypeOK, SqlTypes
  <1>. QED BY Invariance, <1>1, PTL

=============================================================================
