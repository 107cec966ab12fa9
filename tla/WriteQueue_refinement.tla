------------------------ MODULE WriteQueue_refinement ------------------------
(***************************************************************************)
(* The write queue implements the acknowledged store (AckedStore), as long  *)
(* as SQLite does not roll a transaction back behind the code's back.       *)
(*                                                                         *)
(* Keeping is the COMMIT of a batch, answering is whatever empties the      *)
(* batch: the results after the COMMIT, or one error for all.  What has to  *)
(* be shown is that each answer finds its write in the state it reports.    *)
(***************************************************************************)
EXTENDS WriteQueue_proofs

\* A sequence without repetitions, and membership in a sequence.
Once(s)  == \A i, j \in 1..Len(s) : s[i] = s[j] => i = j
In(w, s) == \E i \in 1..Len(s) : s[i] = w

\* Every waiting caller's write is in the channel or in the batch, once.
ChannelInv ==
    /\ pc[Drain] \in {"recv", "exited"} => batch = <<>>
    /\ Once(queue) /\ Once(batch)
    /\ \A w \in Writes : ~(In(w, queue) /\ In(w, batch))
    /\ \A w \in Writes : client[w] = "waiting" <=> In(w, queue) \/ In(w, batch)

\* The batch runs inside a transaction, and only what it has executed so far is
\* uncommitted.
OpenInv ==
    /\ pc[Drain] \in {"exec", "commit"} => held[Drain] \in inTx
    /\ dirty # {} => pc[Drain] \in {"exec", "commit", "unwind"} /\ held[Drain] \in inTx
    /\ \A r \in dirty : \E i \in 1..Len(batch) : i < next /\ r \in Parts(batch[i])

\* A write without an answer has nothing durable until its batch is committed.
FreshInv ==
    \A w \in Writes : client[w] \in {"idle", "waiting"} /\ Parts(w) \cap disk # {}
                        => pc[Drain] = "respond" /\ In(w, batch)

\* A write with result "err" is not, and will not be, stored as a whole.
ErrInv ==
    /\ pc[Drain] \in {"exec", "commit"} => \A i \in 1..(next - 1) :
          result[batch[i]] = "err" => ~(Parts(batch[i]) \subseteq dirty \cup disk)
    /\ pc[Drain] = "respond" => \A i \in 1..(next - 1) :
          result[batch[i]] = "err" => ~(Parts(batch[i]) \subseteq disk)

AInv == ChannelInv /\ OpenInv /\ FreshInv /\ ErrInv

-----------------------------------------------------------------------------
(* Facts the steps share.                                                   *)

\* Different items have different rows, and every item has some.
LEMMA PartsApart ==
    /\ \A x \in Writes \cup Tasks : <<x, 1>> \in Parts(x)
    /\ \A x \in Compound : <<x, 2>> \in Parts(x)
    /\ \A x, y \in Writes \cup Tasks : x # y => Parts(x) \cap Parts(y) = {}
  BY DEF Parts

\* What a failed write leaves behind is some of its rows, never all.
LEMMA RemnantsPartial ==
    ASSUME NEW w, NEW rows \in Remnants(w)
    PROVE  rows \subseteq Parts(w) /\ ~(Parts(w) \subseteq rows)
  <1>1. <<w, 1>> \in Parts(w) /\ (w \in Compound => <<w, 2>> \in Parts(w))
    BY DEF Parts
  <1>2. CASE rows = {}
    BY <1>1, <1>2
  <1>3. CASE w \in Compound /\ rows = {<<w, 1>>}
    <2>1. <<w, 2>> \notin rows
      BY <1>3
    <2>. QED BY <1>1, <1>3, <2>1
  <1>. QED BY <1>2, <1>3 DEF Remnants

\* In agrees with the Range of a batch.
LEMMA InRange ==
    ASSUME NEW s \in Seq(Writes), NEW w
    PROVE  w \in Range(s) <=> In(w, s)
  BY DEF Range, In

\* What the steps need to know of the control state.
LEMMA Control ==
    ASSUME IInv
    PROVE  /\ pc \in [Actors -> Places] /\ Drain \in Actors /\ Drain \notin Tasks
           /\ held \in [Actors -> Conns \cup {NoConn}]
           /\ batch \in Seq(Writes) /\ queue \in Seq(Writes) /\ next \in Nat
           /\ client \in [Writes -> {"idle", "waiting", "ok", "err"}]
           /\ result \in [Writes -> {"none", "ok", "err"}]
           /\ Tasks \subseteq Actors
           /\ \A a \in Actors : a # Drain /\ pc[a] \in Critical => pc[Drain] \notin Critical
           /\ pc[Drain] \notin {"idle", "tx", "rollback", "done"}
           /\ \A t \in Tasks : pc[t] \in {"idle", "sem", "conn", "begin", "tx",
                                          "rollback", "done"}
  <1>1. /\ pc \in [Actors -> Places] /\ Drain \in Actors /\ Drain \notin Tasks
        /\ held \in [Actors -> Conns \cup {NoConn}]
        /\ Tasks \subseteq Actors
    BY SetAssumption DEF IInv, TypeOK, ActorTypes, Actors
  <1>2. /\ batch \in Seq(Writes) /\ queue \in Seq(Writes) /\ next \in Nat
        /\ client \in [Writes -> {"idle", "waiting", "ok", "err"}]
        /\ result \in [Writes -> {"none", "ok", "err"}]
    BY DEF IInv, TypeOK, LoopTypes, ClientTypes
  <1>3. \A a \in Actors : a # Drain /\ pc[a] \in Critical => pc[Drain] \notin Critical
    BY <1>1 DEF IInv, PermitInv, OneWriter
  <1>4. /\ pc[Drain] \notin {"idle", "tx", "rollback", "done"}
        /\ \A t \in Tasks : pc[t] \in {"idle", "sem", "conn", "begin", "tx",
                                       "rollback", "done"}
    BY DEF IInv, PermitInv
  <1>. QED BY <1>1, <1>2, <1>3, <1>4

\* The error answer: the batch is emptied and its callers, nobody else, get it.
LEMMA ErrorAnswer ==
    ASSUME IInv, TellAll("err")
    PROVE  /\ batch' = <<>>
           /\ \A w \in Writes : client'[w] = IF In(w, batch) THEN "err" ELSE client[w]
           /\ \A w \in Writes : ~In(w, batch')
  <1>1. batch \in Seq(Writes)
    BY Control
  <1>2. \A w \in Writes : w \in Range(batch) <=> In(w, batch)
    BY <1>1, InRange
  <1>. QED BY <1>2 DEF TellAll, In

\* Receiving moves the oldest writes from the channel to the batch, in order.
LEMMA ReceiveMoves ==
    ASSUME IInv, Receive
    PROVE  \E n \in 1..Len(queue) :
              /\ Len(batch') = n /\ Len(queue') = Len(queue) - n
              /\ \A i \in 1..n : batch'[i] = queue[i]
              /\ \A i \in 1..(Len(queue) - n) : queue'[i] = queue[n + i]
  <1> DEFINE n == IF Len(queue) < MaxBatch THEN Len(queue) ELSE MaxBatch
  <1>0. queue \in Seq(Writes) /\ Len(queue) \in Nat
    BY Control
  <1>1. n \in 1..Len(queue)
    BY <1>0, BoundAssumption DEF Receive
  <1>2. batch' = SubSeq(queue, 1, n) /\ queue' = SubSeq(queue, n + 1, Len(queue))
    BY DEF Receive
  <1>. HIDE DEF n
  <1>3. Len(batch') = n /\ \A i \in 1..n : batch'[i] = queue[i]
    BY <1>0, <1>1, <1>2
  <1>4. /\ Len(queue') = Len(queue) - n
        /\ \A i \in 1..(Len(queue) - n) : queue'[i] = queue[n + i]
    BY <1>0, <1>1, <1>2
  <1>. QED BY <1>1, <1>3, <1>4

-----------------------------------------------------------------------------
(* The invariant is kept.                                                   *)

\* Submitting, receiving and answering move a write along; nothing loses or
\* doubles it.
LEMMA ChannelStep ==
    ASSUME IInv, ChannelInv, [Next]_vars
    PROVE  ChannelInv'
  <1>a. /\ pc \in [Actors -> Places] /\ Drain \in Actors /\ Drain \notin Tasks
        /\ Tasks \subseteq Actors
        /\ batch \in Seq(Writes) /\ queue \in Seq(Writes)
        /\ client \in [Writes -> {"idle", "waiting", "ok", "err"}]
    BY Control
  <1>b. pc[Drain] \notin {"idle", "tx", "rollback", "done"}
    BY Control
  \* A step that leaves the writes alone keeps the loop where a batch may be.
  <1>0. ASSUME UNCHANGED <<client, queue, batch>>,
               pc'[Drain] \in {"recv", "exited"} => pc[Drain] \in {"recv", "exited"}
        PROVE  ChannelInv'
    BY <1>0 DEF ChannelInv
  \* Emptying the batch with one error for all of it.
  <1>e. ASSUME TellAll("err"), UNCHANGED queue
        PROVE  ChannelInv'
    <2>1. /\ batch' = <<>>
          /\ \A w \in Writes : client'[w] = IF In(w, batch) THEN "err" ELSE client[w]
          /\ \A w \in Writes : ~In(w, batch')
      BY <1>e, ErrorAnswer
    <2>2. Once(batch')
      BY <2>1 DEF Once
    <2>3. Once(queue') /\ \A w \in Writes : In(w, queue') <=> In(w, queue)
      BY <1>e DEF ChannelInv
    <2>. QED BY <2>1, <2>2, <2>3 DEF ChannelInv
  \* A failed BEGIN attempt of either kind.
  <1>r. ASSUME NEW a \in Actors, RetryOrFail(a) \/ GiveUp(a), UNCHANGED queue
        PROVE  ChannelInv'
    <2>1. CASE pc' = [pc EXCEPT ![a] = "conn"] /\ UNCHANGED <<client, batch>>
      BY <2>1, <1>r, <1>a, <1>0
    <2>2. CASE a = Drain /\ TellAll("err")
      BY <2>2, <1>r, <1>e
    <2>3. CASE a # Drain /\ pc' = [pc EXCEPT ![a] = "done"] /\ UNCHANGED <<client, batch>>
      BY <2>3, <1>r, <1>a, <1>0
    <2>. QED BY <1>r, <1>a, <2>1, <2>2, <2>3, RetryMoves

  <1>1. ASSUME NEW w \in Writes, Submit(w)
        PROVE  ChannelInv'
    <2>1. /\ client[w] = "idle" /\ client' = [client EXCEPT ![w] = "waiting"]
          /\ queue' = Append(queue, w) /\ UNCHANGED <<batch, pc>>
      BY <1>1 DEF Submit, loopVars
    <2>2. Len(queue') = Len(queue) + 1 /\ queue'[Len(queue) + 1] = w
      BY <2>1, <1>a
    <2>3. \A i \in 1..Len(queue) : queue'[i] = queue[i]
      BY <2>1, <1>a
    <2>4. ~In(w, queue) /\ ~In(w, batch)
      BY <2>1 DEF ChannelInv
    <2>5. \A v \in Writes : In(v, queue') <=> In(v, queue) \/ v = w
      BY <2>2, <2>3, <1>a DEF In
    <2>6. Once(queue')
      BY <2>2, <2>3, <2>4, <1>a DEF Once, In, ChannelInv
    <2>7. Once(batch') /\ \A v \in Writes : In(v, batch') <=> In(v, batch)
      BY <2>1 DEF ChannelInv
    <2>8. pc'[Drain] \in {"recv", "exited"} => batch' = <<>>
      BY <2>1 DEF ChannelInv
    <2>9. \A v \in Writes : client'[v] = IF v = w THEN "waiting" ELSE client[v]
      BY <2>1, <1>a
    <2>. QED BY <2>4, <2>5, <2>6, <2>7, <2>8, <2>9 DEF ChannelInv
  <1>2. CASE Receive
    <2>1. PICK n \in 1..Len(queue) :
              /\ Len(batch') = n /\ Len(queue') = Len(queue) - n
              /\ \A i \in 1..n : batch'[i] = queue[i]
              /\ \A i \in 1..(Len(queue) - n) : queue'[i] = queue[n + i]
      BY <1>2, ReceiveMoves
    <2>2. pc'[Drain] = "gate" /\ UNCHANGED client /\ batch = <<>>
      BY <1>2, <1>a DEF Receive, ChannelInv
    <2>3. Len(queue) \in Nat /\ Once(queue)
      BY <1>a DEF ChannelInv
    <2>4. Once(batch') /\ Once(queue')
      <3>1. Once(batch')
        BY <2>1, <2>3 DEF Once
      <3>2. ASSUME NEW i \in 1..(Len(queue) - n), NEW j \in 1..(Len(queue) - n),
                   queue'[i] = queue'[j]
            PROVE  i = j
        <4>1. n + i \in 1..Len(queue) /\ n + j \in 1..Len(queue)
          BY <2>1, <2>3
        <4>2. queue[n + i] = queue[n + j]
          BY <3>2, <2>1
        <4>3. n + i = n + j
          BY <4>1, <4>2, <2>3 DEF Once
        <4>. QED BY <4>3, <2>1
      <3>. QED BY <3>1, <3>2, <2>1 DEF Once
    <2>5. \A v \in Writes : In(v, queue) => In(v, batch') \/ In(v, queue')
      <3> SUFFICES ASSUME NEW v \in Writes, NEW i \in 1..Len(queue), queue[i] = v
                   PROVE  In(v, batch') \/ In(v, queue')
        BY DEF In
      <3>1. CASE i <= n
        BY <3>1, <2>1, <2>3 DEF In
      <3>2. CASE i > n
        <4>1. i - n \in 1..(Len(queue) - n) /\ n + (i - n) = i
          BY <3>2, <2>1, <2>3
        <4>2. queue'[i - n] = v
          BY <4>1, <2>1
        <4>. QED BY <4>1, <4>2, <2>1 DEF In
      <3>. QED BY <3>1, <3>2, <2>1, <2>3
    <2>6. \A v \in Writes : In(v, batch') \/ In(v, queue') => In(v, queue)
      BY <2>1, <2>3 DEF In
    <2>7. \A v \in Writes : ~(In(v, batch') /\ In(v, queue'))
      BY <2>1, <2>3 DEF In, Once
    <2>8. \A v \in Writes : ~In(v, batch)
      BY <2>2 DEF In
    <2>. QED BY <2>2, <2>4, <2>5, <2>6, <2>7, <2>8 DEF ChannelInv
  <1>3. CASE Respond
    <2>1. batch' = <<>> /\ UNCHANGED queue
      BY <1>3 DEF Respond
    <2>2. \A w \in Writes : w \in Range(batch) <=> In(w, batch)
      BY <1>a, InRange
    <2>3. \A i \in 1..Len(batch) : result[batch[i]] \in {"ok", "err"}
      BY <1>3, <1>a DEF Respond, IInv, BatchInv, ResultInv
    <2>4. \A w \in Writes : In(w, batch) => client'[w] \in {"ok", "err"}
      BY <1>3, <2>2, <2>3 DEF Respond, In
    <2>5. \A w \in Writes : ~In(w, batch) => client'[w] = client[w]
      BY <1>3, <2>2 DEF Respond
    <2>6. Once(batch') /\ \A w \in Writes : ~In(w, batch')
      BY <2>1 DEF Once, In
    <2>7. Once(queue') /\ \A w \in Writes : In(w, queue') <=> In(w, queue)
      BY <2>1 DEF ChannelInv
    <2>. QED BY <2>1, <2>4, <2>5, <2>6, <2>7 DEF ChannelInv
  <1>4. CASE Unwind
    BY <1>4, <1>e DEF Unwind
  <1>5. CASE CommitError
    BY <1>5, <1>e DEF CommitError
  <1>6. ASSUME NEW a \in Actors, PermitTimeout(a)
        PROVE  ChannelInv'
    <2>1. CASE a = Drain /\ TellAll("err")
      BY <2>1, <1>6, <1>e DEF PermitTimeout
    <2>2. CASE a # Drain /\ pc' = [pc EXCEPT ![a] = "done"] /\ UNCHANGED <<client, batch>>
      BY <2>2, <1>6, <1>a, <1>0 DEF PermitTimeout
    <2>. QED BY <1>6, <2>1, <2>2 DEF PermitTimeout, Fail
  <1>7. ASSUME NEW a \in Actors, ConnError(a)
        PROVE  ChannelInv'
    BY <1>7, <1>r DEF ConnError
  <1>8. ASSUME NEW a \in Actors, BeginNested(a)
        PROVE  ChannelInv'
    BY <1>8, <1>r DEF BeginNested
  <1>9. ASSUME NEW a \in Actors, BeginBusy(a)
        PROVE  ChannelInv'
    BY <1>9, <1>r DEF BeginBusy
  <1>10. ASSUME NEW a \in Actors, BeginBroken(a)
         PROVE  ChannelInv'
    BY <1>10, <1>r DEF BeginBroken
  \* Every other step leaves the callers, the channel and the batch alone.
  <1>11. CASE Exit
    BY <1>11, <1>a, <1>0 DEF Exit, clientVars, loopVars
  <1>12. CASE Gate
    BY <1>12, <1>a, <1>0 DEF Gate, clientVars, loopVars
  <1>13. CASE Park
    BY <1>13, <1>a, <1>0 DEF Park, clientVars, loopVars
  <1>14. CASE ParkTimeout
    BY <1>14, <1>a, <1>0 DEF ParkTimeout, clientVars, loopVars
  <1>15. CASE ResumeNotify
    BY <1>15, <1>a, <1>0 DEF ResumeNotify, clientVars, loopVars
  <1>16. CASE ExecOk
    BY <1>16, <1>a, <1>0 DEF ExecOk, Record, clientVars
  <1>17. CASE ExecRowError
    BY <1>17, <1>a, <1>0 DEF ExecRowError, Record, clientVars
  <1>sw. CASE ExecSwallowed
    BY <1>sw, <1>a, <1>0 DEF ExecSwallowed, Record, clientVars
  <1>18. CASE ExecImplicitRollback
    BY <1>18, <1>a, <1>0 DEF ExecImplicitRollback, Record, clientVars
  <1>19. CASE ExecFatal
    BY <1>19, <1>a, <1>0 DEF ExecFatal, clientVars, loopVars
  <1>20. CASE CommitOk
    BY <1>20, <1>a, <1>0 DEF CommitOk, clientVars, loopVars
  <1>21. ASSUME NEW a \in Actors, TakePermit(a) \/ GetConn(a) \/ BeginOk(a)
         PROVE  ChannelInv'
    BY <1>21, <1>a, <1>0 DEF TakePermit, GetConn, BeginOk, clientVars, loopVars
  <1>22. ASSUME NEW t \in Tasks, AskTx(t) \/ TxStep(t) \/ TxCancel(t)
         PROVE  ChannelInv'
    BY <1>22, <1>a, <1>0 DEF AskTx, TxStep, TxCommit, TxDrop, TxRollback, TxCancel,
       clientVars, loopVars
  <1>23. CASE UNCHANGED <<client, queue, batch, pc>>
    BY <1>23, <1>0
  <1>. QED BY <1>sw, <1>1, <1>2, <1>3, <1>4, <1>5, <1>6, <1>7, <1>8, <1>9, <1>10,
    <1>11, <1>12, <1>13, <1>14, <1>15, <1>16, <1>17, <1>18, <1>19, <1>20,
    <1>21, <1>22, <1>23 DEF Next, DrainStep, Begin, Wake, Finished, vars,
    clientVars, loopVars, DropHandles, WillSleep, DidWake, ResumeStore

\* The drain loop works inside its transaction, which nobody else touches.
LEMMA OpenStep ==
    ASSUME IInv, OpenInv, "full" \notin Faults, [Next]_vars
    PROVE  OpenInv'
  <1>a. /\ pc \in [Actors -> Places] /\ Drain \in Actors /\ Drain \notin Tasks
        /\ Tasks \subseteq Actors
        /\ held \in [Actors -> Conns \cup {NoConn}]
        /\ batch \in Seq(Writes) /\ next \in Nat
    BY Control
  <1>b. \A a \in Actors : a # Drain /\ pc[a] \in Critical => pc[Drain] \notin Critical
    BY Control
  <1>c. pc[Drain] \notin {"idle", "tx", "rollback", "done"}
    BY Control
  <1>d. pc[Drain] \notin {"exec", "commit", "unwind"} => dirty = {}
    BY DEF OpenInv
  \* Outside the transaction there is nothing to show, as long as dirty is empty.
  <1>0. ASSUME pc'[Drain] \notin {"exec", "commit"}, dirty' = {}
        PROVE  OpenInv'
    BY <1>0 DEF OpenInv
  \* Inside, a step that leaves transaction and batch alone.
  <1>s. ASSUME UNCHANGED <<pc, inTx, dirty, batch, next, held>>
        PROVE  OpenInv'
    BY <1>s DEF OpenInv
  \* The error return of anyone who stands before the drain loop's transaction.
  <1>r. ASSUME NEW a \in Actors, pc[a] \in {"sem", "conn", "begin"},
               \/ pc' = [pc EXCEPT ![a] = "conn"]
               \/ pc' = [pc EXCEPT ![a] = IF a = Drain THEN "recv" ELSE "done"],
               pc[a] = "sem" => a = Drain,
               dirty' \subseteq dirty
        PROVE  OpenInv'
    BY <1>r, <1>a, <1>b, <1>d, <1>0 DEF Critical

  <1>1. CASE ExecOk
    <2>1. /\ pc[Drain] = "exec" /\ held[Drain] \in inTx /\ next \in 1..Len(batch)
      BY <1>1 DEF ExecOk, OpenInv, IInv, BatchInv
    <2>2. /\ dirty' = dirty \cup Parts(batch[next]) /\ next' = next + 1
          /\ pc'[Drain] \in {"exec", "commit"}
          /\ UNCHANGED <<batch, held, inTx>>
      BY <1>1, <1>a, <2>1 DEF ExecOk, Put, Record, Current
    <2>. QED BY <2>1, <2>2, <1>a DEF OpenInv
  <1>2. CASE ExecRowError
    <2>1. /\ pc[Drain] = "exec" /\ held[Drain] \in inTx /\ next \in 1..Len(batch)
      BY <1>2 DEF ExecRowError, OpenInv, IInv, BatchInv
    <2>2. /\ next' = next + 1 /\ pc'[Drain] \in {"exec", "commit"}
          /\ UNCHANGED <<batch, held, inTx>>
      BY <1>2, <1>a, <2>1 DEF ExecRowError, Record
    <2>3. \A r \in dirty' : r \in dirty \/ r \in Parts(batch[next])
      BY <1>2, <2>1 DEF ExecRowError, Remnants, Put, Current, Parts
    <2>. QED BY <2>1, <2>2, <2>3, <1>a DEF OpenInv
  <1>sw. CASE ExecSwallowed
    <2>1. /\ pc[Drain] = "exec" /\ held[Drain] \in inTx /\ next \in 1..Len(batch)
      BY <1>sw DEF ExecSwallowed, OpenInv, IInv, BatchInv
    <2>2. /\ next' = next + 1 /\ pc'[Drain] \in {"exec", "commit"}
          /\ UNCHANGED <<batch, held, inTx>>
      BY <1>sw, <1>a, <2>1 DEF ExecSwallowed, Record
    <2>3. \A r \in dirty' : r \in dirty \/ r \in Parts(batch[next])
      BY <1>sw, <2>1 DEF ExecSwallowed, Remnants, Put, Current, Parts
    <2>. QED BY <2>1, <2>2, <2>3, <1>a DEF OpenInv
  <1>3. CASE ExecImplicitRollback
    BY <1>3 DEF ExecImplicitRollback
  <1>4. CASE ExecFatal
    <2>1. pc'[Drain] = "unwind" /\ UNCHANGED <<batch, next, held>>
      BY <1>4, <1>a DEF ExecFatal, loopVars
    <2>2. CASE Abort(Drain)
      BY <1>4, <2>1, <2>2, <1>0 DEF ExecFatal, Abort, OpenInv
    <2>3. CASE UNCHANGED <<inTx, dirty>>
      BY <1>4, <2>1, <2>3 DEF ExecFatal, OpenInv
    <2>. QED BY <1>4, <2>2, <2>3 DEF ExecFatal
  <1>5. CASE Unwind
    BY <1>5, <1>a, <1>0 DEF Unwind, Abort, EndBatch, OpenInv
  <1>6. CASE CommitOk
    BY <1>6, <1>a, <1>0 DEF CommitOk
  <1>7. CASE CommitError
    BY <1>7, <1>a, <1>0 DEF CommitError, Abort, EndBatch, OpenInv
  <1>8. CASE Respond
    BY <1>8, <1>a, <1>d, <1>0 DEF Respond, EndBatch, sqlVars
  <1>9. ASSUME NEW a \in Actors, BeginOk(a)
        PROVE  OpenInv'
    <2>1. dirty = {} /\ UNCHANGED <<dirty, held>>
      BY <1>9, <1>a, <1>b, <1>d DEF BeginOk, Critical
    <2>2. CASE a = Drain
      BY <2>1, <2>2, <1>9, <1>a DEF BeginOk, OpenInv
    <2>3. CASE a # Drain
      BY <2>1, <2>3, <1>9, <1>a, <1>b, <1>0 DEF BeginOk, Critical
    <2>. QED BY <2>2, <2>3
  <1>10. ASSUME NEW a \in Actors, ConnError(a)
         PROVE  OpenInv'
    BY <1>10, <1>a, <1>r, RetryMoves DEF ConnError, sqlVars
  <1>11. ASSUME NEW a \in Actors, BeginNested(a)
         PROVE  OpenInv'
    BY <1>11, <1>a, <1>r, RetryMoves DEF BeginNested, Abort
  <1>12. ASSUME NEW a \in Actors, BeginBusy(a)
         PROVE  OpenInv'
    BY <1>12, <1>a, <1>r, RetryMoves DEF BeginBusy, sqlVars
  <1>13. ASSUME NEW a \in Actors, BeginBroken(a)
         PROVE  OpenInv'
    BY <1>13, <1>a, <1>r, RetryMoves DEF BeginBroken, Abort
  <1>14. ASSUME NEW a \in Actors, PermitTimeout(a)
         PROVE  OpenInv'
    <2>1. CASE a = Drain
      BY <2>1, <1>14, <1>a, <1>r, FailMoves DEF PermitTimeout, sqlVars
    <2>2. CASE a # Drain
      BY <2>2, <1>14, <1>a, FailMoves DEF PermitTimeout, sqlVars, OpenInv
    <2>. QED BY <2>1, <2>2
  <1>15. ASSUME NEW a \in Actors, TakePermit(a)
         PROVE  OpenInv'
    BY <1>15, <1>a DEF TakePermit, loopVars, sqlVars, OpenInv
  <1>16. ASSUME NEW a \in Actors, GetConn(a)
         PROVE  OpenInv'
    BY <1>16, <1>a, <1>b, <1>d, <1>0 DEF GetConn, sqlVars, Critical
  <1>17. ASSUME NEW t \in Tasks, TxCommit(t) \/ TxDrop(t) \/ TxRollback(t) \/ TxCancel(t)
         PROVE  OpenInv'
    <2>1. pc[t] \in Critical /\ t # Drain /\ t \in Actors
      BY <1>17, <1>a DEF TxCommit, TxDrop, TxRollback, TxCancel, Critical
    <2>2. pc[Drain] \notin Critical /\ pc'[Drain] = pc[Drain]
      BY <1>17, <2>1, <1>a, <1>b DEF TxCommit, TxDrop, TxRollback, TxCancel
    <2>3. dirty' \subseteq dirty
      BY <1>17 DEF TxCommit, TxDrop, TxRollback, TxCancel, Abort, sqlVars
    <2>. QED BY <2>2, <2>3, <1>d, <1>0 DEF Critical
  <1>18. ASSUME NEW t \in Tasks, AskTx(t)
         PROVE  OpenInv'
    BY <1>18, <1>a, <1>c DEF AskTx, loopVars, sqlVars, OpenInv
  \* The loop's steps before it takes the permit.
  <1>19. CASE Receive \/ Exit \/ Gate \/ Park \/ ParkTimeout
    <2>1. pc[Drain] \notin {"exec", "commit", "unwind"} /\ UNCHANGED dirty
      BY <1>19, <1>a DEF Receive, Exit, Gate, Park, ParkTimeout, sqlVars
    <2>2. pc'[Drain] \notin {"exec", "commit"}
      BY <1>19, <1>a DEF Receive, Exit, Gate, Park, ParkTimeout
    <2>. QED BY <2>1, <2>2, <1>d, <1>0
  <1>20. CASE ResumeNotify
    BY <1>20, <1>a DEF ResumeNotify, loopVars, sqlVars, OpenInv
  <1>21. CASE UNCHANGED <<pc, inTx, dirty, batch, next, held>>
    BY <1>21, <1>s
  <1>. QED BY <1>sw, <1>1, <1>2, <1>3, <1>4, <1>5, <1>6, <1>7, <1>8, <1>9, <1>10,
    <1>11, <1>12, <1>13, <1>14, <1>15, <1>16, <1>17, <1>18, <1>19, <1>20,
    <1>21 DEF Next, DrainStep, Begin, TxStep, Wake, Finished, vars,
    clientVars, loopVars, sqlVars, gateVars, Submit, DropHandles, WillSleep,
    DidWake, ResumeStore

\* A statement of the open transaction leaves the disk alone.
LEMMA PutInside ==
    ASSUME NEW rows, OpenInv, pc[Drain] = "exec", Put(rows)
    PROVE  dirty' = dirty \cup rows /\ UNCHANGED disk
  BY DEF Put, OpenInv

\* Only the COMMIT of the batch makes rows of its writes durable.
LEMMA FreshStep ==
    ASSUME IInv, ChannelInv, OpenInv, FreshInv, [Next]_vars
    PROVE  FreshInv'
  <1>a. /\ pc \in [Actors -> Places] /\ Drain \in Actors /\ Drain \notin Tasks
        /\ Tasks \subseteq Actors
        /\ batch \in Seq(Writes) /\ queue \in Seq(Writes)
        /\ client \in [Writes -> {"idle", "waiting", "ok", "err"}]
    BY Control
  <1>b. \A a \in Actors : a # Drain /\ pc[a] \in Critical => pc[Drain] \notin Critical
    BY Control
  \* While no batch awaits its answers, no unanswered write has rows.
  <1>0. ASSUME pc[Drain] # "respond", UNCHANGED disk,
               \A w \in Writes : client'[w] \in {"idle", "waiting"}
                                    => client[w] \in {"idle", "waiting"}
        PROVE  FreshInv'
    BY <1>0 DEF FreshInv
  \* A step of somebody else.
  <1>s. ASSUME UNCHANGED <<disk, client, batch>>, pc'[Drain] = pc[Drain]
        PROVE  FreshInv'
    BY <1>s DEF FreshInv
  <1>e. ASSUME pc[Drain] # "respond", UNCHANGED disk,
               TellAll("err") \/ UNCHANGED <<client, batch>>
        PROVE  FreshInv'
    <2>1. CASE TellAll("err")
      BY <2>1, <1>e, <1>0, ErrorAnswer
    <2>. QED BY <2>1, <1>e, <1>0
  \* The end of a failed BEGIN attempt, or of the wait for the permit.
  <1>r. ASSUME NEW a \in Actors, pc[a] \in {"sem", "conn", "begin"}, UNCHANGED disk,
               RetryOrFail(a) \/ GiveUp(a) \/ Fail(a)
        PROVE  FreshInv'
    <2>1. CASE a = Drain
      BY <2>1, <1>r, <1>e DEF RetryOrFail, GiveUp, Fail
    <2>2. CASE a # Drain
      <3>1. UNCHANGED <<client, batch>> /\ pc'[Drain] = pc[Drain]
        BY <2>2, <1>r, <1>a DEF RetryOrFail, GiveUp, Fail
      <3>. QED BY <3>1, <1>r, <1>s
    <2>. QED BY <2>1, <2>2

  <1>1. ASSUME NEW w \in Writes, Submit(w)
        PROVE  FreshInv'
    <2>1. /\ client[w] = "idle" /\ client' = [client EXCEPT ![w] = "waiting"]
          /\ UNCHANGED <<batch, pc, disk>>
      BY <1>1 DEF Submit, loopVars, sqlVars
    <2>2. \A v \in Writes : client'[v] \in {"idle", "waiting"}
                               => client[v] \in {"idle", "waiting"}
      BY <2>1, <1>a
    <2>. QED BY <2>1, <2>2 DEF FreshInv
  <1>2. CASE Respond
    <2>1. /\ pc[Drain] = "respond" /\ UNCHANGED disk
          /\ client' = [w \in Writes |-> IF w \in Range(batch) THEN result[w]
                                                               ELSE client[w]]
      BY <1>2 DEF Respond, sqlVars
    <2>2. \A w \in Writes : w \in Range(batch) <=> In(w, batch)
      BY <1>a, InRange
    <2>3. \A i \in 1..Len(batch) : result[batch[i]] \in {"ok", "err"}
      BY <2>1, <1>a DEF IInv, BatchInv, ResultInv
    <2>4. \A w \in Writes : client'[w] \in {"idle", "waiting"}
                               => ~In(w, batch) /\ client[w] = client'[w]
      BY <2>1, <2>2, <2>3 DEF In
    <2>. QED BY <2>1, <2>4 DEF FreshInv
  <1>3. CASE CommitOk
    <2>1. /\ pc[Drain] = "commit" /\ pc'[Drain] = "respond" /\ disk' = disk \cup dirty
          /\ UNCHANGED <<client, batch>>
      BY <1>3, <1>a DEF CommitOk, clientVars, loopVars
    <2>2. ASSUME NEW w \in Writes, NEW r \in dirty, r \in Parts(w)
          PROVE  In(w, batch)
      <3>1. PICK i \in 1..Len(batch) : r \in Parts(batch[i])
        BY DEF OpenInv
      <3>2. batch[i] \in Writes
        BY <1>a
      <3>3. batch[i] = w
        BY <2>2, <3>1, <3>2, PartsApart
      <3>. QED BY <3>3 DEF In
    <2>3. \A w \in Writes : client[w] \in {"idle", "waiting"} => Parts(w) \cap disk = {}
      BY <2>1 DEF FreshInv
    <2>. QED BY <2>1, <2>2, <2>3 DEF FreshInv
  <1>4. ASSUME NEW t \in Tasks, TxCommit(t)
        PROVE  FreshInv'
    <2>1. /\ disk' = disk \cup Parts(t) /\ UNCHANGED <<client, batch>>
          /\ pc' = [pc EXCEPT ![t] = "done"]
      BY <1>4 DEF TxCommit, clientVars, loopVars
    <2>2. pc'[Drain] = pc[Drain]
      BY <2>1, <1>a
    <2>3. \A w \in Writes : Parts(w) \cap Parts(t) = {}
      BY PartsApart, SetAssumption
    <2>. QED BY <2>1, <2>2, <2>3 DEF FreshInv
  <1>5. CASE ExecOk
    <2>1. pc[Drain] = "exec" /\ UNCHANGED disk
      BY <1>5, PutInside DEF ExecOk
    <2>. QED BY <1>5, <2>1, <1>e DEF ExecOk, clientVars
  <1>6. CASE ExecRowError
    <2>1. pc[Drain] = "exec" /\ UNCHANGED disk
      BY <1>6, PutInside DEF ExecRowError
    <2>. QED BY <1>6, <2>1, <1>e DEF ExecRowError, clientVars
  <1>sw. CASE ExecSwallowed
    <2>1. pc[Drain] = "exec" /\ UNCHANGED disk
      BY <1>sw, PutInside DEF ExecSwallowed
    <2>. QED BY <1>sw, <2>1, <1>e DEF ExecSwallowed, clientVars
  <1>7. CASE ExecImplicitRollback
    BY <1>7, <1>e DEF ExecImplicitRollback, clientVars
  <1>8. CASE ExecFatal
    BY <1>8, <1>e DEF ExecFatal, clientVars, loopVars
  <1>9. CASE Unwind
    BY <1>9, <1>e DEF Unwind
  <1>10. CASE CommitError
    BY <1>10, <1>e DEF CommitError
  <1>11. ASSUME NEW a \in Actors, PermitTimeout(a)
         PROVE  FreshInv'
    BY <1>11, <1>r DEF PermitTimeout, sqlVars
  <1>12. ASSUME NEW a \in Actors, ConnError(a)
         PROVE  FreshInv'
    BY <1>12, <1>r DEF ConnError, sqlVars
  <1>13. ASSUME NEW a \in Actors, BeginNested(a)
         PROVE  FreshInv'
    BY <1>13, <1>r DEF BeginNested
  <1>14. ASSUME NEW a \in Actors, BeginBusy(a)
         PROVE  FreshInv'
    BY <1>14, <1>r DEF BeginBusy, sqlVars
  <1>15. ASSUME NEW a \in Actors, BeginBroken(a)
         PROVE  FreshInv'
    BY <1>15, <1>r DEF BeginBroken
  <1>16. CASE Receive \/ Exit \/ Gate \/ Park \/ ParkTimeout
    <2>1. pc[Drain] # "respond" /\ UNCHANGED <<disk, client>>
      BY <1>16 DEF Receive, Exit, Gate, Park, ParkTimeout, clientVars, sqlVars
    <2>. QED BY <2>1, <1>0
  <1>17. CASE ResumeNotify
    BY <1>17, <1>a DEF ResumeNotify, clientVars, loopVars, sqlVars, FreshInv
  <1>18. ASSUME NEW a \in Actors, TakePermit(a) \/ GetConn(a) \/ BeginOk(a)
         PROVE  FreshInv'
    <2>1. pc[a] \in {"sem", "conn", "begin"} /\ UNCHANGED <<disk, client, batch>>
      BY <1>18 DEF TakePermit, GetConn, BeginOk, clientVars, loopVars, sqlVars
    <2>2. CASE a = Drain
      BY <2>1, <2>2, <1>e
    <2>3. CASE a # Drain
      BY <2>1, <2>3, <1>18, <1>a, <1>s DEF TakePermit, GetConn, BeginOk
    <2>. QED BY <2>2, <2>3
  <1>19. ASSUME NEW t \in Tasks, AskTx(t) \/ TxDrop(t) \/ TxRollback(t) \/ TxCancel(t)
         PROVE  FreshInv'
    BY <1>19, <1>a, <1>s DEF AskTx, TxDrop, TxRollback, TxCancel, clientVars,
       loopVars, sqlVars
  <1>20. CASE UNCHANGED <<pc, client, batch, disk>>
    BY <1>20 DEF FreshInv
  <1>. QED BY <1>sw, <1>1, <1>2, <1>3, <1>4, <1>5, <1>6, <1>7, <1>8, <1>9, <1>10,
    <1>11, <1>12, <1>13, <1>14, <1>15, <1>16, <1>17, <1>18, <1>19, <1>20
    DEF Next, DrainStep, Begin, TxStep, Wake, Finished, vars,
    clientVars, loopVars, sqlVars, gateVars, DropHandles, WillSleep,
    DidWake, ResumeStore

\* What a statement of the current write adds belongs to no other write, and the
\* current write has nothing stored before it runs.
LEMMA CurrentFresh ==
    ASSUME IInv, ChannelInv, OpenInv, FreshInv, pc[Drain] = "exec"
    PROVE  /\ next \in 1..Len(batch) /\ batch[next] \in Writes
           /\ Parts(batch[next]) \cap (dirty \cup disk) = {}
           /\ \A i \in 1..(next - 1) :
                 /\ batch[i] \in Writes /\ batch[i] # batch[next]
                 /\ Parts(batch[i]) \cap Parts(batch[next]) = {}
  <1>1. /\ next \in 1..Len(batch) /\ batch \in Seq(Writes) /\ next \in Nat
    BY Control DEF IInv, BatchInv
  <1>2. \A i \in 1..Len(batch) : batch[i] \in Writes
    BY <1>1
  <1>3. \A i \in 1..(next - 1) : i \in 1..Len(batch) /\ i # next
    BY <1>1
  <1>4. \A i \in 1..(next - 1) : batch[i] # batch[next]
    BY <1>1, <1>3 DEF ChannelInv, Once
  <1>5. \A i \in 1..(next - 1) : Parts(batch[i]) \cap Parts(batch[next]) = {}
    BY <1>1, <1>2, <1>3, <1>4, PartsApart
  <1>6. Parts(batch[next]) \cap dirty = {}
    <2> SUFFICES ASSUME NEW r \in dirty PROVE r \notin Parts(batch[next])
      OBVIOUS
    <2>1. PICK i \in 1..Len(batch) : i < next /\ r \in Parts(batch[i])
      BY DEF OpenInv
    <2>2. i \in 1..(next - 1)
      BY <2>1, <1>1
    <2>. QED BY <2>1, <2>2, <1>5
  <1>7. Parts(batch[next]) \cap disk = {}
    <2>1. In(batch[next], batch)
      BY <1>1 DEF In
    <2>2. client[batch[next]] = "waiting"
      BY <2>1, <1>1, <1>2 DEF ChannelInv
    <2>. QED BY <2>2, <1>1, <1>2 DEF FreshInv
  <1>. QED BY <1>1, <1>2, <1>3, <1>4, <1>5, <1>6, <1>7

\* A write that failed leaves at most its first statement's row behind.
LEMMA ErrStep ==
    ASSUME IInv, ChannelInv, OpenInv, FreshInv, ErrInv, "full" \notin Faults,
           [Next]_vars
    PROVE  ErrInv'
  <1>a. /\ pc \in [Actors -> Places] /\ Drain \in Actors /\ Drain \notin Tasks
        /\ Tasks \subseteq Actors
        /\ batch \in Seq(Writes) /\ next \in Nat
        /\ result \in [Writes -> {"none", "ok", "err"}]
    BY Control
  <1>b. \A a \in Actors : a # Drain /\ pc[a] \in Critical => pc[Drain] \notin Critical
    BY Control
  \* Outside exec, commit and respond there is nothing to show.
  <1>0. ASSUME pc'[Drain] \notin {"exec", "commit", "respond"}
        PROVE  ErrInv'
    BY <1>0 DEF ErrInv
  <1>s. ASSUME UNCHANGED <<batch, next, result, dirty, disk>>, pc'[Drain] = pc[Drain]
        PROVE  ErrInv'
    BY <1>s DEF ErrInv
  <1>r. ASSUME NEW a \in Actors, RetryOrFail(a) \/ GiveUp(a),
               pc[a] \in {"conn", "begin"}
        PROVE  ErrInv'
    <2>1. CASE a = Drain
      BY <2>1, <1>r, <1>a, <1>0 DEF RetryOrFail, GiveUp, Fail
    <2>2. CASE a # Drain
      BY <2>2, <1>r, <1>a, <1>b, <1>0 DEF RetryOrFail, GiveUp, Fail, Critical
    <2>. QED BY <2>1, <2>2
  \* A statement that ran: rows of the current write, and its result.
  <1>p. ASSUME NEW rows, NEW answer \in {"ok", "err"}, pc[Drain] = "exec",
               rows \subseteq Parts(batch[next]), Put(rows), Record(answer),
               answer = "err" => ~(Parts(batch[next]) \subseteq rows),
               UNCHANGED batch
        PROVE  ErrInv'
    <2>1. /\ next \in 1..Len(batch) /\ batch[next] \in Writes
          /\ Parts(batch[next]) \cap (dirty \cup disk) = {}
          /\ \A i \in 1..(next - 1) :
                /\ batch[i] \in Writes /\ batch[i] # batch[next]
                /\ Parts(batch[i]) \cap Parts(batch[next]) = {}
      BY <1>p, CurrentFresh
    <2>2. /\ dirty' = dirty \cup rows /\ UNCHANGED <<disk, batch>> /\ next' = next + 1
      BY <1>p, PutInside DEF Record
    <2>3. pc'[Drain] \in {"exec", "commit"}
      BY <1>p, <1>a DEF Record
    <2>4. result'[batch[next]] = answer
      BY <1>p, <1>a, <2>1 DEF Record, Current
    <2>5. \A i \in 1..(next - 1) : result'[batch[i]] = result[batch[i]]
      BY <1>p, <1>a, <2>1 DEF Record, Current
    <2>6. \A i \in 1..(next - 1) :
             result'[batch[i]] = "err" => ~(Parts(batch[i]) \subseteq dirty' \cup disk')
      BY <1>p, <2>1, <2>2, <2>5 DEF ErrInv
    <2>7. answer = "err" => ~(Parts(batch[next]) \subseteq dirty' \cup disk')
      BY <1>p, <2>1, <2>2
    <2>8. \A i \in 1..(next' - 1) : i \in 1..(next - 1) \/ i = next
      BY <2>1, <2>2
    <2>9. \A i \in 1..(next' - 1) :
             result'[batch'[i]] = "err" => ~(Parts(batch'[i]) \subseteq dirty' \cup disk')
      BY <2>2, <2>4, <2>6, <2>7, <2>8
    <2>. QED BY <2>3, <2>9 DEF ErrInv

  <1>1. CASE ExecOk
    BY <1>1, <1>p DEF ExecOk, Current
  <1>2. CASE ExecRowError
    <2>1. PICK rows \in Remnants(Current) : Put(rows)
      BY <1>2 DEF ExecRowError
    <2>2. PICK answer \in FailureAnswers(Current) : Record(answer)
      BY <1>2 DEF ExecRowError
    <2>3. pc[Drain] = "exec" /\ UNCHANGED batch /\ answer \in {"ok", "err"}
      BY <1>2, <2>2 DEF ExecRowError, FailureAnswers
    <2>4. rows \subseteq Parts(batch[next]) /\ ~(Parts(batch[next]) \subseteq rows)
      BY <2>1, <2>3, RemnantsPartial DEF Current
    <2>. QED BY <2>1, <2>2, <2>3, <2>4, <1>p
  <1>sw. CASE ExecSwallowed
    <2>1. PICK rows \in Remnants(Current) : Put(rows)
      BY <1>sw DEF ExecSwallowed
    <2>2. pc[Drain] = "exec" /\ Record("ok") /\ UNCHANGED batch
      BY <1>sw DEF ExecSwallowed
    <2>3. rows \subseteq Parts(batch[next]) /\ ~(Parts(batch[next]) \subseteq rows)
      BY <2>1, <2>2, RemnantsPartial DEF Current
    <2>. QED BY <2>1, <2>2, <2>3, <1>p
  <1>3. CASE ExecImplicitRollback
    BY <1>3 DEF ExecImplicitRollback
  <1>4. CASE ExecFatal
    BY <1>4, <1>a, <1>0 DEF ExecFatal
  <1>5. CASE Unwind \/ CommitError \/ Respond
    BY <1>5, <1>a, <1>0 DEF Unwind, CommitError, Respond, EndBatch
  <1>6. CASE CommitOk
    <2>1. /\ pc[Drain] = "commit" /\ disk' = disk \cup dirty /\ pc'[Drain] = "respond"
          /\ UNCHANGED <<batch, next, result>>
      BY <1>6, <1>a DEF CommitOk, loopVars
    <2>. QED BY <2>1 DEF ErrInv
  <1>7. ASSUME NEW a \in Actors, BeginOk(a)
        PROVE  ErrInv'
    <2>1. CASE a = Drain
      <3>1. next' = 1 /\ pc'[Drain] = "exec"
        BY <2>1, <1>7, <1>a DEF BeginOk, loopVars, IInv, BatchInv
      <3>. QED BY <3>1 DEF ErrInv
    <2>2. CASE a # Drain
      BY <2>2, <1>7, <1>a, <1>b, <1>0 DEF BeginOk, Critical
    <2>. QED BY <2>1, <2>2
  <1>8. ASSUME NEW a \in Actors, ConnError(a) \/ BeginNested(a) \/ BeginBusy(a)
                                   \/ BeginBroken(a)
        PROVE  ErrInv'
    BY <1>8, <1>r DEF ConnError, BeginNested, BeginBusy, BeginBroken
  <1>9. ASSUME NEW a \in Actors, PermitTimeout(a)
        PROVE  ErrInv'
    <2>1. CASE a = Drain
      BY <2>1, <1>9, <1>a, <1>0 DEF PermitTimeout, Fail
    <2>2. CASE a # Drain
      BY <2>2, <1>9, <1>a, <1>s DEF PermitTimeout, Fail, sqlVars
    <2>. QED BY <2>1, <2>2
  <1>10. ASSUME NEW a \in Actors, TakePermit(a) \/ GetConn(a)
         PROVE  ErrInv'
    <2>1. CASE a = Drain
      BY <2>1, <1>10, <1>a, <1>0 DEF TakePermit, GetConn
    <2>2. CASE a # Drain
      BY <2>2, <1>10, <1>a, <1>s DEF TakePermit, GetConn, sqlVars, loopVars
    <2>. QED BY <2>1, <2>2
  <1>11. ASSUME NEW t \in Tasks, TxStep(t) \/ TxCancel(t)
         PROVE  ErrInv'
    <2>1. pc[t] \in Critical /\ t # Drain /\ t \in Actors
      BY <1>11, <1>a DEF TxStep, TxCommit, TxDrop, TxRollback, TxCancel, Critical
    <2>2. pc[Drain] \notin Critical /\ pc'[Drain] = pc[Drain]
      BY <1>11, <2>1, <1>a, <1>b DEF TxStep, TxCommit, TxDrop, TxRollback, TxCancel
    <2>. QED BY <2>2, <1>0 DEF Critical
  <1>12. ASSUME NEW t \in Tasks, AskTx(t)
         PROVE  ErrInv'
    BY <1>12, <1>a, <1>s DEF AskTx, loopVars, sqlVars
  <1>13. CASE Receive \/ Exit \/ Gate \/ Park \/ ParkTimeout
    BY <1>13, <1>a, <1>0 DEF Receive, Exit, Gate, Park, ParkTimeout
  <1>14. CASE ResumeNotify
    BY <1>14, <1>a, <1>0, <1>s DEF ResumeNotify, loopVars, sqlVars
  <1>15. CASE UNCHANGED <<pc, batch, next, result, dirty, disk>>
    BY <1>15, <1>s
  <1>. QED BY <1>sw, <1>1, <1>2, <1>3, <1>4, <1>5, <1>6, <1>7, <1>8, <1>9, <1>10,
    <1>11, <1>12, <1>13, <1>14, <1>15 DEF Next, DrainStep, Begin, Wake,
    Finished, vars, clientVars, loopVars, sqlVars, gateVars, Submit,
    DropHandles, WillSleep, DidWake, ResumeStore

-----------------------------------------------------------------------------
(* The refinement.                                                          *)

LEMMA InitAInv == Init => AInv
  <1> SUFFICES ASSUME Init PROVE AInv
    OBVIOUS
  <1>1. Len(queue) = 0 /\ Len(batch) = 0 /\ batch = <<>>
    BY DEF Init
  <1>2. \A w \in Writes : ~In(w, queue) /\ ~In(w, batch) /\ client[w] = "idle"
    BY <1>1 DEF In, Init
  <1>3. Once(queue) /\ Once(batch)
    BY <1>1 DEF Once
  <1>4. pc[Drain] = "recv" /\ dirty = {} /\ disk = {}
    BY DEF Init, Actors
  <1>. QED BY <1>1, <1>2, <1>3, <1>4 DEF AInv, ChannelInv, OpenInv, FreshInv, ErrInv

\* AInv is inductive, with what WriteQueue_proofs has shown.
THEOREM AnswerInvariant ==
    ASSUME "full" \notin Faults
    PROVE  Spec => []AInv
  <1>1. IInv /\ AInv /\ [Next]_vars => AInv'
    BY ChannelStep, OpenStep, FreshStep, ErrStep DEF AInv
  <1>. QED BY InitAInv, Invariance, <1>1, PTL DEF Spec

\* recv_many, send_error_to_all and the responses together lose no submission,
\* whatever SQLite does: a caller that waits has its write in the channel or in
\* the batch, once.
THEOREM NothingLost == Spec => []ChannelInv
  <1>1. Init => ChannelInv
    BY InitAInv DEF AInv
  <1>2. IInv /\ ChannelInv /\ [Next]_vars => ChannelInv'
    BY ChannelStep
  <1>. QED BY <1>1, <1>2, Invariance, PTL DEF Spec

\* execute_batch makes no row of an unanswered write durable before its COMMIT.
THEOREM CommitFirst ==
    ASSUME "full" \notin Faults
    PROVE  Spec => []NothingEarly
  <1>1. IInv /\ AInv => NothingEarly
    BY Control, InRange DEF AInv, FreshInv, NothingEarly
  <1>. QED BY AnswerInvariant, Invariance, <1>1, PTL

\* No write is kept while it waits, except in the batch being answered.
LEMMA WaitingNotKept ==
    ASSUME AInv, NEW w \in Writes, client[w] = "waiting", pc[Drain] # "respond"
    PROVE  w \notin Kept
  BY PartsApart DEF AInv, FreshInv, Kept

\* A batch write is a waiting write.
LEMMA BatchWaits ==
    ASSUME IInv, AInv
    PROVE  /\ Range(batch) \in SUBSET Writes
           /\ \A w \in Writes : w \in Range(batch) => client[w] = "waiting"
  <1>1. batch \in Seq(Writes)
    BY Control
  <1>2. \A w \in Writes : w \in Range(batch) <=> In(w, batch)
    BY <1>1, InRange
  <1>3. Range(batch) \in SUBSET Writes
    BY <1>1 DEF Range
  <1>. QED BY <1>2, <1>3 DEF AInv, ChannelInv

\* An unchanged disk keeps what it keeps.
LEMMA KeptStays ==
    ASSUME \A w \in Writes : Parts(w) \subseteq disk' <=> Parts(w) \subseteq disk
    PROVE  UNCHANGED Kept
  BY DEF Kept, Strict

\* Where the answers stay, or change from "idle" to "waiting", nothing is told.
LEMMA ToldStays ==
    ASSUME \A w \in Writes : client'[w] = client[w]
                                \/ (client[w] = "idle" /\ client'[w] = "waiting")
    PROVE  UNCHANGED Told
  BY DEF Told, Strict

\* Answering the batch: Answer, of the store, for the strict writes of it.
LEMMA AnswersBatch ==
    ASSUME IInv, AInv, UNCHANGED disk,
           \A w \in Strict :
              client'[w] = IF w \in Range(batch)
                           THEN IF w \in Kept THEN "ok" ELSE "err"
                           ELSE client[w]
    PROVE  Store!Next
  <1> DEFINE S == Range(batch) \cap Strict
  <1>1. UNCHANGED Kept
    BY KeptStays
  <1>2. \A w \in Writes : w \in Range(batch) => client[w] = "waiting"
    BY BatchWaits
  <1>3. \A w \in S : Told[w] = "none"
    BY <1>2 DEF Told, Strict
  <1>4. Told' = [w \in Strict |-> IF w \in S
                                  THEN IF w \in Kept THEN "ok" ELSE "err"
                                  ELSE Told[w]]
    BY DEF Told
  <1>5. S \in SUBSET Strict
    OBVIOUS
  <1>. HIDE DEF S
  <1>6. Store!Answer(S)
    BY <1>1, <1>3, <1>4 DEF Store!Answer
  <1>. QED BY <1>5, <1>6 DEF Store!Next

\* One error for the whole batch is the truth about each of its writes, as long
\* as the batch is not committed.
LEMMA ErrorIsTrue ==
    ASSUME IInv, AInv, TellAll("err"), UNCHANGED disk, pc[Drain] # "respond"
    PROVE  Store!Next
  <1>1. \A w \in Strict : client'[w] = IF w \in Range(batch) THEN "err" ELSE client[w]
    BY DEF TellAll, Strict
  <1>2. \A w \in Strict : w \in Range(batch) => w \notin Kept
    BY BatchWaits, WaitingNotKept DEF Strict
  <1>. QED BY <1>1, <1>2, AnswersBatch

\* Each response tells a strict write what has become of it.
LEMMA ResponseIsTrue ==
    ASSUME IInv, AInv, Respond
    PROVE  Store!Next
  <1>0. batch \in Seq(Writes) /\ next \in Nat
    BY Control
  <1>1. pc[Drain] = "respond" /\ next = Len(batch) + 1 /\ UNCHANGED disk
    BY DEF Respond, sqlVars, IInv, BatchInv
  <1>2. ASSUME NEW w \in Strict, w \in Range(batch)
        PROVE  result[w] = IF w \in Kept THEN "ok" ELSE "err"
    <2>1. PICK i \in 1..Len(batch) : batch[i] = w
      BY <1>0, <1>2, InRange DEF In
    <2>2. i \in 1..(next - 1)
      BY <1>0, <1>1, <2>1
    <2>3. result[w] \in {"ok", "err"}
      BY <1>1, <2>1, <2>2 DEF IInv, ResultInv
    <2>4. result[w] = "ok" => w \in Kept
      BY <1>1, <2>1, <2>2 DEF IInv, RowsInv, Kept, Strict
    <2>5. result[w] = "err" => w \notin Kept
      BY <1>1, <2>1, <2>2 DEF AInv, ErrInv, Kept
    <2>. QED BY <2>3, <2>4, <2>5
  <1>3. \A w \in Strict : client'[w] = IF w \in Range(batch) THEN result[w] ELSE client[w]
    BY DEF Respond, Strict
  <1>. QED BY <1>1, <1>2, <1>3, AnswersBatch

\* The COMMIT keeps all the writes it completes at once.
LEMMA CommitKeeps ==
    ASSUME IInv, AInv, CommitOk
    PROVE  Store!Next
  <1> DEFINE S == Kept' \ Kept
  <1>1. disk' = disk \cup dirty /\ UNCHANGED <<client, batch>>
    BY DEF CommitOk, clientVars, loopVars
  <1>2. Kept \subseteq Kept'
    BY <1>1 DEF Kept
  <1>3. ASSUME NEW w \in S
        PROVE  Told[w] = "none"
    <2>0. w \in Strict /\ w \in Writes
      BY DEF Kept, Strict
    <2>1. PICK r \in Parts(w) : r \in dirty
      BY <1>1 DEF Kept
    <2>2. PICK i \in 1..Len(batch) : r \in Parts(batch[i])
      BY <2>1 DEF AInv, OpenInv
    <2>3. batch \in Seq(Writes) /\ batch[i] \in Writes
      BY Control
    <2>4. batch[i] = w
      BY <2>0, <2>1, <2>2, <2>3, PartsApart
    <2>5. w \in Range(batch)
      BY <2>3, <2>4, InRange DEF In
    <2>6. client[w] = "waiting"
      BY <2>0, <2>5, BatchWaits
    <2>. QED BY <2>0, <2>6 DEF Told
  <1>4. UNCHANGED Told
    BY <1>1 DEF Told
  <1>5. S \in SUBSET Strict /\ Kept' = Kept \cup S
    BY <1>2 DEF Kept
  <1>. HIDE DEF S
  <1>6. Store!Keep(S)
    BY <1>3, <1>4, <1>5 DEF Store!Keep
  <1>. QED BY <1>5, <1>6 DEF Store!Next

\* Nothing else tells an answer or keeps a write: the rows of a cold-path
\* transaction are nobody's write.
LEMMA StoreStep ==
    ASSUME IInv, AInv, "full" \notin Faults, [Next]_vars
    PROVE  [Store!Next]_<<Told, Kept>>
  <1>0. ASSUME UNCHANGED <<client, disk>>
        PROVE  [Store!Next]_<<Told, Kept>>
    BY <1>0, KeptStays, ToldStays
  <1>p. ASSUME NEW rows, pc[Drain] = "exec", Put(rows), UNCHANGED client
        PROVE  [Store!Next]_<<Told, Kept>>
    BY <1>p, <1>0, PutInside DEF AInv
  <1>r. ASSUME NEW a \in Actors, pc[a] \in {"sem", "conn", "begin"}, UNCHANGED disk,
               RetryOrFail(a) \/ GiveUp(a) \/ Fail(a)
        PROVE  [Store!Next]_<<Told, Kept>>
    <2>1. CASE a = Drain /\ TellAll("err")
      BY <2>1, <1>r, ErrorIsTrue
    <2>2. CASE UNCHANGED client
      BY <2>2, <1>r, <1>0
    <2>. QED BY <2>1, <2>2, <1>r DEF RetryOrFail, GiveUp, Fail

  <1>1. ASSUME NEW w \in Writes, Submit(w)
        PROVE  [Store!Next]_<<Told, Kept>>
    <2>1. /\ client[w] = "idle" /\ client' = [client EXCEPT ![w] = "waiting"]
          /\ UNCHANGED disk
      BY <1>1 DEF Submit, sqlVars
    <2>2. client \in [Writes -> {"idle", "waiting", "ok", "err"}]
      BY Control
    <2>3. UNCHANGED Told
      BY <2>1, <2>2, ToldStays
    <2>. QED BY <2>1, <2>3, KeptStays
  <1>2. CASE ExecOk
    BY <1>2, <1>p DEF ExecOk, clientVars
  <1>3. CASE ExecRowError
    BY <1>3, <1>p DEF ExecRowError, clientVars
  <1>sw. CASE ExecSwallowed
    BY <1>sw, <1>p DEF ExecSwallowed, clientVars
  <1>4. CASE ExecImplicitRollback
    BY <1>4 DEF ExecImplicitRollback
  <1>5. CASE Unwind
    BY <1>5, ErrorIsTrue DEF Unwind
  <1>6. CASE CommitOk
    BY <1>6, CommitKeeps
  <1>7. CASE CommitError
    BY <1>7, ErrorIsTrue DEF CommitError
  <1>8. CASE Respond
    BY <1>8, ResponseIsTrue
  <1>9. ASSUME NEW a \in Actors, PermitTimeout(a)
        PROVE  [Store!Next]_<<Told, Kept>>
    BY <1>9, <1>r DEF PermitTimeout, sqlVars
  <1>10. ASSUME NEW a \in Actors, ConnError(a)
         PROVE  [Store!Next]_<<Told, Kept>>
    BY <1>10, <1>r DEF ConnError, sqlVars
  <1>11. ASSUME NEW a \in Actors, BeginNested(a)
         PROVE  [Store!Next]_<<Told, Kept>>
    BY <1>11, <1>r DEF BeginNested
  <1>12. ASSUME NEW a \in Actors, BeginBusy(a)
         PROVE  [Store!Next]_<<Told, Kept>>
    BY <1>12, <1>r DEF BeginBusy, sqlVars
  <1>13. ASSUME NEW a \in Actors, BeginBroken(a)
         PROVE  [Store!Next]_<<Told, Kept>>
    BY <1>13, <1>r DEF BeginBroken
  <1>14. ASSUME NEW t \in Tasks, TxCommit(t)
         PROVE  [Store!Next]_<<Told, Kept>>
    <2>1. disk' = disk \cup Parts(t) /\ UNCHANGED client
      BY <1>14 DEF TxCommit, clientVars
    <2>2. \A w \in Writes : Parts(w) \cap Parts(t) = {}
      BY PartsApart, SetAssumption
    <2>3. UNCHANGED Kept
      BY <2>1, <2>2, KeptStays
    <2>. QED BY <2>1, <2>3, ToldStays
  <1>15. CASE UNCHANGED <<client, disk>>
    BY <1>15, <1>0
  <1>. QED BY <1>sw, <1>1, <1>2, <1>3, <1>4, <1>5, <1>6, <1>7, <1>8, <1>9, <1>10,
    <1>11, <1>12, <1>13, <1>14, <1>15 DEF Next, DrainStep, Begin, TxStep,
    Wake, Finished, vars, clientVars, loopVars, sqlVars, gateVars,
    DropHandles, Receive, Exit, Gate, Park, ParkTimeout, ExecFatal,
    TakePermit, GetConn, BeginOk, AskTx, TxDrop, TxRollback, TxCancel,
    WillSleep, DidWake, ResumeStore, ResumeNotify

LEMMA StoreInit == Init => Store!Init
  <1> SUFFICES ASSUME Init PROVE Store!Init
    OBVIOUS
  <1>1. Told = [w \in Strict |-> "none"]
    BY DEF Init, Told, Strict
  <1>2. Kept = {}
    BY PartsApart DEF Init, Kept, Strict
  <1>. QED BY <1>1, <1>2 DEF Store!Init

\* The write queue keeps each write that propagates its errors as a whole or not at
\* all, answers it once, and answers the truth, whatever lenient writes share its
\* batches, through every batch, retry, timeout, fatal error and
\* cancelled caller, if no statement error makes SQLite roll back by itself.
THEOREM Refinement ==
    ASSUME "full" \notin Faults
    PROVE  Spec => ImplementsAckedStore
  <1>1. IInv /\ AInv /\ [Next]_vars => [Store!Next]_<<Told, Kept>>
    BY StoreStep
  <1>. QED BY StoreInit, Invariance, AnswerInvariant, <1>1, PTL
       DEF Spec, ImplementsAckedStore, Store!Spec
=============================================================================
