-------------------------- MODULE MeetingLifecycle --------------------------
(***************************************************************************)
(* One meeting at a time, recorded by three parties that share it: the     *)
(* detection loop of meeting_detector.rs, the HTTP handlers of             *)
(* routes/meetings.rs and the meetings table.  They share                  *)
(*                                                                         *)
(*   rows, ends  the table: its rows, and the ids that ended within the    *)
(*               merge window of 120 s, oldest first;                      *)
(*   manual      the manual-meeting lock, an RwLock<Option<i64>>;          *)
(*   flag        MeetingDetector's v2 override, read by the audio pipeline;*)
(*   stopQ,autoQ the event bus, from the stop handler and the live         *)
(*               transcription controller to the loop.                     *)
(*                                                                         *)
(* Handler and loop are cut at their awaits: one step is one lock section, *)
(* one database statement or one send.  Timers are nondeterministic: a     *)
(* grace period may have elapsed at any scan, and Age ends the merge       *)
(* window of the oldest ended row.                                         *)
(***************************************************************************)
EXTENDS Naturals, Sequences, SequencesExt, FiniteSets

CONSTANTS
    Apps,       \* call applications the scanner can see in a call
    Clients,    \* HTTP requests that can be in flight at once
    Ops,        \* the requests a run makes, a subset of AllOps
    EarlyCalls, \* may a request arrive before the loop has reattached
    SlowCalls,  \* may a request outlast a whole pass of the loop
    Limit       \* bound: how often the environment does each thing

AllOps == {"start", "resume", "stop", "status", "delete"}
Budgets == {"calls", "detects", "autoEnds", "restarts", "faults"}

ASSUME MeetingAssumption ==
    /\ Ops \subseteq AllOps
    /\ "manual" \notin Apps
    /\ EarlyCalls \in BOOLEAN /\ SlowCalls \in BOOLEAN
    /\ Limit \in [Budgets -> Nat]

VARIABLES
    rows, ends, manual, flag, stopQ, autoQ,
    det,        \* MeetingState of the loop
    tick,       \* where the loop stands in its current pass
    lastStop,   \* last_explicit_stop_id
    req,        \* the requests in flight
    used,       \* how much of Limit is spent
    userStopped \* history: rows whose last end a user asked for

table == <<rows, ends>>
bus == <<stopQ, autoQ>>
loopVars == <<det, tick, lastStop>>
vars == <<rows, ends, manual, flag, stopQ, autoQ, det, tick, lastStop, req, used, userStopped>>

-----------------------------------------------------------------------------
(* The meetings table.                                                     *)

Ids == DOMAIN rows                 \* AUTOINCREMENT: a row is named by when it was inserted
NoId == 0                          \* None, and the detector's placeholder -1
Names == Apps \cup {"manual"}

Open == {r \in Ids : rows[r].st = "open"}
Stored == {r \in Ids : rows[r].st \in {"open", "ended"}}
LastOpen == IF Open = {} THEN NoId ELSE CHOOSE r \in Open : \A s \in Open : s <= r
NewId == Len(rows) + 1

Spend(k) == /\ used[k] < Limit[k]
            /\ used' = [used EXCEPT ![k] = @ + 1]

\* A statement fails: a busy, full or broken database.
DbError == Spend("faults")

\* INSERT: the partial unique index refuses a second open row.  by: the user or the
\* detector (detection_source).
Insert(app, by) ==
    /\ Open = {}
    /\ rows' = Append(rows, [st |-> "open", app |-> app, by |-> by, reason |-> "none"])
    /\ UNCHANGED ends

\* The ends of the merge window without that of r.
EndsBut(r) ==
    IF \E i \in DOMAIN ends : ends[i] = r
    THEN RemoveAt(ends, CHOOSE i \in DOMAIN ends : ends[i] = r)
    ELSE ends

\* The unconditional UPDATE of end_meeting: a row already ended is ended anew,
\* and a deleted one matches nothing.
End(r, why) ==
    IF r \in Stored
    THEN /\ rows' = [rows EXCEPT ![r].st = "ended", ![r].reason = why]
         /\ ends' = Append(EndsBut(r), r)
    ELSE UNCHANGED table

\* Mutation: end_reason survives a reopen.
ReopenKeepsReason(r) ==
    IF r \in Stored
    THEN /\ Open \subseteq {r}
         /\ rows' = [rows EXCEPT ![r].st = "open"]
         /\ ends' = EndsBut(r)
    ELSE UNCHANGED table

\* The UPDATE of reopen_meeting, under the same index.
Reopen(r) ==
    IF r \in Stored
    THEN /\ Open \subseteq {r}
         /\ rows' = [rows EXCEPT ![r].st = "open", ![r].reason = "none"]
         /\ ends' = EndsBut(r)
    ELSE UNCHANGED table

CanReopen(r) == r \in Stored => Open \subseteq {r}

\* find_recent_meeting_for_app: the latest mergeable end in the same app.
RecentFor(app) ==
    LET ok == {i \in DOMAIN ends : /\ rows[ends[i]].app = app
                                   /\ rows[ends[i]].reason # "explicit_stop"}
    IN  IF ok = {} THEN NoId ELSE ends[Max(ok)]

-----------------------------------------------------------------------------
(* The detection loop.                                                     *)

Idle == [st |-> "Idle", id |-> NoId, app |-> "manual", seen |-> FALSE]
Tracking == det.st \in {"Active", "Ending"}
Tracks(r) == Tracking /\ det.id = r
NoTick == [pc |-> "boot", id |-> NoId, man |-> FALSE]

Goto(pc) == tick' = [tick EXCEPT !.pc = pc]
At(pc) == tick.pc = pc
Subscribed == tick.pc \notin {"boot", "reattach", "off"}

\* What a crash left open is closed, except a manual meeting younger than twelve hours
\* (tick.id: the row that was already that old at the restart).
CloseOrphans ==
    /\ At("boot")
    /\ tick' = [NoTick EXCEPT !.pc = "reattach"]
    /\ LET orphans == {r \in Open : rows[r].by # "user" \/ r = tick.id} IN
       \/ /\ IF orphans = {} THEN UNCHANGED table ELSE End(LastOpen, "auto_end")
          /\ UNCHANGED used
       \/ /\ DbError
          /\ UNCHANGED table
    /\ UNCHANGED <<manual, flag, bus, det, lastStop, req, userStopped>>

\* Mutation: the loop starts from scratch.
ReattachNothing ==
    /\ At("reattach")
    /\ Goto("wait")
    /\ UNCHANGED <<table, det, flag, manual, bus, lastStop, req, used, userStopped>>

\* What is still open is taken up as the meeting in progress; the loop starts without it
\* when the query fails.
Reattach ==
    /\ At("reattach")
    /\ Goto("wait")
    /\ \/ /\ Open # {}
          /\ det' = [st |-> "Active", id |-> LastOpen, app |-> rows[LastOpen].app, seen |-> FALSE]
          /\ flag' = TRUE
          /\ UNCHANGED used
       \/ /\ (Open = {} /\ UNCHANGED used) \/ DbError
          /\ UNCHANGED <<det, flag>>
    /\ UNCHANGED <<table, manual, bus, lastStop, req, userStopped>>

\* Mutation: only an active meeting heeds the signal, not one in its grace period.
DrainStopActive ==
    /\ At("wait")
    /\ SlowCalls \/ \A c \in Clients : ~req[c].aged
    /\ req' = [c \in Clients |-> [req[c] EXCEPT !.aged = req[c].pc # "idle"]]
    /\ Goto("auto")
    /\ IF stopQ = <<>>
       THEN UNCHANGED <<stopQ, det, flag, lastStop>>
       ELSE LET s == Head(stopQ) IN
            /\ stopQ' = Tail(stopQ)
            /\ IF det.st = "Active" /\ det.id = s.id /\ det.app = s.app
               THEN det' = Idle /\ flag' = FALSE /\ lastStop' = s.id
               ELSE UNCHANGED <<det, flag, lastStop>>
    /\ UNCHANGED <<table, manual, autoQ, used, userStopped>>

\* Mutation: a signal for another meeting stays at the head of the queue.
DrainStopPeek ==
    /\ At("wait")
    /\ SlowCalls \/ \A c \in Clients : ~req[c].aged
    /\ req' = [c \in Clients |-> [req[c] EXCEPT !.aged = req[c].pc # "idle"]]
    /\ Goto("auto")
    /\ IF stopQ = <<>>
       THEN UNCHANGED <<stopQ, det, flag, lastStop>>
       ELSE LET s == Head(stopQ) IN
            IF Tracks(s.id) /\ det.app = s.app
            THEN stopQ' = Tail(stopQ) /\ det' = Idle /\ flag' = FALSE /\ lastStop' = s.id
            ELSE UNCHANGED <<stopQ, det, flag, lastStop>>
    /\ UNCHANGED <<table, manual, autoQ, used, userStopped>>

\* A pass begins: one explicit stop signal is taken off the bus.  It counts only
\* if both the id and the app are those the loop tracks.  (aged: a request that was
\* already in flight when the pass began; unless SlowCalls, it is answered before the
\* next one begins, a scan interval later.)
DrainStop ==
    /\ At("wait")
    /\ SlowCalls \/ \A c \in Clients : ~req[c].aged
    /\ req' = [c \in Clients |-> [req[c] EXCEPT !.aged = req[c].pc # "idle"]]
    /\ Goto("auto")
    /\ IF stopQ = <<>>
       THEN UNCHANGED <<stopQ, det, flag, lastStop>>
       ELSE LET s == Head(stopQ) IN
            /\ stopQ' = Tail(stopQ)
            /\ IF Tracks(s.id) /\ det.app = s.app
               THEN det' = Idle /\ flag' = FALSE /\ lastStop' = s.id
               ELSE UNCHANGED <<det, flag, lastStop>>
    /\ UNCHANGED <<table, manual, autoQ, used, userStopped>>

\* One auto-end request: it must name the manual meeting or the tracked one.
DrainAutoEnd ==
    /\ At("auto")
    /\ IF autoQ = <<>>
       THEN Goto("check") /\ UNCHANGED autoQ
       ELSE LET r == Head(autoQ) IN
            /\ autoQ' = Tail(autoQ)
            /\ IF manual = r \/ Tracks(r)
               THEN tick' = [pc |-> "autoEnd", id |-> r, man |-> manual = r]
               ELSE Goto("check")
    /\ UNCHANGED <<table, manual, flag, stopQ, det, lastStop, req, used, userStopped>>

AutoEnd ==
    /\ At("autoEnd")
    /\ \/ End(tick.id, "auto_end") /\ Goto("autoUnlock") /\ UNCHANGED used
       \/ DbError /\ Goto("check") /\ UNCHANGED table
    /\ UNCHANGED <<manual, flag, bus, det, lastStop, req, userStopped>>

AutoUnlock ==
    /\ At("autoUnlock")
    /\ manual' = IF tick.man /\ manual = tick.id THEN NoId ELSE manual
    /\ det' = IF Tracks(tick.id) THEN Idle ELSE det
    /\ flag' = FALSE
    /\ Goto("autoResolve")
    /\ UNCHANGED <<table, bus, lastStop, req, used, userStopped>>

\* A manual meeting, or a locked screen, suspends scanning: the loop goes back to
\* sleep without synchronising the flag.
Suspend ==
    /\ At("check")
    /\ Goto("wait")
    /\ UNCHANGED <<table, manual, flag, bus, det, lastStop, req, used, userStopped>>

GoScan ==
    /\ At("check")
    /\ manual = NoId
    /\ Goto("scan")
    /\ UNCHANGED <<table, manual, flag, bus, det, lastStop, req, used, userStopped>>

\* What a step of the state machine does next: nothing, store a start, store an end.
After(new, pc, id) == det' = new /\ tick' = [tick EXCEPT !.pc = pc, !.id = id]

\* advance_state with a call visible in app.
InCall(app) ==
    \/ /\ det.st = "Idle"
       /\ After([Idle EXCEPT !.st = "Confirming", !.app = app], "sync", NoId)
       /\ UNCHANGED used
    \/ /\ det.st = "Confirming"
       /\ Spend("detects")
       /\ After([Idle EXCEPT !.st = "Active", !.app = app], "find", NoId)
    \/ /\ det.st = "Active"
       /\ After([det EXCEPT !.app = app], "sync", NoId)
       /\ UNCHANGED used
    \/ /\ det.st = "Ending"
       /\ IF det.seen
          THEN After([det EXCEPT !.st = "Active", !.app = app, !.seen = FALSE], "sync", NoId)
          ELSE After([det EXCEPT !.seen = TRUE], "sync", NoId)
       /\ UNCHANGED used

\* advance_state with no call visible, and handle_no_apps_running when no call
\* application runs at all (gone).  late: the grace period has elapsed; alive: output
\* audio or a calendar event says the meeting goes on.
NoCall(gone, late, alive) ==
    /\ UNCHANGED used
    /\ \/ /\ det.st = "Idle"
          /\ After(det, "sync", NoId)
       \/ /\ det.st = "Confirming"
          /\ After(IF gone \/ late THEN Idle ELSE det, "sync", NoId)
       \/ /\ det.st = "Active"
          /\ After(IF gone /\ alive THEN det ELSE [det EXCEPT !.st = "Ending", !.seen = FALSE],
                   "sync", NoId)
       \/ /\ det.st = "Ending"
          /\ IF alive
             THEN After([det EXCEPT !.st = "Active", !.seen = FALSE], "sync", NoId)
             ELSE IF late
                  THEN After(Idle, IF det.id = NoId THEN "sync" ELSE "endRow", det.id)
                  ELSE After(IF gone THEN det ELSE [det EXCEPT !.seen = FALSE], "sync", NoId)

Scan ==
    /\ At("scan")
    /\ \/ \E app \in Apps : InCall(app)
       \/ \E gone, late, alive \in BOOLEAN : NoCall(gone, late, alive)
    /\ UNCHANGED <<table, manual, flag, bus, lastStop, req, userStopped>>

\* StartMeeting: merge into a meeting of the same app that ended recently, never the
\* one the loop remembers as explicitly stopped.
FindRecent ==
    /\ At("find")
    /\ LET r == RecentFor(det.app) IN
       \/ /\ r # NoId /\ r # lastStop
          /\ tick' = [tick EXCEPT !.pc = "reopen", !.id = r]
          /\ UNCHANGED used
       \/ /\ r = NoId \/ r = lastStop
          /\ Goto("insert")
          /\ UNCHANGED used
       \/ DbError /\ Goto("insert")
    /\ UNCHANGED <<table, manual, flag, bus, det, lastStop, req, userStopped>>

ReopenRecent ==
    /\ At("reopen")
    /\ \/ /\ Reopen(tick.id)
          /\ det' = [det EXCEPT !.id = tick.id]
          /\ Goto("resolve")
          /\ UNCHANGED used
       \/ /\ (~CanReopen(tick.id) /\ UNCHANGED used) \/ DbError
          /\ Goto("insert")
          /\ UNCHANGED <<table, det>>
    /\ UNCHANGED <<manual, flag, bus, lastStop, req, userStopped>>

\* A failed insert leaves the placeholder id in place.
InsertNew ==
    /\ At("insert")
    /\ Goto("resolve")
    /\ \/ Insert(det.app, "detector") /\ det' = [det EXCEPT !.id = NewId] /\ UNCHANGED used
       \/ /\ (Open # {} /\ UNCHANGED used) \/ DbError
          /\ UNCHANGED <<table, det>>
    /\ UNCHANGED <<manual, flag, bus, lastStop, req, userStopped>>

\* EndMeeting, and the end after the application is gone.  The row is ended first and
\* the typed text is added to its note after, each in a transaction of its own: a
\* failure may come between them.
EndTracked ==
    /\ At("endRow")
    /\ \/ End(tick.id, "none") /\ Goto("resolve") /\ UNCHANGED used
       \/ DbError /\ Goto("sync") /\ (UNCHANGED table \/ End(tick.id, "none"))
    /\ UNCHANGED <<manual, flag, bus, det, lastStop, req, userStopped>>

\* The status broadcast after a change resolves the status, which drops a lock whose
\* row is closed: first it reads, then it clears the lock if it still holds that id.
LoopResolve ==
    /\ At("resolve") \/ At("autoResolve")
    /\ LET next == IF At("resolve") THEN "sync" ELSE "check" IN
       \/ /\ manual # NoId /\ manual \notin Open
          /\ tick' = [tick EXCEPT !.pc = IF At("resolve") THEN "clear" ELSE "autoClear", !.id = manual]
          /\ UNCHANGED used
       \/ /\ manual = NoId \/ manual \in Open
          /\ Goto(next)
          /\ UNCHANGED used
       \/ DbError /\ Goto(next)
    /\ UNCHANGED <<table, manual, flag, bus, det, lastStop, req, userStopped>>

LoopClear ==
    /\ At("clear") \/ At("autoClear")
    /\ manual' = IF manual = tick.id THEN NoId ELSE manual
    /\ Goto(IF At("clear") THEN "sync" ELSE "check")
    /\ UNCHANGED <<table, flag, bus, det, lastStop, req, used, userStopped>>

\* Mutation: the loop raises the flag and leaves lowering it to the handlers.
SyncFlagUp ==
    /\ At("sync")
    /\ flag' = (flag \/ det.st = "Active")
    /\ tick' = [NoTick EXCEPT !.pc = "wait"]
    /\ UNCHANGED <<table, manual, bus, det, lastStop, req, used, userStopped>>

SyncFlag ==
    /\ At("sync")
    /\ flag' = (det.st = "Active")
    /\ tick' = [NoTick EXCEPT !.pc = "wait"]
    /\ UNCHANGED <<table, manual, bus, det, lastStop, req, used, userStopped>>

\* Shutdown reaches the loop in its select: the tracked meeting is ended, and a failure
\* only logged (it spends no fault: a crash leaves the same table).
Shutdown ==
    /\ At("wait")
    /\ Spend("restarts")
    /\ \/ Tracking /\ det.id # NoId /\ End(det.id, "shutdown")
       \/ UNCHANGED table
    /\ flag' = FALSE
    /\ Goto("off")
    /\ UNCHANGED <<manual, bus, det, lastStop, req, userStopped>>

-----------------------------------------------------------------------------
(* The HTTP handlers.                                                      *)

NoReq == [op |-> "none", pc |-> "idle", id |-> NoId, stale |-> NoId, aged |-> FALSE]
Reply(c) == req' = [req EXCEPT ![c] = NoReq]
Step(c, pc) == req' = [req EXCEPT ![c].pc = pc]
In(c, pc) == req[c].pc = pc

Call(c, op, r) ==
    /\ In(c, "idle")
    /\ Subscribed \/ (EarlyCalls /\ ~At("off"))
    /\ op \in Ops
    /\ Spend("calls")
    /\ op = "resume" => r \in Stored
    /\ op \in {"start", "status"} => r = NoId
    /\ op = "stop" => r \in Stored \cup {NoId}
    /\ op # "delete"
    /\ req' = [req EXCEPT ![c] = [NoReq EXCEPT !.op = op, !.pc = "resolve", !.id = r]]
    /\ UNCHANGED <<table, manual, flag, bus, loopVars, userStopped>>

\* What a handler does once it knows the active meeting: act, or NoId.
Decide(c, act) ==
    LET q == req[c]
        go(pc, r) == req' = [req EXCEPT ![c].pc = pc, ![c].id = r, ![c].stale = NoId]
    IN  \/ q.op = "status" /\ Reply(c)
        \/ /\ q.op = "start"
           /\ IF act = NoId THEN go("insert", NoId) ELSE go("lock", act)
        \/ /\ q.op = "resume"
           /\ IF q.id \notin Stored \/ act \notin {NoId, q.id}
              THEN Reply(c)
              ELSE go(IF act = q.id THEN "lock" ELSE "reopen", q.id)
        \/ /\ q.op = "stop"
           /\ IF act = NoId \/ q.id \notin {NoId, act} THEN Reply(c) ELSE go("end", act)

\* resolve_meeting_status_from: the lock and its row; a closed one is cleared; then the
\* most recent open row.  The lock and the row it names are read in one step: with at
\* most one open row, a change between the two reads does not change the answer.
Resolve(c) ==
    /\ In(c, "resolve")
    /\ \/ manual \in Open /\ Decide(c, manual) /\ UNCHANGED used
       \/ /\ manual # NoId /\ manual \notin Open
          /\ req' = [req EXCEPT ![c].pc = "clear", ![c].stale = manual]
          /\ UNCHANGED used
       \/ manual = NoId /\ Step(c, "recent") /\ UNCHANGED used
       \/ DbError /\ Reply(c)
    /\ UNCHANGED <<table, manual, flag, bus, loopVars, userStopped>>

ClearStale(c) ==
    /\ In(c, "clear")
    /\ manual' = IF manual = req[c].stale THEN NoId ELSE manual
    /\ Step(c, "recent")
    /\ UNCHANGED <<table, flag, bus, loopVars, used, userStopped>>

MostRecent(c) ==
    /\ In(c, "recent")
    /\ \/ Decide(c, LastOpen) /\ UNCHANGED used
       \/ DbError /\ Reply(c)
    /\ UNCHANGED <<table, manual, flag, bus, loopVars, userStopped>>

\* The meeting is stored under the app the client names, "manual" by default.
StartInsert(c) ==
    /\ In(c, "insert")
    /\ \/ /\ \E app \in Names : Insert(app, "user")
          /\ req' = [req EXCEPT ![c].pc = "lock", ![c].id = NewId]
          /\ UNCHANGED used
       \/ /\ (Open # {} /\ UNCHANGED used) \/ DbError
          /\ Reply(c)
          /\ UNCHANGED table
    /\ UNCHANGED <<manual, flag, bus, loopVars, userStopped>>

StartReopen(c) ==
    /\ In(c, "reopen")
    /\ \/ /\ Reopen(req[c].id)
          /\ Step(c, "lock")
          /\ userStopped' = userStopped \ {req[c].id}
          /\ UNCHANGED used
       \/ /\ (~CanReopen(req[c].id) /\ UNCHANGED used) \/ DbError
          /\ Reply(c)
          /\ UNCHANGED <<table, userStopped>>
    /\ UNCHANGED <<manual, flag, bus, loopVars>>

\* Mutation: a started meeting does not take the lock.
StartUnlocked(c) ==
    /\ In(c, "lock")
    /\ Step(c, "flag")
    /\ UNCHANGED <<table, manual, flag, bus, loopVars, used, userStopped>>

StartLock(c) ==
    /\ In(c, "lock")
    /\ manual' = req[c].id
    /\ Step(c, "flag")
    /\ UNCHANGED <<table, flag, bus, loopVars, used, userStopped>>

\* A failure leaves the row as it was, or ended without its note; either way the
\* handler returns and neither the lock nor the loop hears of it.
StopEnd(c) ==
    /\ In(c, "end")
    /\ \/ /\ End(req[c].id, "explicit_stop")
          /\ userStopped' = userStopped \cup {req[c].id}
          /\ (Step(c, "unlock") /\ UNCHANGED used) \/ (DbError /\ Reply(c))
       \/ DbError /\ Reply(c) /\ UNCHANGED <<table, userStopped>>
    /\ UNCHANGED <<manual, flag, bus, loopVars>>

StopUnlock(c) ==
    /\ In(c, "unlock")
    /\ manual' = IF manual = req[c].id THEN NoId ELSE manual
    /\ Step(c, "flag")
    /\ UNCHANGED <<table, flag, bus, loopVars, used, userStopped>>

\* set_v2_in_meeting: TRUE from a start, FALSE from a stop.
SetFlag(c) ==
    /\ In(c, "flag")
    /\ flag' = (req[c].op # "stop")
    /\ Step(c, "trail")
    /\ UNCHANGED <<table, manual, bus, loopVars, used, userStopped>>

Done(c) == IF req[c].op = "stop" THEN Step(c, "signal") ELSE Reply(c)

\* Mutation: the handler answers without resolving the status again.
TrailSkipped(c) ==
    /\ In(c, "trail")
    /\ Done(c)
    /\ UNCHANGED <<table, manual, flag, bus, loopVars, used, userStopped>>

\* The status resolved once more, for the broadcast; its failure is ignored.
Trail(c) ==
    /\ In(c, "trail")
    /\ \/ /\ manual # NoId /\ manual \notin Open
          /\ req' = [req EXCEPT ![c].pc = "trailClear", ![c].stale = manual]
          /\ UNCHANGED used
       \/ (manual = NoId \/ manual \in Open) /\ Done(c) /\ UNCHANGED used
       \/ DbError /\ Done(c)
    /\ UNCHANGED <<table, manual, flag, bus, loopVars, userStopped>>

TrailClear(c) ==
    /\ In(c, "trailClear")
    /\ manual' = IF manual = req[c].stale THEN NoId ELSE manual
    /\ Done(c)
    /\ UNCHANGED <<table, flag, bus, loopVars, used, userStopped>>

\* Last, the stop handler reads its row and tells the loop; no row, no signal.  A loop
\* that has not subscribed yet hears nothing.
StopSignal(c) ==
    /\ In(c, "signal")
    /\ Reply(c)
    /\ \/ /\ UNCHANGED used
          /\ stopQ' = IF req[c].id \in Stored /\ Subscribed
                      THEN Append(stopQ, [id |-> req[c].id, app |-> rows[req[c].id].app])
                      ELSE stopQ
       \/ DbError /\ UNCHANGED stopQ
    /\ UNCHANGED <<table, manual, flag, autoQ, loopVars, userStopped>>

\* DELETE /meetings/:id removes the row and nothing else.
Delete(r) ==
    /\ "delete" \in Ops
    /\ r \in Stored
    /\ Spend("calls")
    /\ rows' = [rows EXCEPT ![r] = [st |-> "deleted", app |-> "manual", by |-> "user", reason |-> "none"]]
    /\ ends' = EndsBut(r)
    /\ userStopped' = userStopped \ {r}
    /\ UNCHANGED <<manual, flag, bus, loopVars, req>>

-----------------------------------------------------------------------------
(* The environment.                                                        *)

\* The live transcription controller saw a meeting go quiet.
RequestAutoEnd(r) ==
    /\ Subscribed
    /\ r \in Stored
    /\ Spend("autoEnds")
    /\ autoQ' = Append(autoQ, r)
    /\ UNCHANGED <<table, manual, flag, stopQ, loopVars, req, userStopped>>

\* 120 s have passed since the oldest end.
Age ==
    /\ ends # <<>>
    /\ ends' = Tail(ends)
    /\ UNCHANGED <<rows, manual, flag, bus, loopVars, req, used, userStopped>>

\* The engine dies, or exits after a shutdown, and is started again: the table survives.
Restart ==
    /\ IF At("off") THEN UNCHANGED used ELSE Spend("restarts")
    /\ manual' = NoId
    /\ flag' = FALSE
    /\ stopQ' = <<>> /\ autoQ' = <<>>
    /\ det' = Idle
    /\ \E old \in {NoId, LastOpen} : tick' = [NoTick EXCEPT !.id = old]
    /\ lastStop' = NoId
    /\ req' = [c \in Clients |-> NoReq]
    /\ UNCHANGED <<table, userStopped>>

Init ==
    /\ rows = <<>> /\ ends = <<>>
    /\ manual = NoId
    /\ flag = FALSE
    /\ stopQ = <<>> /\ autoQ = <<>>
    /\ det = Idle
    /\ tick = NoTick
    /\ lastStop = NoId
    /\ req = [c \in Clients |-> NoReq]
    /\ used = [k \in Budgets |-> 0]
    /\ userStopped = {}

Handler(c) ==
    \/ Resolve(c) \/ ClearStale(c) \/ MostRecent(c)
    \/ StartInsert(c) \/ StartReopen(c) \/ StartLock(c)
    \/ StopEnd(c) \/ StopUnlock(c) \/ SetFlag(c)
    \/ Trail(c) \/ TrailClear(c) \/ StopSignal(c)

Loop ==
    \/ CloseOrphans \/ Reattach
    \/ DrainStop \/ DrainAutoEnd \/ AutoEnd \/ AutoUnlock
    \/ Suspend \/ GoScan \/ Scan
    \/ FindRecent \/ ReopenRecent \/ InsertNew \/ EndTracked
    \/ LoopResolve \/ LoopClear \/ SyncFlag

Next ==
    \/ Loop
    \/ Shutdown \/ Restart \/ Age
    \/ \E c \in Clients : Handler(c)
    \/ \E c \in Clients, op \in Ops, r \in Ids \cup {NoId} : Call(c, op, r)
    \/ \E r \in Ids : Delete(r) \/ RequestAutoEnd(r)

Spec == Init /\ [][Next]_vars

\* The runtime polls the loop and the handlers, and the screen does not stay locked:
\* a loop that keeps reaching its check without a manual meeting scans again.
Fairness ==
    /\ WF_vars(Loop)
    /\ SF_vars(GoScan)
    /\ \A c \in Clients : WF_vars(Handler(c))

FairSpec == Spec /\ Fairness

-----------------------------------------------------------------------------
(* Properties.                                                             *)

Meeting == [st : {"open", "ended", "deleted"}, app : Names, by : {"user", "detector"},
            reason : {"none", "explicit_stop", "auto_end", "shutdown"}]
Steps == {"boot", "reattach", "wait", "auto", "autoEnd", "autoUnlock", "autoResolve",
          "autoClear", "check", "scan", "find", "reopen", "insert", "endRow", "resolve",
          "clear", "sync", "off"}
Places == {"idle", "resolve", "clear", "recent", "insert", "reopen", "lock", "flag", "end",
           "unlock", "trail", "trailClear", "signal"}

\* The types of the table, the loop and the handlers, and what ties them: the merge
\* window holds distinct ended rows, a queue entry and a handler past its decision name
\* a row that was once stored, and only a tracked meeting has an id (the Option of
\* manual_meeting and the placeholder -1 are NoId).
TypeOK ==
    /\ rows \in Seq(Meeting) /\ ends \in Seq(Ids)
    /\ \A i, j \in DOMAIN ends : rows[ends[i]].st = "ended" /\ (ends[i] = ends[j] => i = j)
    /\ \A r \in Ids : rows[r].st # "ended" => rows[r].reason = "none"
    /\ manual \in Ids \cup {NoId} /\ flag \in BOOLEAN /\ lastStop \in Ids \cup {NoId}
    /\ det \in [st : {"Idle", "Confirming", "Active", "Ending"}, id : Ids \cup {NoId},
                app : Names, seen : BOOLEAN]
    /\ ~Tracking => det.id = NoId
    /\ tick \in [pc : Steps, id : Ids \cup {NoId}, man : BOOLEAN]
    /\ stopQ \in Seq([id : Ids, app : Names]) /\ autoQ \in Seq(Ids)
    /\ req \in [Clients -> [op : AllOps \cup {"none"}, pc : Places, id : Ids \cup {NoId},
                            stale : Ids \cup {NoId}, aged : BOOLEAN]]
    /\ \A c \in Clients :
          req[c].pc \in {"reopen", "lock", "flag", "trail", "trailClear", "end", "unlock", "signal"}
             => req[c].id \in Ids
    /\ used \in [Budgets -> Nat] /\ \A k \in Budgets : used[k] <= Limit[k]
    /\ userStopped \subseteq Ids

\* Nothing is under way: no request in flight, and the loop sleeps between passes.
Quiet == tick.pc = "wait" /\ \A c \in Clients : req[c].pc = "idle"

\* Every open meeting has someone who will end it: the loop tracks it or it is the
\* manual one (routes/meetings.rs 590-638, meeting_detector.rs 3102-3169).  An open row
\* nobody owns stays "ongoing" and keeps every later meeting out of the table.
OpenOwned == Quiet => \A r \in Open : manual = r \/ Tracks(r)

\* The lock names an open meeting, however an end by the loop and a start by the user
\* were interleaved (routes/meetings.rs 147-152, 632-635, 723-728).  While it is held
\* the loop does not scan.
LockMeansOpen == Quiet /\ manual # NoId => manual \in Open

\* Once its signal is drained, the loop no longer tracks a meeting the user stopped,
\* also after a restart has put the loop back on it (routes/meetings.rs 758-768,
\* meeting_detector.rs 2696-2717), provided the loop knows the meeting's app by the
\* name that is stored.
StopReachesDetector ==
    Quiet /\ stopQ = <<>> =>
        \A r \in userStopped : rows[r].reason = "explicit_stop" /\ rows[r].app = det.app
                                   => ~Tracks(r)

\* The same whatever app the loop has come to follow the meeting with.
StopReachesAnyApp ==
    Quiet /\ stopQ = <<>> =>
        \A r \in userStopped : rows[r].reason = "explicit_stop" => ~Tracks(r)

\* The audio pipeline is told that a meeting is on only while one is: with no open row
\* and no call in progress the flag does not stay up (meeting_detector.rs 3171-3175,
\* against the handlers' own writes, routes/meetings.rs 636-638 and 729-731).
FlagSettles == []<>(flag => Open # {} \/ det.st = "Active" \/ manual # NoId)

\* A user's stop request is answered, and the loop takes every stop signal off the bus,
\* whether or not it acts on it (meeting_detector.rs 2696-2717): none is left for a later
\* meeting.
StopsEnd == \A c \in Clients : (req[c].op = "stop") ~> (req[c].op # "stop" /\ stopQ = <<>>)

\* db.rs 10071-10078: a meeting the user stopped is not taken up again by the detector,
\* "the durable guarantee that survives restarts".
UserStopHolds == [][\A r \in userStopped : r \in Open' => r \notin userStopped']_vars

\* screenpipe-audio meeting_detector.rs 78: the flag "returns true if the user is in an
\* audio session (meeting)": it is up while a manual meeting is on and all is quiet.
ManualFlagOn == Quiet /\ manual \in Open => flag

\* meeting_detector.rs 1763: "meeting_id=-1 is a placeholder; the loop fills it after
\* DB insert": between passes, an active meeting has a row.
PlaceholderFilled == At("wait") /\ det.st = "Active" => det.id # NoId

=============================================================================
