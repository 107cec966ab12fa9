---------------------------- MODULE EventCapture ----------------------------
(***************************************************************************)
(* From an input event to the frame it caused (screenpipe-engine).  The UI   *)
(* recorder gives an event a correlation id, broadcasts a capture trigger    *)
(* with it and stores the event's row with a later batch (ui_recorder.rs).   *)
(* One loop per monitor drains its triggers, captures and reports the frame  *)
(* with the ids it answers (event_driven_capture.rs).  The linker pairs rows *)
(* and frames in whatever order they come and fills in ui_events.frame_id    *)
(* (frame_linker.rs, frame_linker_actor.rs).                                 *)
(*                                                                          *)
(* A correlation id is the number of the event; its row is named by it too. *)
(***************************************************************************)
EXTENDS Naturals, Sequences, FiniteSets, SequencesExt

CONSTANTS
    Monitors,
    Contents,      \* what the focused window may show; its accessibility hash
    Ignored,       \* contents that are never stored: private, ignored, protected windows
    Throttled,     \* contents of apps that are not walked every time
    None,
    Kinds,         \* kinds of events: subset of {"click", "key", "focus", "scroll"}
    Ring,          \* TRIGGER_CHANNEL_BUFFER
    Buffer,        \* LINKER_CHANNEL_BUFFER
    Capacity,      \* FrameLinkerConfig::capacity
    MaxEvents, MaxFrames, MaxChanges, \* bounds: events, frames, changes of the screen
    MaxFaults      \* bound: pauses, failures and losses

ASSUME ConstantsAssumption ==
    /\ Ignored \cup Throttled \subseteq Contents /\ None \notin Contents
    /\ Kinds \subseteq {"click", "key", "focus", "scroll"}
    /\ \A n \in {Ring, Buffer, Capacity} : n \in Nat \ {0}
    /\ \A n \in {MaxEvents, MaxFrames, MaxChanges, MaxFaults} : n \in Nat

VARIABLES
    events,   \* by correlation id: kind, whose it is, the state of the row, its frame_id
    batch,    \* EventBatch: ids of events not stored yet
    scroll,   \* ScrollBurstTracker: the last scroll of a burst
    ring,     \* the triggers a loop has not received
    lagged,   \* monitors whose loop has missed some
    screen,   \* what the focused window shows
    paused,   \* monitors whose loop is paused (locked, schedule, ...) or cold
    loop,     \* the capture loop of a monitor
    frames,   \* the table: monitor, what is shown, whose elements it has
    chan,     \* the channel of the linker
    waitingRows,   \* pending_events: ids of rows; they come in the order of the ids
    waitingFrames, \* pending_frames: oldest first
    claimed,  \* ghost: ids the linker has been sent a frame for
    lost,     \* ghost: ids a failure or a limit has cost their link
    changes, faults

recorder == <<events, batch, scroll>>
monitors == <<ring, lagged, loop>>
linker   == <<waitingRows, waitingFrames>>
bounds   == <<changes, faults>>
vars == <<recorder, monitors, screen, paused, frames, chan, linker, claimed, lost, bounds>>

EventIds == 1..MaxEvents
FrameIds == 1..MaxFrames
Hashes   == Contents \cup {None}
Anchor   == [frame : FrameIds \cup {0}, hash : Hashes]
NoAnchor == [frame |-> 0, hash |-> None]
Loop     == [pc : {"idle", "capture"}, checkpoint : BOOLEAN, ids : SUBSET EventIds,
             hash : Hashes, last : FrameIds \cup {0}, anchor : Anchor]
NewLoop  == [pc |-> "idle", checkpoint |-> FALSE, ids |-> {}, hash |-> None, last |-> 0,
             anchor |-> NoAnchor]

TypeOK ==
    /\ Len(events) <= MaxEvents /\ Len(frames) <= MaxFrames
    /\ \A c \in DOMAIN events :
          events[c] \in [kind : Kinds, on : SUBSET Monitors,
                         row : {"batch", "stored", "dropped"}, frame : FrameIds \cup {0}]
    /\ ToSet(batch) = {c \in DOMAIN events : events[c].row = "batch"}
    /\ scroll \in EventIds \cup {0}
    /\ \A m \in Monitors : /\ Len(ring[m]) <= Ring
                           /\ \A i \in DOMAIN ring[m] : ring[m][i] \in DOMAIN events
    /\ lagged \subseteq Monitors /\ paused \subseteq Monitors
    /\ screen \in Contents
    /\ \A m \in Monitors : loop[m] \in Loop
    /\ \A f \in DOMAIN frames :
          frames[f] \in [mon : Monitors, shows : Contents, from : FrameIds]
    /\ Len(chan) <= Buffer
    /\ waitingRows \subseteq DOMAIN events /\ Cardinality(waitingRows) <= Capacity
    /\ Len(waitingFrames) <= Capacity
    /\ lost \subseteq DOMAIN events

Init ==
    /\ events = <<>> /\ batch = <<>> /\ scroll = 0
    /\ ring = [m \in Monitors |-> <<>>] /\ lagged = {}
    /\ screen \in Contents /\ paused = {}
    /\ loop = [m \in Monitors |-> NewLoop]
    /\ frames = <<>> /\ chan = <<>>
    /\ waitingRows = {} /\ waitingFrames = <<>>
    /\ claimed = {} /\ lost = {}
    /\ changes = 0 /\ faults = 0

Fault == faults < MaxFaults /\ faults' = faults + 1

-----------------------------------------------------------------------------
(* Channels.                                                                *)

RowMsg(c)      == [type |-> "row", ids |-> {c}, frame |-> 0]
FrameMsg(f, S) == [type |-> "frame", ids |-> S, frame |-> f]
DropMsg(S)     == [type |-> "drop", ids |-> S, frame |-> 0]

\* try_send: a message the channel has no room for is lost.
Send(msgs) ==
    LET fits == Min({Len(msgs), Buffer - Len(chan)})
        Ids(from, to, type) == UNION {msgs[i].ids : i \in {j \in from..to : msgs[j].type = type}}
    IN  /\ chan' = chan \o SubSeq(msgs, 1, fits)
        /\ claimed' = claimed \cup Ids(1, fits, "frame")
        /\ lost' = lost \cup Ids(fits + 1, Len(msgs), "row")

\* report_triggers_dropped, FrameCaptured: nothing is sent when there are no ids.
About(msg)  == IF msg.ids = {} THEN <<>> ELSE <<msg>>
Report(msg) == Send(About(msg))

\* A loop that has missed triggers says so, without ids.
Notice(m) == IF m \in lagged THEN <<DropMsg({})>> ELSE <<>>

\* The broadcast: a receiver that is Ring behind loses its oldest trigger.
Broadcast(c) ==
    /\ ring' = [m \in Monitors |-> IF Len(ring[m]) = Ring THEN Append(Tail(ring[m]), c)
                                   ELSE Append(ring[m], c)]
    /\ lagged' = lagged \cup {m \in Monitors : Len(ring[m]) = Ring}

-----------------------------------------------------------------------------
(* The UI recorder.                                                         *)

\* An event of the user, and the monitors whose loops take its trigger for theirs.
\* For a click or a focus change each loop finds out by the point it carries and
\* the bounds of all monitors, which it has read when it started: it is the monitor
\* under the point, as a rule; all of them when there is no point or the bounds hold
\* none; with bounds out of date others, or none.  (A click without a point counts
\* as a key.)  A scroll is triggered later, for the last one of its burst.
Input(k, on) ==
    LET c == Len(events) + 1 IN
    /\ c <= MaxEvents
    /\ k \in {"click", "focus"} \/ on = Monitors
    /\ events' = Append(events, [kind |-> k, on |-> on, row |-> "batch", frame |-> 0])
    /\ batch' = Append(batch, c)
    /\ IF k = "scroll" THEN scroll' = c /\ UNCHANGED <<ring, lagged>>
       ELSE Broadcast(c) /\ UNCHANGED scroll
    /\ UNCHANGED <<screen, paused, loop, frames, chan, linker, claimed, lost, bounds>>

BurstEnds ==
    /\ scroll # 0
    /\ Broadcast(scroll) /\ scroll' = 0
    /\ UNCHANGED <<events, batch, screen, paused, loop, frames, chan, linker, claimed, lost,
                   bounds>>

\* flush_batch: a batch that cannot be stored is dropped, not tried again.
Flush(row) ==
    /\ events' = [c \in DOMAIN events |->
                    IF c \in ToSet(batch) THEN [events[c] EXCEPT !.row = row] ELSE events[c]]
    /\ batch' = <<>>
    /\ UNCHANGED <<scroll, monitors, screen, paused, frames, linker, changes>>

FlushStores ==
    /\ batch # <<>> /\ Flush("stored")
    /\ Send([i \in DOMAIN batch |-> RowMsg(batch[i])])
    /\ UNCHANGED faults

FlushFails ==
    /\ batch # <<>> /\ Fault /\ Flush("dropped")
    /\ UNCHANGED <<chan, claimed, lost>>

-----------------------------------------------------------------------------
(* What happens around the capture loops.                                   *)

ScreenChanges(s) ==
    /\ changes < MaxChanges /\ s # screen
    /\ screen' = s /\ changes' = changes + 1
    /\ UNCHANGED <<recorder, monitors, paused, frames, chan, linker, claimed, lost, faults>>

PauseStart(m) ==
    /\ m \notin paused /\ Fault
    /\ paused' = paused \cup {m}
    /\ UNCHANGED <<recorder, monitors, screen, frames, chan, linker, claimed, lost, changes>>

PauseEnd(m) ==
    /\ m \in paused /\ paused' = paused \ {m}
    /\ UNCHANGED <<recorder, monitors, screen, frames, chan, linker, claimed, lost, bounds>>

-----------------------------------------------------------------------------
(* The capture loop of monitor m (event_driven_capture_loop).                *)

\* Mutation: every trigger applies to every monitor.
AppliesAnywhere(c, m) == TRUE

\* trigger_applies_to_monitor
Applies(c, m) == m \in events[c].on

\* is_workflow_checkpoint_trigger
Checkpoint(k) == k \notin {"click", "visual"}

\* reduce_drained_triggers: of the triggers at these positions of q, the last checkpoint
\* wins, otherwise the last one.
Reduced(q, positions) ==
    LET checkpoints == {i \in positions : Checkpoint(events[q[i]].kind)}
    IN  events[q[Max(IF checkpoints # {} THEN checkpoints ELSE positions)]].kind

\* Paused or cold: what has come is discarded, whichever monitor it is for.
Discard(m) ==
    /\ loop[m].pc = "idle" /\ m \in paused /\ ring[m] # <<>>
    /\ ring' = [ring EXCEPT ![m] = <<>>] /\ lagged' = lagged \ {m}
    /\ Report(DropMsg(ToSet(ring[m])))
    /\ UNCHANGED <<recorder, loop, screen, paused, frames, linker, bounds>>

\* A trigger of kind k for the events S, after the messages sent so far.  A focus change
\* forgets the last content.  What is no checkpoint may come too soon after a capture: it
\* belongs to its frame.
Decide(m, k, S, sent) ==
    LET l == IF k = "focus" THEN [loop[m] EXCEPT !.hash = None, !.anchor = NoAnchor]
             ELSE loop[m]
    IN  \/ /\ loop' = [loop EXCEPT ![m] = [l EXCEPT !.pc = "capture", !.ids = S,
                                                     !.checkpoint = Checkpoint(k)]]
           /\ Send(sent)
        \/ /\ ~Checkpoint(k) /\ S # {}
           /\ Send(sent \o <<IF l.last = 0 THEN DropMsg(S) ELSE FrameMsg(l.last, S)>>)
           /\ UNCHANGED loop

Drain(m) ==
    LET mine == {i \in DOMAIN ring[m] : Applies(ring[m][i], m)}
        ids  == {ring[m][i] : i \in mine}
    IN
    /\ loop[m].pc = "idle" /\ m \notin paused /\ ring[m] # <<>>
    /\ ring' = [ring EXCEPT ![m] = <<>>] /\ lagged' = lagged \ {m}
    /\ IF mine # {} THEN Decide(m, Reduced(ring[m], mine), ids, Notice(m))
       ELSE IF m \in lagged THEN Decide(m, "manual", {}, Notice(m))
       ELSE UNCHANGED <<loop, chan, claimed, lost>>
    /\ UNCHANGED <<recorder, screen, paused, frames, linker, bounds>>

\* The capture at startup, on idling (a checkpoint), or because the pixels changed.
Internal(m) ==
    /\ loop[m].pc = "idle" /\ m \notin paused
    /\ \E k \in {"manual", "visual"} : Decide(m, k, {}, <<>>)
    /\ UNCHANGED <<recorder, ring, lagged, screen, paused, frames, linker, bounds>>

\* The elements of the frame before are reused when the last content seen is
\* that of the anchor: the hash compared is the one before this capture.
ElementsRef(l) == IF l.hash # None /\ l.hash = l.anchor.hash THEN l.anchor.frame ELSE 0

Stored(m) ==
    [mon |-> m, shows |-> screen,
     from |-> IF ElementsRef(loop[m]) = 0 THEN Len(frames) + 1 ELSE ElementsRef(loop[m])]

Done(m) == [loop[m] EXCEPT !.pc = "idle", !.checkpoint = FALSE, !.ids = {}]

\* A frame is stored; only one with elements of its own becomes the anchor.
Capture(m) ==
    LET f == Len(frames) + 1 IN
    /\ loop[m].pc = "capture" /\ screen \notin Ignored /\ f <= MaxFrames
    /\ frames' = Append(frames, Stored(m))
    /\ loop' = [loop EXCEPT ![m] =
                  [Done(m) EXCEPT !.hash = screen, !.last = f,
                                  !.anchor = IF ElementsRef(loop[m]) # 0 THEN @
                                             ELSE [frame |-> f, hash |-> screen]]]
    /\ Report(FrameMsg(f, loop[m].ids))
    /\ UNCHANGED <<recorder, ring, lagged, screen, paused, linker, bounds>>

\* Nothing is stored: the window is filtered, its app throttled, or its content is
\* that of the last frame.  The events go to the last frame, if there is one.  (Of
\* the checkpoints the throttles spare all but idling, which has no events; so has
\* the capture after missed triggers, which the code spares.)
Skip(m) ==
    LET l == loop[m] IN
    /\ l.pc = "capture"
    /\ \/ screen \in Ignored
       \/ screen \in Throttled /\ (~l.checkpoint \/ l.ids = {})
       \/ screen = l.hash /\ ~l.checkpoint
    /\ loop' = [loop EXCEPT ![m] = Done(m)]
    /\ Report(FrameMsg(l.last, IF l.last = 0 THEN {} ELSE l.ids))
    /\ UNCHANGED <<recorder, ring, lagged, screen, paused, frames, linker, bounds>>

\* Protected content comes to the front just before a capture: everything pauses.
Blocked(m) ==
    /\ loop[m].pc = "capture" /\ Fault
    /\ loop' = [loop EXCEPT ![m] = Done(m)]
    /\ paused' = Monitors
    /\ Report(DropMsg(loop[m].ids))
    /\ UNCHANGED <<recorder, ring, lagged, screen, frames, linker, changes>>

\* Mutation: the content seen is remembered before the frame is stored.
CaptureFailsKnowing(m) ==
    /\ loop[m].pc = "capture" /\ Fault
    /\ loop' = [loop EXCEPT ![m] = [Done(m) EXCEPT !.hash = screen]]
    /\ Report(DropMsg(loop[m].ids))
    /\ UNCHANGED <<recorder, ring, lagged, screen, paused, frames, linker, changes>>

\* The capture fails or times out; a write that timed out may yet be done.
CaptureFails(m) ==
    /\ loop[m].pc = "capture" /\ Fault
    /\ \/ UNCHANGED frames
       \/ Len(frames) < MaxFrames /\ screen \notin Ignored /\ frames' = Append(frames, Stored(m))
    /\ loop' = [loop EXCEPT ![m] = Done(m)]
    /\ Report(DropMsg(loop[m].ids))
    /\ UNCHANGED <<recorder, ring, lagged, screen, paused, linker, changes>>

-----------------------------------------------------------------------------
(* The frame linker and its actor.                                          *)

\* UPDATE ui_events SET frame_id = f WHERE id = c AND frame_id IS NULL
LinkAll(S, f) ==
    events' = [c \in DOMAIN events |->
                 IF c \in S /\ events[c].frame = 0 THEN [events[c] EXCEPT !.frame = f]
                 ELSE events[c]]

\* What a linker at its capacity gives up for a row, and for a frame.
EvictedRows   == IF Cardinality(waitingRows) < Capacity THEN {} ELSE {Min(waitingRows)}
EvictedFrames == IF Len(waitingFrames) < Capacity THEN {} ELSE Head(waitingFrames).ids

\* Mutation: the oldest entry is not evicted: the queue outgrows its capacity.
StashAll(w) == waitingFrames' = Append(waitingFrames, w)

Stash(w) ==
    waitingFrames' = Append(IF Len(waitingFrames) < Capacity THEN waitingFrames
                            ELSE Tail(waitingFrames), w)

\* The row of c has come for the i-th frame; a frame that waits for no row is removed.
Match(i, c) ==
    LET ids == waitingFrames[i].ids \ {c}
    IN  waitingFrames' = IF ids = {} THEN RemoveAt(waitingFrames, i)
                         ELSE [waitingFrames EXCEPT ![i].ids = ids]

\* The frames that wait for c.  An eviction has shuffled pending_frames: any may be found.
Hits(c) == {i \in DOMAIN waitingFrames : c \in waitingFrames[i].ids}

OnRow(c) ==
    \/ \E i \in Hits(c) :
          /\ LinkAll({c}, waitingFrames[i].frame) /\ Match(i, c)
          /\ UNCHANGED <<waitingRows, lost>>
    \/ /\ Hits(c) = {}
       /\ waitingRows' = (waitingRows \ EvictedRows) \cup {c}
       /\ lost' = lost \cup EvictedRows
       /\ UNCHANGED <<waitingFrames, events>>

\* The rows of S that wait are taken; for the others the frame f waits.
PairFrame(f, S) ==
    LET rest == S \ waitingRows IN
    /\ waitingRows' = waitingRows \ S
    /\ IF rest = {} THEN UNCHANGED waitingFrames ELSE Stash([frame |-> f, ids |-> rest])

\* What the frame costs those that have waited longest.
Displaced(S) == IF S \subseteq waitingRows THEN {} ELSE EvictedFrames

\* Mutation: a frame is kept for the rows to come without a look at those that wait.
OnFrameUnseen(f, S) ==
    /\ Stash([frame |-> f, ids |-> S]) /\ lost' = lost \cup EvictedFrames
    /\ UNCHANGED <<waitingRows, events>>

OnFrame(f, S) ==
    /\ LinkAll(S \cap waitingRows, f) /\ PairFrame(f, S)
    /\ lost' = lost \cup Displaced(S)

\* Mutation: what one loop drops is given up for all.
OnDropForAll(S) ==
    /\ waitingRows' = waitingRows \ S
    /\ UNCHANGED <<events, waitingFrames, lost>>

\* Several loops report the same ids: what one of them drops another may bring.
OnDrop(S) == UNCHANGED <<events, linker, lost>>

Deliver ==
    LET msg == Head(chan) IN
    /\ chan # <<>> /\ chan' = Tail(chan)
    /\ \/ msg.type = "row" /\ \E c \in msg.ids : OnRow(c)
       \/ msg.type = "frame" /\ OnFrame(msg.frame, msg.ids)
       \/ msg.type = "drop" /\ OnDrop(msg.ids)
    /\ UNCHANGED <<batch, scroll, monitors, screen, paused, frames, claimed, bounds>>

\* UPDATEs of some of the rows just paired fail: they are not tried again.
UpdateFails ==
    LET msg == Head(chan) IN
    /\ chan # <<>> /\ Fault /\ chan' = Tail(chan)
    /\ \/ /\ msg.type = "frame" /\ PairFrame(msg.frame, msg.ids)
          /\ \E failed \in SUBSET (msg.ids \cap waitingRows) \ {{}} :
                /\ LinkAll((msg.ids \cap waitingRows) \ failed, msg.frame)
                /\ lost' = lost \cup failed \cup Displaced(msg.ids)
       \/ /\ msg.type = "row"
          /\ \E c \in msg.ids : \E i \in Hits(c) : Match(i, c)
          /\ lost' = lost \cup msg.ids
          /\ UNCHANGED <<events, waitingRows>>
    /\ UNCHANGED <<batch, scroll, monitors, screen, paused, frames, claimed, changes>>

\* tick: what has waited longer than the ttl is given up, the oldest first.
Expire ==
    /\ Fault
    /\ \/ /\ waitingRows # {} /\ waitingRows' = waitingRows \ {Min(waitingRows)}
          /\ lost' = lost \cup {Min(waitingRows)} /\ UNCHANGED waitingFrames
       \/ /\ waitingFrames # <<>> /\ waitingFrames' = Tail(waitingFrames)
          /\ lost' = lost \cup Head(waitingFrames).ids /\ UNCHANGED waitingRows
    /\ UNCHANGED <<recorder, monitors, screen, paused, frames, chan, claimed, changes>>

-----------------------------------------------------------------------------
Recorder == \/ \E k \in Kinds, on \in SUBSET Monitors : Input(k, on)
            \/ BurstEnds \/ FlushStores \/ FlushFails
Around   == \/ \E s \in Contents : ScreenChanges(s)
            \/ \E m \in Monitors : PauseStart(m) \/ PauseEnd(m)
Loops    == \E m \in Monitors :
               \/ Discard(m) \/ Drain(m) \/ Internal(m)
               \/ Capture(m) \/ Skip(m) \/ Blocked(m) \/ CaptureFails(m)
Linker   == Deliver \/ UpdateFails \/ Expire

Next == Recorder \/ Around \/ Loops \/ Linker

Spec == Init /\ [][Next]_vars

Symmetry == Permutations(Monitors) \cup
            (IF Ignored \cup Throttled = {} THEN Permutations(Contents) ELSE {})

-----------------------------------------------------------------------------
(* Properties.                                                              *)

\* A row and a frame that belong together never both wait in the linker: whichever
\* comes second is paired at once (frame_linker.rs:174, 206).
NeverBoth == \A i \in DOMAIN waitingFrames : waitingFrames[i].ids \cap waitingRows = {}

\* An event is only linked to a frame of a monitor whose loop takes it for its own, though
\* every loop receives every trigger and they capture in any order: a click at a point of
\* one monitor, when the loops know its bounds, only to a frame of that monitor.  (Without
\* a point, or off the known bounds, any monitor's frame will do.)
OwnScreen ==
    \A c \in DOMAIN events :
       events[c].frame # 0 => frames[events[c].frame].mon \in events[c].on

\* What a loop remembers is true of the frames it remembers: content that equals
\* last_content_hash is that of last_frame_id, which makes it right to link the events
\* of a duplicate to that frame, and the frame whose elements are reused has elements
\* of its own, for they are read through one reference only (db.rs:7839).
Remembered ==
    \A m \in Monitors :
       LET l == loop[m] IN
       /\ l.hash # None => l.last # 0 /\ frames[l.last].shows = l.hash
       /\ l.last # 0 => frames[l.last].mon = m
       /\ l.anchor.frame # 0 => /\ frames[l.anchor.frame].shows = l.anchor.hash
                                /\ frames[l.anchor.frame].from = l.anchor.frame

\* A stored row a frame was reported for is linked once the linker has seen all that
\* was sent of it, in whatever order the two came and whatever the loops of other
\* monitors reported of it, unless a limit or a failure cost it its link.
RowsLinked ==
    \A c \in DOMAIN events :
       events[c].row = "stored" /\ c \in claimed \ lost
       => events[c].frame # 0 \/ \E i \in DOMAIN chan : c \in chan[i].ids

\* "When consecutive frames have the same content_hash, we skip inserting elements and
\* reference the previous frame's elements instead" (event_driven_capture.rs:648): the
\* elements a frame refers to are those of the same content.
ElementsOwn == \A f \in DOMAIN frames : frames[frames[f].from].shows = frames[f].shows

\* "The screen looks identical to the last captured frame, so link them to that frame"
\* (event_driven_capture.rs:1393), "the events belong to the previous frame visually
\* (screen is the same)" (1488): the frame events are reported for shows what is on
\* the screen.
SameScreen ==
    [][\A i \in (Len(chan) + 1)..Len(chan') :
          chan'[i].type = "frame" => frames'[chan'[i].frame].shows = screen]_vars

=============================================================================
