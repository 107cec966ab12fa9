------------------------ MODULE EventCapture_proofs ------------------------
(***************************************************************************)
(* Theorems about EventCapture, for any monitors, events and frames.        *)
(***************************************************************************)
EXTENDS EventCapture, LeastElement, FiniteSetTheorems, SequenceTheorems, TLAPS

Event == [kind : Kinds, on : SUBSET Monitors, row : {"batch", "stored", "dropped"},
          frame : FrameIds \cup {0}]
Frame == [mon : Monitors, shows : Contents, from : FrameIds]
Msg   == [type : {"row", "frame", "drop"}, ids : SUBSET EventIds, frame : FrameIds \cup {0}]
Wait  == [frame : FrameIds, ids : SUBSET EventIds]

\* An event e may be linked to a frame of monitor m.
Own(e, m) == m \in e.on

\* The events ev of the ids S may be linked to the frame f of the table fr.
MayLink(S, f, ev, fr) == f \in DOMAIN fr /\ \A c \in S : Own(ev[c], fr[f].mon)

EventTypes ==
    /\ events \in Seq(Event) /\ Len(events) <= MaxEvents
    /\ \A c \in DOMAIN events : events[c].frame # 0 => MayLink({c}, events[c].frame, events, frames)

FrameTypes == frames \in Seq(Frame) /\ Len(frames) <= MaxFrames

BatchTypes ==
    /\ batch \in Seq(EventIds) /\ scroll \in (DOMAIN events) \cup {0}
    /\ ToSet(batch) = {c \in DOMAIN events : events[c].row = "batch"}

RingTypes ==
    /\ ring \in [Monitors -> Seq(EventIds)] /\ lagged \subseteq Monitors
    /\ \A m \in Monitors : /\ Len(ring[m]) <= Ring
                           /\ \A i \in DOMAIN ring[m] : ring[m][i] \in DOMAIN events

AroundTypes == screen \in Contents /\ paused \subseteq Monitors

\* A loop captures for events of its monitor.  What it remembers is true of frames of its
\* monitor that are stored.
Knows(l, m, ev, fr) ==
    /\ \A c \in l.ids : c \in DOMAIN ev /\ Own(ev[c], m)
    /\ l.last # 0 => l.last \in DOMAIN fr /\ fr[l.last].mon = m
    /\ l.hash # None => l.last # 0 /\ fr[l.last].shows = l.hash
    /\ l.anchor.frame # 0 => /\ l.anchor.frame \in DOMAIN fr
                             /\ fr[l.anchor.frame].shows = l.anchor.hash
                             /\ fr[l.anchor.frame].from = l.anchor.frame

LoopTypes ==
    /\ loop \in [Monitors -> Loop]
    /\ \A m \in Monitors : Knows(loop[m], m, events, frames)

\* What a message may say.
Good(msg, ev, fr) ==
    /\ msg.ids \subseteq DOMAIN ev
    /\ msg.type = "row" => \E c \in msg.ids : msg.ids = {c}
    /\ msg.type = "frame" => MayLink(msg.ids, msg.frame, ev, fr)

ChanTypes ==
    /\ chan \in Seq(Msg) /\ Len(chan) <= Buffer
    /\ \A i \in DOMAIN chan : Good(chan[i], events, frames)

WaitTypes ==
    /\ waitingRows \subseteq DOMAIN events /\ Cardinality(waitingRows) <= Capacity
    /\ waitingFrames \in Seq(Wait) /\ Len(waitingFrames) <= Capacity
    /\ \A i \in DOMAIN waitingFrames :
          /\ waitingFrames[i].ids \subseteq DOMAIN events
          /\ MayLink(waitingFrames[i].ids, waitingFrames[i].frame, events, frames)

GhostTypes == claimed \subseteq DOMAIN events /\ lost \subseteq DOMAIN events

Types == EventTypes /\ FrameTypes /\ BatchTypes /\ RingTypes /\ AroundTypes /\ LoopTypes
         /\ ChanTypes /\ WaitTypes /\ GhostTypes

\* A stored row that has not been linked or lost is on its way to the linker or waits there.
RowsKept ==
    \A c \in DOMAIN events :
       events[c].row = "stored" /\ c \notin lost =>
          \/ events[c].frame # 0 \/ c \in waitingRows
          \/ \E i \in DOMAIN chan : chan[i].type = "row" /\ c \in chan[i].ids

\* So is a frame that was reported for it.
FramesKept ==
    \A c \in claimed \ lost :
       \/ events[c].frame # 0
       \/ \E i \in DOMAIN waitingFrames : c \in waitingFrames[i].ids
       \/ \E i \in DOMAIN chan : chan[i].type = "frame" /\ c \in chan[i].ids

Links == RowsKept /\ FramesKept /\ NeverBoth

IInv == Types /\ Links

USE ConstantsAssumption

-----------------------------------------------------------------------------
(* Events keep what they are and frames are only added: what may be linked   *)
(* may be linked from then on.                                              *)

More(ev, nev, fr, nfr) ==
    /\ DOMAIN ev \subseteq DOMAIN nev /\ DOMAIN fr \subseteq DOMAIN nfr
    /\ \A c \in DOMAIN ev : nev[c].kind = ev[c].kind /\ nev[c].on = ev[c].on
    /\ \A f \in DOMAIN fr : nfr[f] = fr[f]

Grows == More(events, events', frames, frames')

LEMMA MayLinkMore ==
    ASSUME NEW ev, NEW nev, NEW fr, NEW nfr, More(ev, nev, fr, nfr),
           NEW S \in SUBSET DOMAIN ev, NEW f, MayLink(S, f, ev, fr)
    PROVE  MayLink(S, f, nev, nfr)
  BY DEF More, MayLink, Own

LEMMA GoodMore ==
    ASSUME NEW ev, NEW nev, NEW fr, NEW nfr, More(ev, nev, fr, nfr),
           NEW msg, Good(msg, ev, fr)
    PROVE  Good(msg, nev, nfr)
<1>1. msg.ids \subseteq DOMAIN ev
  BY DEF Good
<1>2. msg.type = "frame" => MayLink(msg.ids, msg.frame, nev, nfr)
  BY <1>1, MayLinkMore DEF Good
<1>. QED
  BY <1>1, <1>2 DEF Good, More

LEMMA AppendEvents ==
    ASSUME events \in Seq(Event), NEW e \in Event, events' = Append(events, e), UNCHANGED frames
    PROVE  /\ Grows /\ events' \in Seq(Event) /\ Len(events') = Len(events) + 1
           /\ DOMAIN events' = (DOMAIN events) \cup {Len(events) + 1}
           /\ \A c \in DOMAIN events : events'[c] = events[c]
           /\ events'[Len(events) + 1] = e
  BY DEF Grows, More

LEMMA AppendFrames ==
    ASSUME frames \in Seq(Frame), NEW x \in Frame, frames' = Append(frames, x), UNCHANGED events
    PROVE  /\ Grows /\ frames' \in Seq(Frame) /\ Len(frames') = Len(frames) + 1
           /\ DOMAIN frames' = (DOMAIN frames) \cup {Len(frames) + 1}
           /\ \A f \in DOMAIN frames : frames'[f] = frames[f]
           /\ frames'[Len(frames) + 1] = x
  BY DEF Grows, More

\* A new value of the row or of the frame_id of some events.
LEMMA MapEvents ==
    ASSUME events \in Seq(Event), NEW F \in [DOMAIN events -> Event], events' = F
    PROVE  events' \in Seq(Event) /\ Len(events') = Len(events) /\ DOMAIN events' = DOMAIN events
  OBVIOUS

-----------------------------------------------------------------------------
(* The channel.                                                             *)

\* Everything that was in the channel stays, and what is sent and not lost gets in.
LEMMA Sending ==
    ASSUME chan \in Seq(Msg), Len(chan) <= Buffer, NEW msgs \in Seq(Msg), Send(msgs)
    PROVE  /\ chan' \in Seq(Msg) /\ Len(chan') <= Buffer
           /\ \A i \in DOMAIN chan : i \in DOMAIN chan' /\ chan'[i] = chan[i]
           /\ \A i \in DOMAIN chan' \ DOMAIN chan : \E j \in DOMAIN msgs : chan'[i] = msgs[j]
           /\ \A j \in DOMAIN msgs : \/ \E i \in DOMAIN chan' : chan'[i] = msgs[j]
                                     \/ msgs[j].type = "row" => msgs[j].ids \subseteq lost'
           /\ claimed \subseteq claimed' /\ lost \subseteq lost'
           /\ \A c \in claimed' \ claimed : \E i \in DOMAIN chan' : chan'[i].type = "frame" /\ c \in chan'[i].ids
           /\ \A c \in lost' \ lost : \E j \in DOMAIN msgs : c \in msgs[j].ids
<1>. DEFINE fits == Min({Len(msgs), Buffer - Len(chan)})
<1>1. fits \in 0..Len(msgs) /\ Len(chan) + fits <= Buffer
  BY DEF Min
<1>. DEFINE sent == SubSeq(msgs, 1, fits)
<1>. HIDE DEF fits
<1>2. chan' = chan \o sent
  BY DEF Send, fits
<1>3. claimed' = claimed \cup UNION {msgs[i].ids : i \in {j \in 1..fits : msgs[j].type = "frame"}}
  BY DEF Send, fits
<1>4. lost' = lost \cup UNION {msgs[i].ids : i \in {j \in fits + 1..Len(msgs) : msgs[j].type = "row"}}
  BY DEF Send, fits
<1>5. sent \in Seq(Msg) /\ Len(sent) = fits /\ \A i \in 1..fits : sent[i] = msgs[i]
  BY <1>1
<1>. HIDE DEF sent
<1>6. /\ chan' \in Seq(Msg) /\ Len(chan') = Len(chan) + fits
      /\ \A i \in 1..Len(chan) + fits : chan'[i] = IF i <= Len(chan) THEN chan[i]
                                                  ELSE sent[i - Len(chan)]
  BY <1>2, <1>5, ConcatProperties
<1>7. \A i \in 1..Len(chan) : chan'[i] = chan[i]
  BY <1>6, <1>1
<1>8. \A i \in 1..fits : Len(chan) + i \in DOMAIN chan' /\ chan'[Len(chan) + i] = msgs[i]
  <2>. TAKE i \in 1..fits
  <2>. DEFINE k == Len(chan) + i
  <2>1. k \in 1..Len(chan) + fits /\ ~(k <= Len(chan)) /\ k - Len(chan) = i
    BY <1>1
  <2>. HIDE DEF k
  <2>2. chan'[k] = sent[i]
    BY <2>1, <1>6
  <2>3. k \in DOMAIN chan' /\ sent[i] = msgs[i]
    BY <2>1, <1>5, <1>6
  <2>. QED
    BY <2>2, <2>3 DEF k
<1>9. \A i \in DOMAIN chan' \ DOMAIN chan : i - Len(chan) \in 1..fits /\ chan'[i] = msgs[i - Len(chan)]
  BY <1>8, <1>6, <1>1
<1>10. \A i \in DOMAIN chan : i \in DOMAIN chan' /\ chan'[i] = chan[i]
  <2>1. DOMAIN chan = 1..Len(chan) /\ DOMAIN chan' = 1..Len(chan')
    BY <1>6
  <2>2. Len(chan) \in Nat /\ Len(chan) <= Len(chan')
    BY <1>6, <1>1
  <2>. QED
    BY <2>1, <2>2, <1>7
<1>11. \A i \in DOMAIN chan' \ DOMAIN chan : \E j \in DOMAIN msgs : chan'[i] = msgs[j]
  BY <1>9, <1>1
<1>12. \A j \in DOMAIN msgs : \/ \E i \in DOMAIN chan' : chan'[i] = msgs[j]
                              \/ msgs[j].type = "row" => msgs[j].ids \subseteq lost'
  <2>. TAKE j \in DOMAIN msgs
  <2>1. CASE j \in 1..fits
    BY <2>1, <1>8
  <2>2. CASE j \notin 1..fits
    <3>1. j \in fits + 1..Len(msgs)
      BY <2>2, <1>1
    <3>. QED
      BY <3>1, <1>4
  <2>. QED
    BY <2>1, <2>2
<1>13. \A c \in claimed' \ claimed : \E i \in DOMAIN chan' : chan'[i].type = "frame" /\ c \in chan'[i].ids
  <2>. TAKE c \in claimed' \ claimed
  <2>1. PICK j \in 1..fits : msgs[j].type = "frame" /\ c \in msgs[j].ids
    BY <1>3
  <2>. QED
    BY <2>1, <1>8
<1>14. \A c \in lost' \ lost : \E j \in DOMAIN msgs : c \in msgs[j].ids
  BY <1>4, <1>1
<1>. QED
  BY <1>1, <1>3, <1>4, <1>6, <1>10, <1>11, <1>12, <1>13, <1>14

LEMMA SendTypes ==
    ASSUME ChanTypes, GhostTypes, Grows, NEW msgs \in Seq(Msg), Send(msgs),
           \A j \in DOMAIN msgs : Good(msgs[j], events', frames')
    PROVE  ChanTypes' /\ GhostTypes'
<1>1. \A i \in DOMAIN chan' : Good(chan'[i], events', frames')
  <2>. TAKE i \in DOMAIN chan'
  <2>1. CASE i \in DOMAIN chan
    BY <2>1, Sending, GoodMore DEF ChanTypes, Grows
  <2>2. CASE i \notin DOMAIN chan
    <3>1. \E j \in DOMAIN msgs : chan'[i] = msgs[j]
      BY <2>2, Sending DEF ChanTypes
    <3>. QED
      BY <3>1
  <2>. QED
    BY <2>1, <2>2
<1>2. chan' \in Seq(Msg) /\ Len(chan') <= Buffer
  BY Sending DEF ChanTypes
<1>3. DOMAIN events \subseteq DOMAIN events'
  BY DEF Grows, More
<1>4. claimed' \subseteq DOMAIN events'
  <2>. SUFFICES ASSUME NEW c \in claimed', c \notin claimed
                PROVE  c \in DOMAIN events'
    BY <1>3 DEF GhostTypes
  <2>. QED
    BY <1>1, Sending DEF ChanTypes, Good
<1>5. lost' \subseteq DOMAIN events'
  <2>. SUFFICES ASSUME NEW c \in lost', c \notin lost
                PROVE  c \in DOMAIN events'
    BY <1>3 DEF GhostTypes
  <2>. QED
    BY Sending DEF ChanTypes, Good
<1>. QED
  BY <1>1, <1>2, <1>4, <1>5 DEF ChanTypes, GhostTypes

-----------------------------------------------------------------------------
(* What an action leaves alone stays well typed.                            *)

LEMMA EventsKept ==
    ASSUME EventTypes, Grows, UNCHANGED events
    PROVE  EventTypes'
<1>. SUFFICES ASSUME NEW c \in DOMAIN events, events[c].frame # 0
              PROVE  MayLink({c}, events[c].frame, events', frames')
  BY DEF EventTypes
<1>. QED
  BY MayLinkMore DEF Grows, EventTypes

LEMMA RingKept ==
    ASSUME RingTypes, Grows, UNCHANGED <<ring, lagged>>
    PROVE  RingTypes'
  BY DEF RingTypes, Grows, More

LEMMA KnowsMore ==
    ASSUME NEW ev, NEW nev, NEW fr, NEW nfr, More(ev, nev, fr, nfr),
           NEW l, NEW m, Knows(l, m, ev, fr)
    PROVE  Knows(l, m, nev, nfr)
<1>1. \A c \in l.ids : c \in DOMAIN nev /\ Own(nev[c], m)
  BY DEF Knows, More, Own
<1>2. l.last # 0 => l.last \in DOMAIN nfr /\ nfr[l.last] = fr[l.last]
  BY DEF Knows, More
<1>3. l.anchor.frame # 0 => l.anchor.frame \in DOMAIN nfr /\ nfr[l.anchor.frame] = fr[l.anchor.frame]
  BY DEF Knows, More
<1>. QED
  BY <1>1, <1>2, <1>3 DEF Knows

LEMMA LoopKept ==
    ASSUME LoopTypes, Grows, UNCHANGED loop
    PROVE  LoopTypes'
  BY KnowsMore DEF LoopTypes, Grows

LEMMA ChanKept ==
    ASSUME ChanTypes, GhostTypes, Grows, UNCHANGED <<chan, claimed, lost>>
    PROVE  ChanTypes' /\ GhostTypes'
<1>1. GhostTypes'
  BY DEF GhostTypes, Grows, More
<1>2. \A i \in DOMAIN chan : Good(chan[i], events', frames')
  BY GoodMore DEF ChanTypes, Grows
<1>. QED
  BY <1>1, <1>2 DEF ChanTypes

LEMMA WaitKept ==
    ASSUME WaitTypes, Grows, UNCHANGED linker
    PROVE  WaitTypes'
<1>1. waitingRows' \subseteq DOMAIN events'
  BY DEF WaitTypes, Grows, More, linker
<1>2. \A i \in DOMAIN waitingFrames :
         /\ waitingFrames[i].ids \subseteq DOMAIN events'
         /\ MayLink(waitingFrames[i].ids, waitingFrames[i].frame, events', frames')
  <2>. TAKE i \in DOMAIN waitingFrames
  <2>1. /\ waitingFrames[i].ids \subseteq DOMAIN events
        /\ MayLink(waitingFrames[i].ids, waitingFrames[i].frame, events, frames)
    BY DEF WaitTypes
  <2>2. MayLink(waitingFrames[i].ids, waitingFrames[i].frame, events', frames')
    BY <2>1, MayLinkMore DEF Grows
  <2>. QED
    BY <2>1, <2>2 DEF Grows, More
<1>. QED
  BY <1>1, <1>2 DEF WaitTypes, linker

\* No event and no frame is new, and none changes.
LEMMA Still ==
    ASSUME UNCHANGED <<events, frames>>
    PROVE  Grows
  BY DEF Grows, More

LEMMA BatchKept ==
    ASSUME BatchTypes, UNCHANGED recorder
    PROVE  BatchTypes'
  BY DEF BatchTypes, recorder, ToSet

LEMMA FramesKeptTypes ==
    ASSUME FrameTypes, UNCHANGED frames
    PROVE  FrameTypes'
  BY DEF FrameTypes

-----------------------------------------------------------------------------
(* The types, action by action.                                             *)

LEMMA InitTypes == Init => Types
<1>. SUFFICES ASSUME Init
              PROVE  Types
  OBVIOUS
<1>1. EventTypes /\ FrameTypes /\ BatchTypes
  BY DEF Init, EventTypes, FrameTypes, BatchTypes, ToSet
<1>2. RingTypes /\ AroundTypes
  BY DEF Init, RingTypes, AroundTypes
<1>3. LoopTypes
  BY DEF Init, LoopTypes, Knows, NewLoop, NoAnchor, Loop, Anchor, Hashes
<1>4. Cardinality(waitingRows) <= Capacity
  BY FS_EmptySet DEF Init
<1>5. ChanTypes /\ WaitTypes /\ GhostTypes
  BY <1>4 DEF Init, ChanTypes, WaitTypes, GhostTypes
<1>. QED
  BY <1>1, <1>2, <1>3, <1>5 DEF Types

LEMMA BroadcastTypes ==
    ASSUME RingTypes, Grows, NEW c \in EventIds, c \in DOMAIN events', Broadcast(c)
    PROVE  RingTypes'
<1>1. lagged' \subseteq Monitors
  BY DEF Broadcast, RingTypes
<1>2. ASSUME NEW m \in Monitors
      PROVE  /\ ring'[m] \in Seq(EventIds) /\ Len(ring'[m]) <= Ring
             /\ \A i \in DOMAIN ring'[m] : ring'[m][i] \in DOMAIN events'
  <2>0. ring[m] \in Seq(EventIds) /\ Len(ring[m]) <= Ring
    BY DEF RingTypes
  <2>. DEFINE q == IF Len(ring[m]) = Ring THEN Tail(ring[m]) ELSE ring[m]
  <2>1. ring'[m] = Append(q, c)
    BY DEF Broadcast, RingTypes
  <2>2. q \in Seq(EventIds) /\ Len(q) < Ring
    BY <2>0
  <2>3. \A i \in DOMAIN q : q[i] \in DOMAIN events'
    <3>1. \A i \in DOMAIN ring[m] : ring[m][i] \in DOMAIN events'
      BY DEF RingTypes, Grows, More
    <3>2. CASE Len(ring[m]) = Ring
      BY <2>0, <3>1, <3>2
    <3>. QED
      BY <3>1, <3>2
  <2>. HIDE DEF q
  <2>. QED
    BY <2>1, <2>2, <2>3
<1>3. ring' \in [Monitors -> Seq(EventIds)]
  BY <1>2 DEF Broadcast, RingTypes
<1>. QED
  BY <1>1, <1>2, <1>3 DEF RingTypes

LEMMA AppendSet ==
    ASSUME NEW S, NEW q \in Seq(S), NEW x \in S
    PROVE  ToSet(Append(q, x)) = ToSet(q) \cup {x}
<1>1. Len(Append(q, x)) = Len(q) + 1 /\ Append(q, x)[Len(q) + 1] = x
      /\ \A i \in 1..Len(q) : Append(q, x)[i] = q[i]
  OBVIOUS
<1>2. DOMAIN Append(q, x) = (DOMAIN q) \cup {Len(q) + 1}
  OBVIOUS
<1>. QED
  BY <1>1, <1>2 DEF ToSet

LEMMA InputTypes ==
    ASSUME Types, NEW k \in Kinds, NEW on \in SUBSET Monitors, Input(k, on)
    PROVE  Types' /\ Grows
<1>. DEFINE c == Len(events) + 1
            e == [kind |-> k, on |-> on, row |-> "batch", frame |-> 0]
<1>1. c \in EventIds /\ c \notin DOMAIN events /\ e \in Event /\ e.frame = 0 /\ e.row = "batch"
  BY DEF Types, EventTypes, Input, EventIds, Event
<1>2. events \in Seq(Event) /\ events' = Append(events, e) /\ batch' = Append(batch, c)
      /\ UNCHANGED <<frames, loop, chan, claimed, lost, waitingRows, waitingFrames, screen, paused>>
  BY DEF Types, EventTypes, Input, linker
<1>3. /\ Grows /\ events' \in Seq(Event) /\ Len(events') = c
      /\ DOMAIN events' = (DOMAIN events) \cup {c}
      /\ \A d \in DOMAIN events : events'[d] = events[d]
      /\ events'[c] = e
  BY <1>1, <1>2, AppendEvents
<1>. HIDE DEF c, e
<1>4. EventTypes'
  <2>1. \A d \in DOMAIN events' : events'[d].frame # 0 =>
           MayLink({d}, events'[d].frame, events', frames')
    <3>. SUFFICES ASSUME NEW d \in DOMAIN events, events[d].frame # 0
                  PROVE  MayLink({d}, events[d].frame, events', frames')
      BY <1>1, <1>3
    <3>1. MayLink({d}, events[d].frame, events, frames)
      BY DEF Types, EventTypes
    <3>. QED
      BY <3>1, <1>3, MayLinkMore DEF Grows
  <2>2. Len(events') <= MaxEvents
    BY <1>1, <1>3 DEF EventIds
  <2>. QED
    BY <1>3, <2>1, <2>2 DEF EventTypes
<1>5. BatchTypes'
  <2>0. batch \in Seq(EventIds) /\ scroll \in (DOMAIN events) \cup {0}
    BY DEF Types, BatchTypes
  <2>1. batch' \in Seq(EventIds) /\ scroll' \in (DOMAIN events') \cup {0}
    BY <2>0, <1>1, <1>2, <1>3 DEF Input
  <2>2. ToSet(batch') = ToSet(batch) \cup {c}
    BY <2>0, <1>1, <1>2, AppendSet
  <2>. QED
    BY <2>1, <2>2, <1>1, <1>3 DEF Types, BatchTypes
<1>6. RingTypes'
  <2>1. CASE k = "scroll"
    BY <2>1, <1>3, RingKept DEF Types, Input
  <2>2. CASE k # "scroll"
    BY <2>2, <1>1, <1>3, BroadcastTypes DEF Types, Input
  <2>. QED
    BY <2>1, <2>2
<1>7. LoopTypes' /\ ChanTypes' /\ GhostTypes' /\ WaitTypes'
  BY <1>2, <1>3, LoopKept, ChanKept, WaitKept DEF Types, linker
<1>8. FrameTypes' /\ AroundTypes'
  BY <1>2 DEF Types, FrameTypes, AroundTypes
<1>. QED
  BY <1>3, <1>4, <1>5, <1>6, <1>7, <1>8 DEF Types

LEMMA BurstEndsTypes ==
    ASSUME Types, BurstEnds
    PROVE  Types' /\ Grows
<1>0. UNCHANGED <<events, frames, loop, chan, claimed, lost, waitingRows, waitingFrames, screen,
                  paused, batch>> /\ scroll' = 0
  BY DEF BurstEnds, linker
<1>1. Grows
  BY <1>0, Still
<1>2. scroll \in EventIds /\ scroll \in DOMAIN events'
  BY <1>0 DEF BurstEnds, Types, BatchTypes, EventTypes, EventIds
<1>3. RingTypes'
  BY <1>1, <1>2, BroadcastTypes DEF Types, BurstEnds
<1>4. EventTypes' /\ LoopTypes' /\ ChanTypes' /\ GhostTypes' /\ WaitTypes'
  BY <1>0, <1>1, EventsKept, LoopKept, ChanKept, WaitKept DEF Types, linker
<1>5. FrameTypes' /\ AroundTypes' /\ BatchTypes'
  BY <1>0 DEF Types, FrameTypes, AroundTypes, BatchTypes, ToSet
<1>. QED
  BY <1>1, <1>3, <1>4, <1>5 DEF Types

\* A flush changes the state of the rows of the batch, and nothing else of an event.
LEMMA Flushing ==
    ASSUME Types, NEW row \in {"stored", "dropped"}, Flush(row)
    PROVE  /\ Grows /\ EventTypes' /\ BatchTypes' /\ DOMAIN events' = DOMAIN events
           /\ \A c \in DOMAIN events : /\ events'[c].frame = events[c].frame
                                       /\ c \notin ToSet(batch) => events'[c] = events[c]
<1>. DEFINE F == [c \in DOMAIN events |->
                    IF c \in ToSet(batch) THEN [events[c] EXCEPT !.row = row] ELSE events[c]]
<1>1. events' = F /\ batch' = <<>> /\ UNCHANGED <<scroll, frames>>
  BY DEF Flush
<1>2. ASSUME NEW c \in DOMAIN events
      PROVE  /\ F[c] \in Event /\ F[c].kind = events[c].kind /\ F[c].on = events[c].on
             /\ F[c].frame = events[c].frame
             /\ c \in ToSet(batch) => F[c].row = row
             /\ c \notin ToSet(batch) => F[c] = events[c]
  <2>1. events[c] \in Event
    BY DEF Types, EventTypes
  <2>. QED
    BY <2>1 DEF Event
<1>3. F \in [DOMAIN events -> Event]
  BY <1>2
<1>. HIDE DEF F
<1>4. events' \in Seq(Event) /\ Len(events') = Len(events) /\ DOMAIN events' = DOMAIN events
  BY <1>1, <1>3, MapEvents DEF Types, EventTypes
<1>5. Grows
  BY <1>1, <1>2, <1>4 DEF Grows, More
<1>6. EventTypes'
  <2>1. ASSUME NEW c \in DOMAIN events', events'[c].frame # 0
        PROVE  MayLink({c}, events'[c].frame, events', frames')
    <3>1. MayLink({c}, events'[c].frame, events, frames)
      BY <1>1, <1>2, <1>4, <2>1 DEF Types, EventTypes
    <3>. QED
      BY <3>1, <1>4, <1>5, MayLinkMore DEF Grows
  <2>. QED
    BY <2>1, <1>4 DEF Types, EventTypes
<1>7. BatchTypes'
  <2>1. ToSet(batch') = {}
    BY <1>1 DEF ToSet
  <2>2. \A c \in DOMAIN events : c \notin ToSet(batch) => events[c].row # "batch"
    BY DEF Types, BatchTypes
  <2>3. \A c \in DOMAIN events' : events'[c].row # "batch"
    BY <1>1, <1>2, <1>4, <2>2
  <2>. QED
    BY <1>1, <1>4, <2>1, <2>3 DEF Types, BatchTypes
<1>. QED
  BY <1>1, <1>2, <1>4, <1>5, <1>6, <1>7

\* The messages of a flush.
LEMMA RowMsgs ==
    ASSUME BatchTypes
    PROVE  LET msgs == [i \in DOMAIN batch |-> RowMsg(batch[i])] IN
           /\ msgs \in Seq(Msg)
           /\ \A i \in DOMAIN msgs : Good(msgs[i], events, frames)
<1>. DEFINE msgs == [i \in DOMAIN batch |-> RowMsg(batch[i])]
<1>1. \A i \in DOMAIN batch : RowMsg(batch[i]) \in Msg
  BY DEF BatchTypes, RowMsg, Msg
<1>2. msgs \in Seq(Msg)
  BY <1>1 DEF BatchTypes
<1>3. \A i \in DOMAIN batch : batch[i] \in DOMAIN events
  BY DEF BatchTypes, ToSet
<1>4. \A i \in DOMAIN batch : Good(RowMsg(batch[i]), events, frames)
  BY <1>3 DEF Good, RowMsg
<1>. QED
  BY <1>2, <1>4

LEMMA FlushStoresTypes ==
    ASSUME Types, FlushStores
    PROVE  Types' /\ Grows
<1>. DEFINE msgs == [i \in DOMAIN batch |-> RowMsg(batch[i])]
<1>1. Flush("stored") /\ Send(msgs)
  BY DEF FlushStores
<1>2. Grows /\ EventTypes' /\ BatchTypes'
  BY <1>1, Flushing
<1>3. msgs \in Seq(Msg) /\ \A i \in DOMAIN msgs : Good(msgs[i], events', frames')
  BY <1>2, RowMsgs, GoodMore DEF Types, Grows
<1>. HIDE DEF msgs
<1>4. ChanTypes' /\ GhostTypes'
  BY <1>1, <1>2, <1>3, SendTypes DEF Types
<1>5. LoopTypes' /\ WaitTypes' /\ RingTypes'
  BY <1>1, <1>2, LoopKept, WaitKept, RingKept DEF Types, Flush, monitors
<1>6. FrameTypes' /\ AroundTypes'
  BY <1>1 DEF Types, FrameTypes, AroundTypes, Flush
<1>. QED
  BY <1>2, <1>4, <1>5, <1>6 DEF Types

LEMMA FlushFailsTypes ==
    ASSUME Types, FlushFails
    PROVE  Types' /\ Grows
<1>1. Flush("dropped") /\ UNCHANGED <<chan, claimed, lost>>
  BY DEF FlushFails
<1>2. Grows /\ EventTypes' /\ BatchTypes'
  BY <1>1, Flushing
<1>5. LoopTypes' /\ WaitTypes' /\ RingTypes' /\ ChanTypes' /\ GhostTypes'
  BY <1>1, <1>2, LoopKept, WaitKept, RingKept, ChanKept DEF Types, Flush, monitors
<1>6. FrameTypes' /\ AroundTypes'
  BY <1>1 DEF Types, FrameTypes, AroundTypes, Flush
<1>. QED
  BY <1>2, <1>5, <1>6 DEF Types

\* Only the screen or the pauses change.
LEMMA AroundStep ==
    ASSUME Types, UNCHANGED <<recorder, monitors, frames, chan, linker, claimed, lost>>, AroundTypes'
    PROVE  Types' /\ Grows
<1>0. UNCHANGED <<events, batch, scroll, ring, lagged, loop, frames, chan, claimed, lost>>
  BY DEF recorder, monitors
<1>1. Grows
  BY <1>0, Still
<1>2. EventTypes' /\ LoopTypes' /\ ChanTypes' /\ GhostTypes' /\ WaitTypes' /\ RingTypes'
  BY <1>0, <1>1, EventsKept, LoopKept, ChanKept, WaitKept, RingKept DEF Types
<1>3. FrameTypes' /\ BatchTypes'
  BY <1>0, BatchKept, FramesKeptTypes DEF Types, recorder
<1>. QED
  BY <1>1, <1>2, <1>3 DEF Types

LEMMA AroundStepTypes ==
    ASSUME Types, Around
    PROVE  Types' /\ Grows
<1>1. ASSUME NEW s \in Contents, ScreenChanges(s)
      PROVE  Types' /\ Grows
  BY <1>1, AroundStep DEF ScreenChanges, Types, AroundTypes
<1>2. ASSUME NEW m \in Monitors, PauseStart(m) \/ PauseEnd(m)
      PROVE  Types' /\ Grows
  <2>1. AroundTypes'
    BY <1>2 DEF PauseStart, PauseEnd, Types, AroundTypes
  <2>. QED
    BY <1>2, <2>1, AroundStep DEF PauseStart, PauseEnd
<1>. QED
  BY <1>1, <1>2 DEF Around

\* Messages that may be sent: what they say is true of the tables after the step.
Sendable(msgs) ==
    msgs \in Seq(Msg) /\ \A i \in DOMAIN msgs : Good(msgs[i], events', frames')

LEMMA OneMessage ==
    ASSUME NEW msg \in Msg, Good(msg, events', frames')
    PROVE  Sendable(<<msg>>) /\ Sendable(About(msg))
  BY DEF Sendable, About

LEMMA NoticeSendable ==
    ASSUME NEW m
    PROVE  Sendable(Notice(m)) /\ Sendable(<<>>)
<1>1. DropMsg({}) \in Msg /\ Good(DropMsg({}), events', frames')
  BY DEF DropMsg, Msg, Good
<1>2. Sendable(<<>>)
  BY DEF Sendable
<1>. QED
  BY <1>1, <1>2, OneMessage DEF Notice

LEMMA TwoMessages ==
    ASSUME NEW sent, Sendable(sent), NEW msg \in Msg, Good(msg, events', frames')
    PROVE  Sendable(sent \o <<msg>>)
<1>1. sent \in Seq(Msg) /\ <<msg>> \in Seq(Msg)
  BY DEF Sendable
<1>2. /\ sent \o <<msg>> \in Seq(Msg) /\ Len(sent \o <<msg>>) = Len(sent) + 1
      /\ \A i \in 1..Len(sent) + 1 : (sent \o <<msg>>)[i] = IF i <= Len(sent) THEN sent[i] ELSE msg
  BY <1>1, ConcatProperties
<1>. QED
  BY <1>1, <1>2 DEF Sendable

\* The step of a loop: it sends msgs and remembers l.
LEMMA LoopStep ==
    ASSUME Types, Grows, NEW m \in Monitors, NEW l \in Loop, Knows(l, m, events', frames'),
           loop' = [loop EXCEPT ![m] = l] \/ UNCHANGED loop,
           NEW msgs, Sendable(msgs), Send(msgs) \/ UNCHANGED <<chan, claimed, lost>>,
           UNCHANGED recorder, UNCHANGED linker,
           FrameTypes', RingTypes', AroundTypes'
    PROVE  Types'
<1>1. LoopTypes'
  <2>1. CASE UNCHANGED loop
    BY <2>1, LoopKept DEF Types
  <2>2. CASE loop' = [loop EXCEPT ![m] = l]
    <3>1. \A n \in Monitors : Knows(loop[n], n, events', frames')
      BY KnowsMore DEF Grows, Types, LoopTypes
    <3>2. \A n \in Monitors : loop'[n] = IF n = m THEN l ELSE loop[n]
      BY <2>2 DEF Types, LoopTypes
    <3>3. loop' \in [Monitors -> Loop]
      BY <2>2 DEF Types, LoopTypes
    <3>. QED
      BY <3>1, <3>2, <3>3 DEF LoopTypes
  <2>. QED
    BY <2>1, <2>2
<1>2. ChanTypes' /\ GhostTypes'
  <2>1. CASE Send(msgs)
    BY <2>1, SendTypes DEF Types, Sendable
  <2>2. CASE UNCHANGED <<chan, claimed, lost>>
    BY <2>2, ChanKept DEF Types
  <2>. QED
    BY <2>1, <2>2
<1>3. EventTypes' /\ BatchTypes' /\ WaitTypes'
  BY EventsKept, BatchKept, WaitKept DEF Types, recorder
<1>. QED
  BY <1>1, <1>2, <1>3 DEF Types

\* A loop receives all its triggers.
LEMMA Received ==
    ASSUME RingTypes, NEW m \in Monitors, UNCHANGED events,
           ring' = [ring EXCEPT ![m] = <<>>], lagged' = lagged \ {m}
    PROVE  RingTypes'
  BY DEF RingTypes

\* What a loop knows when a capture ends.
LEMMA DoneKnows ==
    ASSUME LoopTypes, NEW m \in Monitors
    PROVE  /\ loop[m] \in Loop /\ Done(m) \in Loop
           /\ Knows(loop[m], m, events, frames) /\ Knows(Done(m), m, events, frames)
<1>1. loop[m] \in Loop /\ Knows(loop[m], m, events, frames)
  BY DEF LoopTypes
<1>2. Done(m) \in Loop
  BY <1>1 DEF Loop, Done
<1>3. /\ Done(m).ids = {} /\ Done(m).last = loop[m].last /\ Done(m).hash = loop[m].hash
      /\ Done(m).anchor = loop[m].anchor
  BY <1>1 DEF Loop, Done
<1>. QED
  BY <1>1, <1>2, <1>3 DEF Knows

\* The ids a loop captures for may be linked to its last frame.
LEMMA LastFrame ==
    ASSUME LoopTypes, FrameTypes, NEW m \in Monitors, NEW S \in SUBSET EventIds,
           \A c \in S : c \in DOMAIN events /\ Own(events[c], m), loop[m].last # 0
    PROVE  LET msg == FrameMsg(loop[m].last, S) IN msg \in Msg /\ Good(msg, events, frames)
<1>1. loop[m] \in Loop /\ Knows(loop[m], m, events, frames)
  BY DEF LoopTypes
<1>2. loop[m].last \in FrameIds \cup {0}
  BY <1>1 DEF Loop
<1>3. FrameMsg(loop[m].last, S) \in Msg
  BY <1>2 DEF FrameMsg, Msg
<1>4. MayLink(S, loop[m].last, events, frames)
  BY <1>1 DEF MayLink, Knows
<1>. QED
  BY <1>3, <1>4 DEF Good, FrameMsg

LEMMA Dropped ==
    ASSUME NEW S \in SUBSET EventIds, S \subseteq DOMAIN events'
    PROVE  DropMsg(S) \in Msg /\ Good(DropMsg(S), events', frames')
  BY DEF DropMsg, Msg, Good

LEMMA DiscardTypes ==
    ASSUME Types, NEW m \in Monitors, Discard(m)
    PROVE  Types' /\ Grows
<1>0. /\ UNCHANGED recorder /\ UNCHANGED <<events, frames, loop, screen, paused>> /\ UNCHANGED linker
      /\ ring' = [ring EXCEPT ![m] = <<>>] /\ lagged' = lagged \ {m}
      /\ Send(About(DropMsg(ToSet(ring[m]))))
  BY DEF Discard, recorder, Report
<1>1. Grows
  BY <1>0, Still
<1>2. ToSet(ring[m]) \subseteq EventIds /\ ToSet(ring[m]) \subseteq DOMAIN events'
  BY <1>0 DEF Types, RingTypes, ToSet
<1>3. Sendable(About(DropMsg(ToSet(ring[m]))))
  BY <1>2, Dropped, OneMessage
<1>4. Knows(loop[m], m, events', frames') /\ loop[m] \in Loop
  BY <1>0, DoneKnows DEF Types
<1>5. RingTypes' /\ FrameTypes' /\ AroundTypes'
  BY <1>0, Received DEF Types, FrameTypes, AroundTypes
<1>. QED
  BY <1>0, <1>1, <1>3, <1>4, <1>5, LoopStep

\* The decision of a loop, for events of its monitor.
LEMMA DecideTypes ==
    ASSUME Types, NEW m \in Monitors, NEW k, NEW S \in SUBSET EventIds, NEW sent, Sendable(sent),
           \A c \in S : c \in DOMAIN events /\ Own(events[c], m),
           Decide(m, k, S, sent), UNCHANGED recorder, UNCHANGED linker, UNCHANGED <<frames, screen, paused>>,
           RingTypes'
    PROVE  Types' /\ Grows
<1>. DEFINE l == IF k = "focus" THEN [loop[m] EXCEPT !.hash = None, !.anchor = NoAnchor] ELSE loop[m]
            n == [l EXCEPT !.pc = "capture", !.ids = S, !.checkpoint = Checkpoint(k)]
            msg == IF l.last = 0 THEN DropMsg(S) ELSE FrameMsg(l.last, S)
<1>0. UNCHANGED events
  BY DEF recorder
<1>1. Grows
  BY <1>0, Still
<1>2. loop[m] \in Loop /\ Knows(loop[m], m, events, frames)
  BY DEF Types, LoopTypes
<1>3. /\ l \in Loop /\ l.last = loop[m].last
      /\ \/ l.hash = loop[m].hash /\ l.anchor = loop[m].anchor
         \/ l.hash = None /\ l.anchor = NoAnchor
  BY <1>2 DEF Loop, Hashes, Anchor, NoAnchor
<1>4. n \in Loop /\ n.ids = S /\ n.last = l.last /\ n.hash = l.hash /\ n.anchor = l.anchor
  <2>. HIDE DEF l
  <2>1. Checkpoint(k) \in BOOLEAN
    BY DEF Checkpoint
  <2>. QED
    BY <2>1, <1>3 DEF Loop
<1>5. Knows(n, m, events', frames')
  <2>. HIDE DEF l, n
  <2>. QED
    BY <1>0, <1>2, <1>3, <1>4 DEF Knows, NoAnchor
<1>6. FrameTypes' /\ AroundTypes'
  BY DEF Types, FrameTypes, AroundTypes
<1>7. CASE loop' = [loop EXCEPT ![m] = n] /\ Send(sent)
  <2>. HIDE DEF l, n
  <2>. QED
    BY <1>1, <1>4, <1>5, <1>6, <1>7, LoopStep
<1>8. CASE UNCHANGED loop /\ Send(sent \o <<msg>>)
  <2>1. msg \in Msg /\ Good(msg, events', frames')
    <3>1. CASE loop[m].last = 0
      BY <1>0, <1>3, <3>1, Dropped
    <3>2. CASE loop[m].last # 0
      BY <1>0, <1>3, <3>2, LastFrame DEF Types
    <3>. QED
      BY <3>1, <3>2
  <2>. HIDE DEF l, n, msg
  <2>2. Sendable(sent \o <<msg>>)
    BY <2>1, TwoMessages
  <2>. QED
    BY <1>1, <1>4, <1>5, <1>6, <1>8, <2>2, LoopStep
<1>9. \/ loop' = [loop EXCEPT ![m] = n] /\ Send(sent)
      \/ UNCHANGED loop /\ Send(sent \o <<msg>>)
  BY DEF Decide
<1>. QED
  BY <1>1, <1>7, <1>8, <1>9

LEMMA DrainTypes ==
    ASSUME Types, NEW m \in Monitors, Drain(m)
    PROVE  Types' /\ Grows
<1>. DEFINE mine == {i \in DOMAIN ring[m] : Applies(ring[m][i], m)}
            ids  == {ring[m][i] : i \in mine}
<1>0. /\ UNCHANGED recorder /\ UNCHANGED linker /\ UNCHANGED <<events, frames, screen, paused>>
      /\ ring' = [ring EXCEPT ![m] = <<>>] /\ lagged' = lagged \ {m}
  BY DEF Drain, recorder
<1>1. RingTypes'
  BY <1>0, Received DEF Types
<1>2. ids \in SUBSET EventIds /\ \A c \in ids : c \in DOMAIN events /\ Own(events[c], m)
  BY DEF Types, RingTypes, Applies, Own
<1>3. Sendable(Notice(m))
  BY NoticeSendable
<1>4. CASE Decide(m, Reduced(ring[m], mine), ids, Notice(m))
  <2>. HIDE DEF mine, ids
  <2>. QED
    BY <1>0, <1>1, <1>2, <1>3, <1>4, DecideTypes
<1>5. CASE Decide(m, "manual", {}, Notice(m))
  BY <1>0, <1>1, <1>3, <1>5, DecideTypes
<1>6. CASE UNCHANGED <<loop, chan, claimed, lost>>
  <2>1. Grows
    BY <1>0, Still
  <2>2. Knows(loop[m], m, events', frames') /\ loop[m] \in Loop
    BY <1>0, DoneKnows DEF Types
  <2>3. FrameTypes' /\ AroundTypes'
    BY <1>0 DEF Types, FrameTypes, AroundTypes
  <2>. QED
    BY <1>0, <1>1, <1>3, <1>6, <2>1, <2>2, <2>3, LoopStep
<1>. QED
  BY <1>4, <1>5, <1>6 DEF Drain

LEMMA InternalTypes ==
    ASSUME Types, NEW m \in Monitors, Internal(m)
    PROVE  Types' /\ Grows
<1>0. /\ UNCHANGED recorder /\ UNCHANGED linker /\ UNCHANGED <<events, frames, screen, paused, ring, lagged>>
  BY DEF Internal, recorder
<1>1. RingTypes'
  BY <1>0, Still, RingKept DEF Types
<1>2. Sendable(<<>>)
  BY NoticeSendable
<1>. QED
  BY <1>0, <1>1, <1>2, DecideTypes DEF Internal

\* The frame that a loop stores.
LEMMA StoredFrame ==
    ASSUME Types, NEW m \in Monitors, Len(frames) < MaxFrames, frames' = Append(frames, Stored(m)),
           UNCHANGED events
    PROVE  LET f == Len(frames) + 1 IN
           /\ Grows /\ FrameTypes' /\ f \in FrameIds /\ f \in DOMAIN frames'
           /\ frames'[f].mon = m /\ frames'[f].shows = screen
           /\ ElementsRef(loop[m]) = 0 => frames'[f].from = f
<1>. DEFINE f == Len(frames) + 1
<1>1. f \in FrameIds
  BY DEF Types, FrameTypes, FrameIds
<1>2. loop[m] \in Loop
  BY DEF Types, LoopTypes
<1>3. ElementsRef(loop[m]) # 0 => ElementsRef(loop[m]) \in FrameIds
  BY <1>2 DEF ElementsRef, Loop, Anchor
<1>4. Stored(m) \in Frame
  BY <1>1, <1>3 DEF Types, AroundTypes, Stored, Frame
<1>5. /\ Grows /\ frames' \in Seq(Frame) /\ Len(frames') = f
      /\ f \in DOMAIN frames' /\ frames'[f] = Stored(m)
  BY <1>4, AppendFrames DEF Types, FrameTypes
<1>6. FrameTypes'
  BY <1>5 DEF FrameTypes, Types
<1>. QED
  BY <1>1, <1>5, <1>6 DEF Stored

LEMMA CaptureTypes ==
    ASSUME Types, NEW m \in Monitors, Capture(m)
    PROVE  Types' /\ Grows
<1>. DEFINE f == Len(frames) + 1
            l == [Done(m) EXCEPT !.hash = screen, !.last = f,
                                 !.anchor = IF ElementsRef(loop[m]) # 0 THEN @
                                            ELSE [frame |-> f, hash |-> screen]]
            msg == FrameMsg(f, loop[m].ids)
<1>0. /\ UNCHANGED recorder /\ UNCHANGED linker /\ UNCHANGED <<events, ring, lagged, screen, paused>>
      /\ frames' = Append(frames, Stored(m)) /\ loop' = [loop EXCEPT ![m] = l] /\ Send(About(msg))
      /\ f <= MaxFrames
  BY DEF Capture, recorder, Report
<1>1. /\ Grows /\ FrameTypes' /\ f \in FrameIds /\ f \in DOMAIN frames'
      /\ frames'[f].mon = m /\ frames'[f].shows = screen
      /\ ElementsRef(loop[m]) = 0 => frames'[f].from = f
  BY <1>0, StoredFrame DEF Types, FrameTypes
<1>2. /\ loop[m] \in Loop /\ Done(m) \in Loop
      /\ Knows(loop[m], m, events', frames') /\ Knows(Done(m), m, events', frames')
  BY <1>1, DoneKnows, KnowsMore DEF Types, Grows
<1>3. screen \in Contents
  BY DEF Types, AroundTypes
<1>. DEFINE a == IF ElementsRef(loop[m]) # 0 THEN Done(m).anchor ELSE [frame |-> f, hash |-> screen]
<1>. HIDE DEF f
<1>4. a \in Anchor
  BY <1>1, <1>2, <1>3 DEF Loop, Anchor, Hashes
<1>5. /\ l \in Loop /\ l.ids = {} /\ l.hash = screen /\ l.last = f /\ l.anchor = a
  <2>1. l = [Done(m) EXCEPT !.hash = screen, !.last = f, !.anchor = a]
    BY <1>2 DEF Loop
  <2>2. Done(m).ids = {}
    BY <1>2 DEF Done, Loop
  <2>. HIDE DEF l, a
  <2>. QED
    BY <2>1, <2>2, <1>1, <1>2, <1>3, <1>4 DEF Loop, Hashes
<1>. HIDE DEF l, a
<1>6. a.frame # 0 => /\ a.frame \in DOMAIN frames' /\ frames'[a.frame].shows = a.hash
                     /\ frames'[a.frame].from = a.frame
  BY <1>1, <1>2 DEF a, Knows
<1>7. Knows(l, m, events', frames')
  BY <1>1, <1>3, <1>5, <1>6 DEF Knows, FrameIds
<1>8. Sendable(About(msg))
  <2>1. msg \in Msg
    BY <1>1, <1>2 DEF FrameMsg, Msg, Loop
  <2>2. MayLink(loop[m].ids, f, events', frames')
    BY <1>1, <1>2 DEF MayLink, Knows
  <2>3. Good(msg, events', frames')
    BY <2>2, <1>2 DEF Good, FrameMsg, Knows
  <2>. HIDE DEF msg
  <2>. QED
    BY <2>1, <2>3, OneMessage
<1>9. RingTypes' /\ AroundTypes'
  BY <1>0, <1>1, RingKept DEF Types, AroundTypes
<1>. HIDE DEF msg
<1>. QED
  BY <1>0, <1>1, <1>5, <1>7, <1>8, <1>9, LoopStep

\* A capture that ends without a frame to remember.
LEMMA EndTypes ==
    ASSUME Types, NEW m \in Monitors, loop' = [loop EXCEPT ![m] = Done(m)], Grows, FrameTypes',
           AroundTypes', NEW msg, Sendable(About(msg)), Report(msg),
           UNCHANGED recorder, UNCHANGED linker, UNCHANGED <<ring, lagged>>
    PROVE  Types'
<1>1. Done(m) \in Loop /\ Knows(Done(m), m, events', frames')
  BY DoneKnows, KnowsMore DEF Types, Grows
<1>2. RingTypes'
  BY RingKept DEF Types
<1>. QED
  BY <1>1, <1>2, LoopStep DEF Report

LEMMA LoopIds ==
    ASSUME Types, Grows, NEW m \in Monitors
    PROVE  /\ loop[m].ids \in SUBSET EventIds /\ loop[m].ids \subseteq DOMAIN events'
           /\ \A c \in loop[m].ids : c \in DOMAIN events /\ Own(events[c], m)
<1>1. loop[m] \in Loop /\ Knows(loop[m], m, events, frames)
  BY DEF Types, LoopTypes
<1>. QED
  BY <1>1 DEF Loop, Knows, Grows, More

LEMMA SkipTypes ==
    ASSUME Types, NEW m \in Monitors, Skip(m)
    PROVE  Types' /\ Grows
<1>. DEFINE msg == FrameMsg(loop[m].last, IF loop[m].last = 0 THEN {} ELSE loop[m].ids)
<1>0. /\ UNCHANGED recorder /\ UNCHANGED linker /\ UNCHANGED <<events, frames, ring, lagged, screen, paused>>
      /\ loop' = [loop EXCEPT ![m] = Done(m)] /\ Report(msg)
  BY DEF Skip, recorder
<1>1. Grows /\ FrameTypes' /\ AroundTypes'
  BY <1>0, Still DEF Types, FrameTypes, AroundTypes
<1>2. Sendable(About(msg))
  <2>1. CASE loop[m].last = 0
    <3>1. About(msg) = <<>>
      BY <2>1 DEF About, FrameMsg
    <3>. QED
      BY <3>1, NoticeSendable
  <2>2. CASE loop[m].last # 0
    <3>1. msg \in Msg /\ Good(msg, events', frames')
      BY <2>2, <1>0, <1>1, LoopIds, LastFrame DEF Types
    <3>. HIDE DEF msg
    <3>. QED
      BY <3>1, OneMessage
  <2>. QED
    BY <2>1, <2>2
<1>. HIDE DEF msg
<1>. QED
  BY <1>0, <1>1, <1>2, EndTypes

LEMMA BlockedTypes ==
    ASSUME Types, NEW m \in Monitors, Blocked(m)
    PROVE  Types' /\ Grows
<1>0. /\ UNCHANGED recorder /\ UNCHANGED linker /\ UNCHANGED <<events, frames, ring, lagged, screen>>
      /\ loop' = [loop EXCEPT ![m] = Done(m)] /\ Report(DropMsg(loop[m].ids)) /\ paused' = Monitors
  BY DEF Blocked, recorder
<1>1. Grows /\ FrameTypes' /\ AroundTypes'
  BY <1>0, Still DEF Types, FrameTypes, AroundTypes
<1>2. Sendable(About(DropMsg(loop[m].ids)))
  BY <1>1, LoopIds, Dropped, OneMessage
<1>. QED
  BY <1>0, <1>1, <1>2, EndTypes

LEMMA CaptureFailsTypes ==
    ASSUME Types, NEW m \in Monitors, CaptureFails(m)
    PROVE  Types' /\ Grows
<1>0. /\ UNCHANGED recorder /\ UNCHANGED linker /\ UNCHANGED <<events, ring, lagged, screen, paused>>
      /\ loop' = [loop EXCEPT ![m] = Done(m)] /\ Report(DropMsg(loop[m].ids))
      /\ \/ UNCHANGED frames
         \/ Len(frames) < MaxFrames /\ frames' = Append(frames, Stored(m))
  BY DEF CaptureFails, recorder
<1>1. Grows /\ FrameTypes'
  <2>1. CASE UNCHANGED frames
    BY <1>0, <2>1, Still DEF Types, FrameTypes
  <2>2. CASE Len(frames) < MaxFrames /\ frames' = Append(frames, Stored(m))
    BY <1>0, <2>2, StoredFrame
  <2>. QED
    BY <1>0, <2>1, <2>2
<1>2. Sendable(About(DropMsg(loop[m].ids)))
  BY <1>1, LoopIds, Dropped, OneMessage
<1>3. AroundTypes'
  BY <1>0 DEF Types, AroundTypes
<1>. QED
  BY <1>0, <1>1, <1>2, <1>3, EndTypes

-----------------------------------------------------------------------------
(* The linker: how its queues change.                                       *)

LEMMA Receiving ==
    ASSUME NEW S, NEW q \in Seq(S), q # <<>>
    PROVE  /\ Head(q) = q[1] /\ 1 \in DOMAIN q /\ Tail(q) \in Seq(S) /\ Len(Tail(q)) = Len(q) - 1
           /\ \A i \in DOMAIN Tail(q) : i + 1 \in DOMAIN q /\ Tail(q)[i] = q[i + 1]
           /\ \A i \in DOMAIN q : i = 1 \/ (i - 1 \in DOMAIN Tail(q) /\ Tail(q)[i - 1] = q[i])
<1>. DEFINE t == Tail(q)
<1>1. Head(q) = q[1] /\ Len(q) \in Nat \ {0} /\ DOMAIN q = 1..Len(q)
  OBVIOUS
<1>2. t \in Seq(S) /\ Len(t) = Len(q) - 1 /\ \A i \in 1..Len(t) : t[i] = q[i + 1]
  BY HeadTailProperties
<1>. HIDE DEF t
<1>3. DOMAIN t = 1..Len(q) - 1
  BY <1>2
<1>4. \A i \in DOMAIN t : i + 1 \in DOMAIN q /\ t[i] = q[i + 1]
  BY <1>1, <1>2, <1>3
<1>5. \A i \in DOMAIN q : i = 1 \/ (i - 1 \in DOMAIN t /\ t[i - 1] = q[i])
  <2>. TAKE i \in DOMAIN q
  <2>1. CASE i # 1
    <3>1. i - 1 \in DOMAIN t /\ (i - 1) + 1 = i
      BY <1>1, <1>3, <2>1
    <3>. QED
      BY <3>1, <1>4
  <2>. QED
    BY <2>1
<1>6. 1 \in DOMAIN q
  BY <1>1
<1>. QED
  BY <1>1, <1>2, <1>4, <1>5, <1>6, Zenon DEF t

\* Stashing keeps all that is not displaced.
LEMMA Stashing ==
    ASSUME waitingFrames \in Seq(Wait), Len(waitingFrames) <= Capacity, NEW w \in Wait, Stash(w)
    PROVE  /\ waitingFrames' \in Seq(Wait) /\ Len(waitingFrames') <= Capacity
           /\ \A i \in DOMAIN waitingFrames' :
                 waitingFrames'[i] = w \/ \E j \in DOMAIN waitingFrames : waitingFrames'[i] = waitingFrames[j]
           /\ \E i \in DOMAIN waitingFrames' : waitingFrames'[i] = w
           /\ \A j \in DOMAIN waitingFrames :
                 \/ \E i \in DOMAIN waitingFrames' : waitingFrames'[i] = waitingFrames[j]
                 \/ waitingFrames[j].ids \subseteq EvictedFrames
<1>. DEFINE q == IF Len(waitingFrames) < Capacity THEN waitingFrames ELSE Tail(waitingFrames)
<1>1. waitingFrames' = Append(q, w)
  BY DEF Stash
<1>2. /\ q \in Seq(Wait) /\ Len(q) < Capacity
      /\ \A i \in DOMAIN q : \E j \in DOMAIN waitingFrames : q[i] = waitingFrames[j]
      /\ \A j \in DOMAIN waitingFrames : \/ \E i \in DOMAIN q : q[i] = waitingFrames[j]
                                         \/ waitingFrames[j].ids \subseteq EvictedFrames
  <2>1. CASE Len(waitingFrames) < Capacity
    BY <2>1
  <2>2. CASE ~(Len(waitingFrames) < Capacity)
    <3>1. waitingFrames # <<>> /\ q = Tail(waitingFrames) /\ EvictedFrames = waitingFrames[1].ids
      BY <2>2 DEF EvictedFrames
    <3>. HIDE DEF q
    <3>2. /\ q \in Seq(Wait) /\ Len(q) = Len(waitingFrames) - 1
          /\ \A i \in DOMAIN q : i + 1 \in DOMAIN waitingFrames /\ q[i] = waitingFrames[i + 1]
          /\ \A i \in DOMAIN waitingFrames :
                i = 1 \/ (i - 1 \in DOMAIN q /\ q[i - 1] = waitingFrames[i])
      BY <3>1, Receiving
    <3>3. Len(q) < Capacity
      BY <2>2, <3>2
    <3>. QED
      BY <3>1, <3>2, <3>3
  <2>. QED
    BY <2>1, <2>2
<1>. HIDE DEF q
<1>3. /\ waitingFrames' \in Seq(Wait) /\ Len(waitingFrames') = Len(q) + 1
      /\ \A i \in 1..Len(q) : waitingFrames'[i] = q[i]
      /\ waitingFrames'[Len(q) + 1] = w
  BY <1>1, <1>2, AppendProperties
<1>4. /\ DOMAIN waitingFrames' = (DOMAIN q) \cup {Len(q) + 1} /\ DOMAIN q = 1..Len(q)
      /\ Len(waitingFrames') <= Capacity
  BY <1>2, <1>3
<1>5. \A i \in DOMAIN q : i \in DOMAIN waitingFrames' /\ waitingFrames'[i] = q[i]
  BY <1>3, <1>4
<1>6. Len(q) + 1 \in DOMAIN waitingFrames'
  BY <1>4
<1>7. \A i \in DOMAIN waitingFrames' : waitingFrames'[i] = w \/ i \in DOMAIN q
  BY <1>3, <1>4
<1>8. /\ \E i \in DOMAIN waitingFrames' : waitingFrames'[i] = w
      /\ waitingFrames' \in Seq(Wait) /\ Len(waitingFrames') <= Capacity
  BY <1>3, <1>4, <1>6
<1>9. \A i \in DOMAIN waitingFrames' :
         waitingFrames'[i] = w \/ \E j \in DOMAIN waitingFrames : waitingFrames'[i] = waitingFrames[j]
  BY <1>2, <1>5, <1>7, Zenon
<1>10. \A j \in DOMAIN waitingFrames :
         \/ \E i \in DOMAIN waitingFrames' : waitingFrames'[i] = waitingFrames[j]
         \/ waitingFrames[j].ids \subseteq EvictedFrames
  BY <1>2, <1>5, Zenon
<1>. QED
  BY <1>8, <1>9, <1>10

LEMMA Removing ==
    ASSUME NEW S, NEW q \in Seq(S), NEW k \in DOMAIN q
    PROVE  /\ RemoveAt(q, k) \in Seq(S) /\ Len(RemoveAt(q, k)) = Len(q) - 1
           /\ \A i \in DOMAIN RemoveAt(q, k) : \E j \in DOMAIN q : RemoveAt(q, k)[i] = q[j]
           /\ \A j \in DOMAIN q : j = k \/ \E i \in DOMAIN RemoveAt(q, k) : RemoveAt(q, k)[i] = q[j]
<1>. DEFINE a == SubSeq(q, 1, k - 1)
            b == SubSeq(q, k + 1, Len(q))
            t == RemoveAt(q, k)
<1>0. k \in 1..Len(q) /\ Len(q) \in Nat /\ DOMAIN q = 1..Len(q)
  OBVIOUS
<1>a. a \in Seq(S) /\ Len(a) = k - 1 /\ \A i \in 1..k - 1 : a[i] = q[i]
  <2>1. /\ a \in Seq(S) /\ Len(a) = IF 1 <= k - 1 THEN (k - 1) - 1 + 1 ELSE 0
        /\ \A i \in 1..(k - 1) - 1 + 1 : a[i] = q[1 + i - 1]
    BY <1>0, SubSeqProperties
  <2>. HIDE DEF a
  <2>. QED
    BY <2>1, <1>0
<1>b. b \in Seq(S) /\ Len(b) = Len(q) - k /\ \A i \in 1..Len(q) - k : b[i] = q[k + i]
  <2>1. b \in Seq(S)
    BY <1>0
  <2>2. Len(b) = Len(q) - k
    BY <1>0
  <2>3. ASSUME NEW i \in 1..Len(q) - k
        PROVE  b[i] = q[k + i]
    BY <1>0, <2>3
  <2>. QED
    BY <2>1, <2>2, <2>3
<1>. HIDE DEF a, b
<1>2. t = a \o b
  BY DEF RemoveAt, a, b
<1>. HIDE DEF t
<1>3. /\ t \in Seq(S) /\ Len(t) = Len(q) - 1
      /\ \A i \in 1..Len(q) - 1 : t[i] = IF i <= k - 1 THEN a[i] ELSE b[i - (k - 1)]
  <2>1. /\ t \in Seq(S) /\ Len(t) = Len(a) + Len(b)
        /\ \A i \in 1..Len(a) + Len(b) : t[i] = IF i <= Len(a) THEN a[i] ELSE b[i - Len(a)]
    <3>1. a \in Seq(S) /\ b \in Seq(S)
      BY <1>a, <1>b
    <3>. QED
      BY <3>1, <1>2, ConcatProperties
  <2>2. Len(a) + Len(b) = Len(q) - 1
    BY <1>0, <1>a, <1>b
  <2>. QED
    BY <1>a, <2>1, <2>2
<1>4. \A i \in 1..k - 1 : t[i] = q[i]
  <2>. TAKE i \in 1..k - 1
  <2>1. i \in 1..Len(q) - 1 /\ i <= k - 1
    BY <1>0
  <2>2. t[i] = a[i]
    BY <2>1, <1>3
  <2>. QED
    BY <2>2, <1>a
<1>5. \A i \in k..Len(q) - 1 : t[i] = q[i + 1]
  <2>. TAKE i \in k..Len(q) - 1
  <2>1. i \in 1..Len(q) - 1 /\ ~(i <= k - 1)
    BY <1>0
  <2>2. t[i] = b[i - (k - 1)]
    BY <2>1, <1>3
  <2>. DEFINE n == i - (k - 1)
  <2>3. n \in 1..Len(q) - k /\ k + n = i + 1
    BY <1>0
  <2>. HIDE DEF n
  <2>4. b[n] = q[k + n]
    BY <2>3, <1>b
  <2>. QED
    BY <2>2, <2>3, <2>4 DEF n
<1>6. \A i \in DOMAIN t : \E j \in DOMAIN q : t[i] = q[j]
  <2>. TAKE i \in DOMAIN t
  <2>0. i \in 1..Len(q) - 1
    BY <1>3
  <2>1. CASE i \in 1..k - 1
    BY <2>1, <1>0, <1>4
  <2>2. CASE i \in k..Len(q) - 1
    <3>1. i + 1 \in DOMAIN q
      BY <2>2, <1>0
    <3>. QED
      BY <2>2, <3>1, <1>5
  <2>. QED
    BY <2>0, <2>1, <2>2, <1>0
<1>7. \A j \in DOMAIN q : j = k \/ \E i \in DOMAIN t : t[i] = q[j]
  <2>. TAKE j \in DOMAIN q
  <2>0. DOMAIN t = 1..Len(q) - 1
    BY <1>0, <1>3
  <2>1. CASE j < k
    BY <2>0, <2>1, <1>0, <1>4
  <2>2. CASE j > k
    <3>1. j - 1 \in k..Len(q) - 1 /\ j - 1 \in DOMAIN t /\ (j - 1) + 1 = j
      BY <2>0, <2>2, <1>0
    <3>. QED
      BY <3>1, <1>5
  <2>. QED
    BY <2>1, <2>2, <1>0
<1>. QED
  BY <1>3, <1>6, <1>7 DEF t

\* A match takes one id from the frames that wait, and nothing else.
LEMMA Matching ==
    ASSUME waitingFrames \in Seq(Wait), Len(waitingFrames) <= Capacity,
           NEW k \in DOMAIN waitingFrames, NEW c, Match(k, c)
    PROVE  /\ waitingFrames' \in Seq(Wait) /\ Len(waitingFrames') <= Capacity
           /\ \A i \in DOMAIN waitingFrames' : \E j \in DOMAIN waitingFrames :
                 /\ waitingFrames'[i].frame = waitingFrames[j].frame
                 /\ waitingFrames'[i].ids \subseteq waitingFrames[j].ids
           /\ \A j \in DOMAIN waitingFrames : \A d \in waitingFrames[j].ids \ {c} :
                 \E i \in DOMAIN waitingFrames' : d \in waitingFrames'[i].ids
<1>. DEFINE ids == waitingFrames[k].ids \ {c}
<1>1. CASE ids = {}
  <2>1. waitingFrames' = RemoveAt(waitingFrames, k)
    BY <1>1 DEF Match
  <2>2. waitingFrames[k].ids \subseteq {c}
    BY <1>1
  <2>. HIDE DEF ids
  <2>3. /\ waitingFrames' \in Seq(Wait) /\ Len(waitingFrames') = Len(waitingFrames) - 1
        /\ \A i \in DOMAIN waitingFrames' : \E j \in DOMAIN waitingFrames :
              waitingFrames'[i] = waitingFrames[j]
        /\ \A j \in DOMAIN waitingFrames :
              j = k \/ \E i \in DOMAIN waitingFrames' : waitingFrames'[i] = waitingFrames[j]
    BY <2>1, Removing
  <2>4. Len(waitingFrames') <= Capacity
    BY <2>3
  <2>. QED
    BY <2>2, <2>3, <2>4
<1>2. CASE ids # {}
  <2>1. waitingFrames' = [waitingFrames EXCEPT ![k].ids = ids]
    BY <1>2 DEF Match
  <2>2. waitingFrames[k] \in Wait /\ ids \subseteq EventIds
    <3>1. waitingFrames[k] \in Wait
      OBVIOUS
    <3>. QED
      BY <3>1 DEF Wait
  <2>3. /\ DOMAIN waitingFrames' = DOMAIN waitingFrames
        /\ \A i \in DOMAIN waitingFrames : i # k => waitingFrames'[i] = waitingFrames[i]
        /\ waitingFrames'[k] = [waitingFrames[k] EXCEPT !.ids = ids]
    BY <2>1
  <2>4. waitingFrames'[k] \in Wait /\ waitingFrames'[k].frame = waitingFrames[k].frame
        /\ waitingFrames'[k].ids = ids
    BY <2>2, <2>3 DEF Wait
  <2>5. waitingFrames' \in Seq(Wait) /\ Len(waitingFrames') = Len(waitingFrames)
    BY <2>1, <2>2 DEF Wait
  <2>. QED
    BY <2>3, <2>4, <2>5
<1>. QED
  BY <1>1, <1>2

\* The rows that wait: there is an oldest one, and a row has room without it.
LEMMA RoomForRow ==
    ASSUME waitingRows \subseteq EventIds, Cardinality(waitingRows) <= Capacity, NEW c \in EventIds
    PROVE  /\ EvictedRows \subseteq waitingRows
           /\ Cardinality((waitingRows \ EvictedRows) \cup {c}) <= Capacity
<1>1. IsFiniteSet(waitingRows) /\ Cardinality(waitingRows) \in Nat
  <2>1. IsFiniteSet(EventIds)
    BY FS_Interval DEF EventIds
  <2>. QED
    BY <2>1, FS_Subset, FS_CardinalityType
<1>2. CASE Cardinality(waitingRows) < Capacity
  <2>1. EvictedRows = {} /\ (waitingRows \ {}) \cup {c} = waitingRows \cup {c}
    BY <1>2 DEF EvictedRows
  <2>2. Cardinality(waitingRows \cup {c}) =
          IF c \in waitingRows THEN Cardinality(waitingRows) ELSE Cardinality(waitingRows) + 1
    BY <1>1, FS_AddElement
  <2>3. Cardinality(waitingRows \cup {c}) <= Capacity
    BY <1>1, <1>2, <2>2
  <2>. QED
    BY <2>1, <2>3
<1>3. CASE ~(Cardinality(waitingRows) < Capacity)
  <2>1. EvictedRows = {Min(waitingRows)}
    BY <1>3 DEF EvictedRows
  <2>2. waitingRows # {} /\ waitingRows \subseteq Nat
    BY <1>3, FS_EmptySet DEF EventIds
  <2>3. Min(waitingRows) \in waitingRows
    BY <2>2, Least DEF Min
  <2>4. IsFiniteSet(waitingRows \ {Min(waitingRows)})
        /\ Cardinality(waitingRows \ {Min(waitingRows)}) = Cardinality(waitingRows) - 1
    BY <1>1, <2>3, FS_RemoveElement
  <2>. DEFINE T == waitingRows \ {Min(waitingRows)}
  <2>. HIDE DEF T
  <2>5. Cardinality(T \cup {c}) = IF c \in T THEN Cardinality(T) ELSE Cardinality(T) + 1
    BY <2>4, FS_AddElement DEF T
  <2>6. Cardinality(T \cup {c}) <= Capacity
    BY <1>1, <2>4, <2>5 DEF T
  <2>. QED
    BY <2>1, <2>3, <2>6 DEF T
<1>. QED
  BY <1>2, <1>3

LEMMA FewerRows ==
    ASSUME waitingRows \subseteq EventIds, Cardinality(waitingRows) <= Capacity,
           NEW T \in SUBSET waitingRows
    PROVE  Cardinality(T) <= Capacity
<1>1. IsFiniteSet(EventIds)
  BY FS_Interval DEF EventIds
<1>2. /\ IsFiniteSet(waitingRows) /\ IsFiniteSet(T)
      /\ Cardinality(waitingRows) \in Nat /\ Cardinality(T) \in Nat
      /\ Cardinality(T) <= Cardinality(waitingRows)
  BY <1>1, FS_Subset, FS_CardinalityType
<1>. QED
  BY <1>2

-----------------------------------------------------------------------------
(* The linker: types.                                                       *)

\* A link is filled in once, and never taken back.
LEMMA Linking ==
    ASSUME EventTypes, BatchTypes, FrameTypes, NEW S \in SUBSET DOMAIN events, NEW f \in FrameIds,
           MayLink(S, f, events, frames), LinkAll(S, f), UNCHANGED <<batch, scroll, frames>>
    PROVE  /\ Grows /\ EventTypes' /\ BatchTypes' /\ DOMAIN events' = DOMAIN events
           /\ \A c \in DOMAIN events : /\ events'[c].row = events[c].row
                                       /\ events[c].frame # 0 => events'[c].frame # 0
                                       /\ c \in S => events'[c].frame # 0
<1>. DEFINE F == [c \in DOMAIN events |->
                    IF c \in S /\ events[c].frame = 0 THEN [events[c] EXCEPT !.frame = f]
                    ELSE events[c]]
<1>1. events' = F
  BY DEF LinkAll
<1>2. f # 0
  BY DEF FrameIds
<1>3. ASSUME NEW c \in DOMAIN events
      PROVE  /\ F[c] \in Event /\ F[c].kind = events[c].kind /\ F[c].on = events[c].on
             /\ F[c].row = events[c].row
             /\ F[c].frame = IF c \in S /\ events[c].frame = 0 THEN f ELSE events[c].frame
  <2>1. events[c] \in Event
    BY DEF EventTypes
  <2>. QED
    BY <2>1 DEF Event
<1>4. F \in [DOMAIN events -> Event]
  BY <1>3
<1>. HIDE DEF F
<1>5. events' \in Seq(Event) /\ Len(events') = Len(events) /\ DOMAIN events' = DOMAIN events
  BY <1>1, <1>4, MapEvents DEF EventTypes
<1>6. Grows
  BY <1>1, <1>3, <1>5 DEF Grows, More
<1>7. EventTypes'
  <2>1. ASSUME NEW c \in DOMAIN events', events'[c].frame # 0
        PROVE  MayLink({c}, events'[c].frame, events', frames')
    <3>1. MayLink({c}, events'[c].frame, events, frames)
      <4>1. CASE c \in S /\ events[c].frame = 0
        BY <4>1, <1>1, <1>3, <1>5 DEF MayLink
      <4>2. CASE ~(c \in S /\ events[c].frame = 0)
        BY <4>2, <1>1, <1>3, <1>5, <2>1 DEF EventTypes
      <4>. QED
        BY <4>1, <4>2
    <3>. QED
      BY <3>1, <1>5, <1>6, MayLinkMore DEF Grows
  <2>. QED
    BY <2>1, <1>5 DEF EventTypes
<1>8. BatchTypes'
  <2>1. {c \in DOMAIN events' : events'[c].row = "batch"} = {c \in DOMAIN events : events[c].row = "batch"}
    BY <1>1, <1>3, <1>5
  <2>2. ToSet(batch') = ToSet(batch)
    OBVIOUS
  <2>. QED
    BY <1>5, <2>1, <2>2 DEF BatchTypes
<1>. QED
  BY <1>1, <1>2, <1>3, <1>5, <1>6, <1>7, <1>8

LEMMA Displacing ==
    ASSUME WaitTypes
    PROVE  /\ EvictedFrames \subseteq DOMAIN events
           /\ \A S : Displaced(S) \subseteq EvictedFrames
<1>1. CASE Len(waitingFrames) < Capacity
  BY <1>1 DEF EvictedFrames, Displaced
<1>2. CASE ~(Len(waitingFrames) < Capacity)
  <2>1. waitingFrames \in Seq(Wait) /\ waitingFrames # <<>>
    BY <1>2 DEF WaitTypes
  <2>2. EvictedFrames = waitingFrames[1].ids /\ 1 \in DOMAIN waitingFrames
    BY <1>2, <2>1, Receiving DEF EvictedFrames
  <2>. QED
    BY <2>2 DEF WaitTypes, Displaced
<1>. QED
  BY <1>1, <1>2

LEMMA MatchTypes ==
    ASSUME WaitTypes, Grows, NEW k \in DOMAIN waitingFrames, NEW c, Match(k, c), UNCHANGED waitingRows
    PROVE  WaitTypes'
<1>1. /\ waitingFrames' \in Seq(Wait) /\ Len(waitingFrames') <= Capacity
      /\ \A i \in DOMAIN waitingFrames' : \E j \in DOMAIN waitingFrames :
            /\ waitingFrames'[i].frame = waitingFrames[j].frame
            /\ waitingFrames'[i].ids \subseteq waitingFrames[j].ids
  BY Matching DEF WaitTypes
<1>2. ASSUME NEW i \in DOMAIN waitingFrames'
      PROVE  /\ waitingFrames'[i].ids \subseteq DOMAIN events'
             /\ MayLink(waitingFrames'[i].ids, waitingFrames'[i].frame, events', frames')
  <2>1. PICK j \in DOMAIN waitingFrames :
           /\ waitingFrames'[i].frame = waitingFrames[j].frame
           /\ waitingFrames'[i].ids \subseteq waitingFrames[j].ids
    BY <1>1
  <2>2. /\ waitingFrames'[i].ids \subseteq DOMAIN events
        /\ MayLink(waitingFrames'[i].ids, waitingFrames'[i].frame, events, frames)
    BY <2>1 DEF WaitTypes, MayLink
  <2>3. MayLink(waitingFrames'[i].ids, waitingFrames'[i].frame, events', frames')
    BY <2>2, MayLinkMore DEF Grows
  <2>. QED
    BY <2>2, <2>3 DEF Grows, More
<1>3. waitingRows' \subseteq DOMAIN events' /\ Cardinality(waitingRows') <= Capacity
  BY DEF WaitTypes, Grows, More
<1>. QED
  BY <1>1, <1>2, <1>3 DEF WaitTypes

LEMMA PairTypes ==
    ASSUME EventTypes, WaitTypes, Grows, NEW f \in FrameIds, NEW S \in SUBSET DOMAIN events,
           MayLink(S, f, events, frames), PairFrame(f, S)
    PROVE  WaitTypes'
<1>. DEFINE rest == S \ waitingRows
            w    == [frame |-> f, ids |-> rest]
<1>0. DOMAIN events \subseteq EventIds
  BY DEF EventTypes, EventIds
<1>1. waitingRows' \subseteq DOMAIN events' /\ Cardinality(waitingRows') <= Capacity
  <2>1. waitingRows' \in SUBSET waitingRows
    BY DEF PairFrame
  <2>2. waitingRows \subseteq EventIds /\ Cardinality(waitingRows) <= Capacity
    BY <1>0 DEF WaitTypes
  <2>. QED
    BY <2>1, <2>2, FewerRows DEF WaitTypes, Grows, More
<1>2. ASSUME NEW x, x = w \/ \E j \in DOMAIN waitingFrames : x = waitingFrames[j]
      PROVE  x.ids \subseteq DOMAIN events' /\ MayLink(x.ids, x.frame, events', frames')
  <2>1. x.ids \subseteq DOMAIN events /\ MayLink(x.ids, x.frame, events, frames)
    BY <1>2 DEF WaitTypes, MayLink
  <2>2. MayLink(x.ids, x.frame, events', frames')
    BY <2>1, MayLinkMore DEF Grows
  <2>. QED
    BY <2>1, <2>2 DEF Grows, More
<1>3. w \in Wait
  BY <1>0 DEF Wait
<1>4. /\ waitingFrames' \in Seq(Wait) /\ Len(waitingFrames') <= Capacity
      /\ \A i \in DOMAIN waitingFrames' :
            waitingFrames'[i] = w \/ \E j \in DOMAIN waitingFrames : waitingFrames'[i] = waitingFrames[j]
  <2>1. CASE rest = {}
    BY <2>1 DEF PairFrame, WaitTypes
  <2>2. CASE rest # {}
    <3>1. Stash(w)
      BY <2>2 DEF PairFrame
    <3>. HIDE DEF w
    <3>. QED
      BY <3>1, <1>3, Stashing DEF WaitTypes
  <2>. QED
    BY <2>1, <2>2
<1>. HIDE DEF w
<1>. QED
  BY <1>1, <1>2, <1>4 DEF WaitTypes

\* What the linker leaves alone.
LEMMA LinkerStep ==
    ASSUME Types, Grows, UNCHANGED <<ring, lagged, loop, frames, screen, paused>>
    PROVE  RingTypes' /\ LoopTypes' /\ FrameTypes' /\ AroundTypes'
  BY RingKept, LoopKept, FramesKeptTypes DEF Types, AroundTypes

LEMMA TailTypes ==
    ASSUME ChanTypes, Grows, chan # <<>>, chan' = Tail(chan)
    PROVE  /\ ChanTypes'
           /\ Head(chan) = chan[1] /\ Head(chan) \in Msg /\ Good(Head(chan), events, frames)
           /\ \A i \in DOMAIN chan : i = 1 \/ \E j \in DOMAIN chan' : chan'[j] = chan[i]
<1>1. chan \in Seq(Msg) /\ Len(chan) <= Buffer
  BY DEF ChanTypes
<1>2. /\ Head(chan) = chan[1] /\ 1 \in DOMAIN chan /\ chan' \in Seq(Msg) /\ Len(chan') = Len(chan) - 1
      /\ \A i \in DOMAIN chan' : i + 1 \in DOMAIN chan /\ chan'[i] = chan[i + 1]
      /\ \A i \in DOMAIN chan : i = 1 \/ (i - 1 \in DOMAIN chan' /\ chan'[i - 1] = chan[i])
  BY <1>1, Receiving
<1>3. \A i \in DOMAIN chan : Good(chan[i], events, frames) /\ Good(chan[i], events', frames')
  BY GoodMore DEF ChanTypes, Grows
<1>4. Len(chan') <= Buffer
  BY <1>1, <1>2
<1>5. \A i \in DOMAIN chan' : Good(chan'[i], events', frames')
  BY <1>2, <1>3
<1>6. chan[1] \in Msg
  BY <1>1, <1>2
<1>. QED
  BY <1>2, <1>3, <1>4, <1>5, <1>6 DEF ChanTypes

-----------------------------------------------------------------------------
(* Links: the steps before the linker.                                      *)

\* A step that leaves the linker alone, sends what it has to say of rows newly stored and
\* takes nothing back from the channel.
LEMMA LinksStep ==
    ASSUME ChanTypes, GhostTypes, Links, UNCHANGED linker,
           DOMAIN events \subseteq DOMAIN events',
           \A c \in DOMAIN events : events'[c].frame = events[c].frame,
           NEW msgs \in Seq(Msg), Send(msgs) \/ UNCHANGED <<chan, claimed, lost>>,
           \A c \in DOMAIN events' : events'[c].row = "stored" /\ c \notin lost' =>
              \/ c \in DOMAIN events /\ events[c].row = "stored"
              \/ \E i \in DOMAIN chan' : chan'[i].type = "row" /\ c \in chan'[i].ids
    PROVE  Links'
<1>1. /\ \A i \in DOMAIN chan : i \in DOMAIN chan' /\ chan'[i] = chan[i]
      /\ lost \subseteq lost' /\ claimed \subseteq claimed'
      /\ \A c \in claimed' \ claimed :
            \E i \in DOMAIN chan' : chan'[i].type = "frame" /\ c \in chan'[i].ids
  <2>1. CASE Send(msgs)
    BY <2>1, Sending DEF ChanTypes
  <2>2. CASE UNCHANGED <<chan, claimed, lost>>
    BY <2>2
  <2>. QED
    BY <2>1, <2>2
<1>2. waitingRows' = waitingRows /\ waitingFrames' = waitingFrames
  BY DEF linker
<1>3. RowsKept'
  <2>. SUFFICES ASSUME NEW c \in DOMAIN events', events'[c].row = "stored", c \notin lost'
                PROVE  \/ events'[c].frame # 0 \/ c \in waitingRows'
                       \/ \E i \in DOMAIN chan' : chan'[i].type = "row" /\ c \in chan'[i].ids
    BY DEF RowsKept
  <2>1. CASE c \in DOMAIN events /\ events[c].row = "stored"
    <3>1. \/ events[c].frame # 0 \/ c \in waitingRows
          \/ \E i \in DOMAIN chan : chan[i].type = "row" /\ c \in chan[i].ids
      BY <2>1, <1>1 DEF Links, RowsKept
    <3>. QED
      BY <3>1, <2>1, <1>1, <1>2
  <2>. QED
    BY <2>1
<1>4. FramesKept'
  <2>. SUFFICES ASSUME NEW c \in claimed', c \notin lost'
                PROVE  \/ events'[c].frame # 0
                       \/ \E i \in DOMAIN waitingFrames' : c \in waitingFrames'[i].ids
                       \/ \E i \in DOMAIN chan' : chan'[i].type = "frame" /\ c \in chan'[i].ids
    BY DEF FramesKept
  <2>1. CASE c \in claimed
    <3>1. \/ events[c].frame # 0
          \/ \E i \in DOMAIN waitingFrames : c \in waitingFrames[i].ids
          \/ \E i \in DOMAIN chan : chan[i].type = "frame" /\ c \in chan[i].ids
      BY <2>1, <1>1 DEF Links, FramesKept
    <3>2. c \in DOMAIN events
      BY <2>1 DEF GhostTypes
    <3>. QED
      BY <3>1, <3>2, <1>1, <1>2
  <2>. QED
    BY <2>1, <1>1
<1>5. NeverBoth'
  BY <1>2 DEF Links, NeverBoth
<1>. QED
  BY <1>3, <1>4, <1>5 DEF Links

\* The rows are those of before.
LEMMA SameRows ==
    ASSUME Types, Links, UNCHANGED events, UNCHANGED linker,
           NEW msgs \in Seq(Msg), Send(msgs) \/ UNCHANGED <<chan, claimed, lost>>
    PROVE  Links'
  BY LinksStep DEF Types

LEMMA RecorderLinks ==
    ASSUME IInv, Recorder
    PROVE  Links'
<1>0. Types /\ Links
  BY DEF IInv
<1>. DEFINE none == <<>>
<1>n. none \in Seq(Msg)
  OBVIOUS
<1>. HIDE DEF none
<1>1. ASSUME NEW k \in Kinds, NEW on \in SUBSET Monitors, Input(k, on)
      PROVE  Links'
  <2>1. events \in Seq(Event) /\ UNCHANGED <<chan, claimed, lost>> /\ UNCHANGED linker
        /\ events' = Append(events, [kind |-> k, on |-> on, row |-> "batch", frame |-> 0])
    BY <1>0, <1>1 DEF Types, EventTypes, Input
  <2>2. /\ DOMAIN events \subseteq DOMAIN events'
        /\ \A c \in DOMAIN events : events'[c] = events[c]
        /\ \A c \in DOMAIN events' : events'[c].row = "stored" => c \in DOMAIN events
    BY <2>1
  <2>. QED
    BY <1>0, <1>n, <2>1, <2>2, LinksStep DEF Types
<1>2. CASE BurstEnds
  BY <1>0, <1>2, <1>n, SameRows DEF BurstEnds
<1>3. CASE FlushStores
  <2>. DEFINE msgs == [i \in DOMAIN batch |-> RowMsg(batch[i])]
  <2>1. Flush("stored") /\ Send(msgs) /\ UNCHANGED linker
    BY <1>3 DEF FlushStores, Flush
  <2>2. /\ DOMAIN events' = DOMAIN events
        /\ \A c \in DOMAIN events : /\ events'[c].frame = events[c].frame
                                    /\ c \notin ToSet(batch) => events'[c] = events[c]
    BY <1>0, <2>1, Flushing
  <2>3. msgs \in Seq(Msg)
    BY <1>0, RowMsgs DEF Types
  <2>4. \A c \in ToSet(batch) : \E j \in DOMAIN msgs : msgs[j].type = "row" /\ msgs[j].ids = {c}
    BY DEF ToSet, RowMsg
  <2>. HIDE DEF msgs
  <2>5. \A c \in ToSet(batch) :
           c \in lost' \/ \E i \in DOMAIN chan' : chan'[i].type = "row" /\ c \in chan'[i].ids
    <3>. TAKE c \in ToSet(batch)
    <3>1. PICK j \in DOMAIN msgs : msgs[j].type = "row" /\ msgs[j].ids = {c}
      BY <2>4
    <3>2. \/ \E i \in DOMAIN chan' : chan'[i] = msgs[j]
          \/ msgs[j].type = "row" => msgs[j].ids \subseteq lost'
      BY <1>0, <2>1, <2>3, Sending DEF Types, ChanTypes
    <3>. QED
      BY <3>1, <3>2
  <2>6. \A c \in DOMAIN events' : events'[c].row = "stored" /\ c \notin lost' =>
           \/ c \in DOMAIN events /\ events[c].row = "stored"
           \/ \E i \in DOMAIN chan' : chan'[i].type = "row" /\ c \in chan'[i].ids
    BY <2>2, <2>5
  <2>. QED
    BY <1>0, <2>1, <2>2, <2>3, <2>6, LinksStep DEF Types
<1>4. CASE FlushFails
  <2>1. Flush("dropped") /\ UNCHANGED linker /\ UNCHANGED <<chan, claimed, lost>>
    BY <1>4 DEF FlushFails, Flush
  <2>2. /\ DOMAIN events' = DOMAIN events
        /\ \A c \in DOMAIN events : /\ events'[c].frame = events[c].frame
                                    /\ c \notin ToSet(batch) => events'[c] = events[c]
    BY <1>0, <2>1, Flushing
  <2>3. \A c \in ToSet(batch) : c \in DOMAIN events /\ events'[c].row = "dropped"
    <3>1. \A c \in ToSet(batch) : c \in DOMAIN events /\ events[c] \in Event
      BY <1>0 DEF Types, BatchTypes, EventTypes
    <3>. QED
      BY <3>1, <2>1 DEF Flush, Event
  <2>4. \A c \in DOMAIN events' : events'[c].row = "stored" => c \in DOMAIN events /\ events[c].row = "stored"
    BY <2>2, <2>3
  <2>. QED
    BY <1>0, <1>n, <2>1, <2>2, <2>4, LinksStep DEF Types
<1>. QED
  BY <1>1, <1>2, <1>3, <1>4 DEF Recorder

LEMMA AroundLinks ==
    ASSUME IInv, Around
    PROVE  Links'
<1>0. Types /\ Links /\ <<>> \in Seq(Msg)
  BY DEF IInv
<1>1. UNCHANGED events /\ UNCHANGED linker /\ UNCHANGED <<chan, claimed, lost>>
  BY DEF Around, ScreenChanges, PauseStart, PauseEnd, recorder
<1>. QED
  BY <1>0, <1>1, SameRows

\* What a loop sends is a sequence of messages.
LEMMA LoopLinks ==
    ASSUME IInv, NEW m \in Monitors,
           \/ Discard(m) \/ Drain(m) \/ Internal(m)
           \/ Capture(m) \/ Skip(m) \/ Blocked(m) \/ CaptureFails(m)
    PROVE  Links'
<1>0. Types /\ Links /\ <<>> \in Seq(Msg)
  BY DEF IInv
<1>1. UNCHANGED events /\ UNCHANGED linker
  BY DEF Discard, Drain, Internal, Capture, Skip, Blocked, CaptureFails, recorder
<1>2. \A msg \in Msg : About(msg) \in Seq(Msg)
  BY DEF About
<1>3. loop[m] \in Loop
  BY <1>0 DEF Types, LoopTypes
<1>4. \A S \in SUBSET EventIds : DropMsg(S) \in Msg /\ \A f \in FrameIds \cup {0} : FrameMsg(f, S) \in Msg
  BY DEF DropMsg, FrameMsg, Msg
<1>5. Notice(m) \in Seq(Msg)
  BY <1>4 DEF Notice
<1>6. ASSUME NEW msg \in Msg, Report(msg)
      PROVE  Links'
  BY <1>0, <1>1, <1>2, <1>6, SameRows DEF Report
<1>7. ASSUME NEW k, NEW S \in SUBSET EventIds, NEW sent \in Seq(Msg), Decide(m, k, S, sent)
      PROVE  Links'
  <2>. DEFINE l == IF k = "focus" THEN [loop[m] EXCEPT !.hash = None, !.anchor = NoAnchor] ELSE loop[m]
              msg == IF l.last = 0 THEN DropMsg(S) ELSE FrameMsg(l.last, S)
  <2>1. l.last \in FrameIds \cup {0}
    BY <1>3 DEF Loop
  <2>2. msg \in Msg
    BY <1>4, <2>1
  <2>3. Send(sent) \/ Send(sent \o <<msg>>)
    BY <1>7 DEF Decide
  <2>. HIDE DEF msg
  <2>4. sent \o <<msg>> \in Seq(Msg)
    BY <2>2, ConcatProperties
  <2>. QED
    BY <1>0, <1>1, <2>3, <2>4, SameRows
<1>8. CASE Discard(m)
  <2>1. ToSet(ring[m]) \in SUBSET EventIds
    BY <1>0 DEF Types, RingTypes, ToSet
  <2>. QED
    BY <1>4, <1>6, <1>8, <2>1 DEF Discard
<1>9. CASE Drain(m)
  <2>. DEFINE mine == {i \in DOMAIN ring[m] : Applies(ring[m][i], m)}
              ids  == {ring[m][i] : i \in mine}
  <2>1. ids \in SUBSET EventIds
    BY <1>0 DEF Types, RingTypes
  <2>2. \/ Decide(m, Reduced(ring[m], mine), ids, Notice(m))
        \/ Decide(m, "manual", {}, Notice(m))
        \/ UNCHANGED <<chan, claimed, lost>>
    BY <1>9 DEF Drain
  <2>. HIDE DEF mine, ids
  <2>3. CASE UNCHANGED <<chan, claimed, lost>>
    BY <1>0, <1>1, <2>3, SameRows
  <2>. QED
    BY <1>5, <1>7, <2>1, <2>2, <2>3
<1>10. CASE Internal(m)
  BY <1>0, <1>7, <1>10 DEF Internal
<1>11. CASE Capture(m)
  <2>1. Len(frames) + 1 \in FrameIds
    BY <1>0, <1>11 DEF Capture, Types, FrameTypes, FrameIds
  <2>2. loop[m].ids \in SUBSET EventIds
    BY <1>3 DEF Loop
  <2>. QED
    BY <1>4, <1>6, <1>11, <2>1, <2>2 DEF Capture
<1>12. CASE Skip(m)
  <2>1. loop[m].last \in FrameIds \cup {0} /\ loop[m].ids \in SUBSET EventIds
    BY <1>3 DEF Loop
  <2>. QED
    BY <1>4, <1>6, <1>12, <2>1 DEF Skip
<1>13. CASE Blocked(m) \/ CaptureFails(m)
  <2>1. loop[m].ids \in SUBSET EventIds
    BY <1>3 DEF Loop
  <2>. QED
    BY <1>4, <1>6, <1>13, <2>1 DEF Blocked, CaptureFails
<1>. QED
  BY <1>8, <1>9, <1>10, <1>11, <1>12, <1>13

-----------------------------------------------------------------------------
(* Links: the steps of the linker.                                          *)

Waited(c, frms) == \E i \in DOMAIN frms : c \in frms[i].ids

\* An id that the linker has seen a row or a frame of has its link or has lost it.
Settled(c, ev, gone) == c \in gone \/ ev[c].frame # 0

LEMMA LinkerLinks ==
    ASSUME Links, UNCHANGED claimed, DOMAIN events' = DOMAIN events, lost \subseteq lost',
           \A c \in DOMAIN events : /\ events'[c].row = events[c].row
                                    /\ events[c].frame # 0 => events'[c].frame # 0,
           \A c \in waitingRows : c \in waitingRows' \/ Settled(c, events', lost'),
           \A i \in DOMAIN waitingFrames : \A c \in waitingFrames[i].ids :
              Waited(c, waitingFrames') \/ Settled(c, events', lost'),
           \A i \in DOMAIN chan :
              \/ \E j \in DOMAIN chan' : chan'[j] = chan[i]
              \/ \A c \in chan[i].ids : chan[i].type = "row" => c \in waitingRows' \/ Settled(c, events', lost'),
           \A i \in DOMAIN chan :
              \/ \E j \in DOMAIN chan' : chan'[j] = chan[i]
              \/ \A c \in chan[i].ids :
                    chan[i].type = "frame" => Waited(c, waitingFrames') \/ Settled(c, events', lost'),
           claimed \subseteq DOMAIN events,
           NeverBoth'
    PROVE  Links'
<1>1. RowsKept'
  <2>. SUFFICES ASSUME NEW c \in DOMAIN events, events[c].row = "stored", ~Settled(c, events', lost')
                PROVE  \/ c \in waitingRows'
                       \/ \E i \in DOMAIN chan' : chan'[i].type = "row" /\ c \in chan'[i].ids
    BY DEF RowsKept, Settled
  <2>1. c \notin lost /\ events[c].frame = 0
    BY DEF Settled
  <2>2. \/ c \in waitingRows
        \/ \E i \in DOMAIN chan : chan[i].type = "row" /\ c \in chan[i].ids
    BY <2>1 DEF Links, RowsKept
  <2>. QED
    BY <2>2
<1>2. FramesKept'
  <2>. SUFFICES ASSUME NEW c \in claimed, ~Settled(c, events', lost')
                PROVE  \/ Waited(c, waitingFrames')
                       \/ \E i \in DOMAIN chan' : chan'[i].type = "frame" /\ c \in chan'[i].ids
    BY DEF FramesKept, Settled, Waited
  <2>1. c \notin lost /\ events[c].frame = 0
    BY DEF Settled
  <2>2. \/ \E i \in DOMAIN waitingFrames : c \in waitingFrames[i].ids
        \/ \E i \in DOMAIN chan : chan[i].type = "frame" /\ c \in chan[i].ids
    BY <2>1 DEF Links, FramesKept
  <2>. QED
    BY <2>2
<1>. QED
  BY <1>1, <1>2 DEF Links

LEMMA MatchLinks ==
    ASSUME WaitTypes, NeverBoth, NEW k \in DOMAIN waitingFrames, NEW c, Match(k, c), UNCHANGED waitingRows
    PROVE  /\ NeverBoth'
           /\ \A i \in DOMAIN waitingFrames : \A d \in waitingFrames[i].ids :
                 d = c \/ Waited(d, waitingFrames')
<1>1. /\ \A i \in DOMAIN waitingFrames' : \E j \in DOMAIN waitingFrames :
            /\ waitingFrames'[i].frame = waitingFrames[j].frame
            /\ waitingFrames'[i].ids \subseteq waitingFrames[j].ids
      /\ \A j \in DOMAIN waitingFrames : \A d \in waitingFrames[j].ids \ {c} :
            \E i \in DOMAIN waitingFrames' : d \in waitingFrames'[i].ids
  BY Matching DEF WaitTypes
<1>2. ASSUME NEW i \in DOMAIN waitingFrames'
      PROVE  waitingFrames'[i].ids \cap waitingRows = {}
  BY <1>1 DEF NeverBoth
<1>. QED
  BY <1>1, <1>2 DEF NeverBoth, Waited

LEMMA PairLinks ==
    ASSUME EventTypes, WaitTypes, NeverBoth, NEW f \in FrameIds, NEW S \in SUBSET DOMAIN events,
           PairFrame(f, S), Displaced(S) \subseteq lost',
           \A c \in S \cap waitingRows : Settled(c, events', lost')
    PROVE  /\ NeverBoth'
           /\ \A c \in waitingRows : c \in waitingRows' \/ Settled(c, events', lost')
           /\ \A i \in DOMAIN waitingFrames : \A c \in waitingFrames[i].ids :
                 Waited(c, waitingFrames') \/ Settled(c, events', lost')
           /\ \A c \in S : Waited(c, waitingFrames') \/ Settled(c, events', lost')
<1>. DEFINE rest == S \ waitingRows
            w    == [frame |-> f, ids |-> rest]
<1>1. waitingRows' = waitingRows \ S
  BY DEF PairFrame
<1>2. \A c \in waitingRows : c \in waitingRows' \/ Settled(c, events', lost')
  BY <1>1
<1>3. CASE rest = {}
  <2>1. waitingFrames' = waitingFrames
    BY <1>3 DEF PairFrame
  <2>2. NeverBoth'
    BY <2>1, <1>1 DEF NeverBoth
  <2>3. \A c \in S : Settled(c, events', lost')
    BY <1>3
  <2>. QED
    BY <2>1, <2>2, <2>3, <1>2 DEF Waited
<1>4. CASE rest # {}
  <2>1. Stash(w) /\ Displaced(S) = EvictedFrames
    BY <1>4 DEF PairFrame, Displaced
  <2>2. w \in Wait /\ w.ids = rest
    BY DEF Wait, EventTypes, EventIds
  <2>. HIDE DEF w
  <2>3. /\ \A i \in DOMAIN waitingFrames' :
              waitingFrames'[i] = w \/ \E j \in DOMAIN waitingFrames : waitingFrames'[i] = waitingFrames[j]
        /\ \E i \in DOMAIN waitingFrames' : waitingFrames'[i] = w
        /\ \A j \in DOMAIN waitingFrames :
              \/ \E i \in DOMAIN waitingFrames' : waitingFrames'[i] = waitingFrames[j]
              \/ waitingFrames[j].ids \subseteq EvictedFrames
    BY <2>1, <2>2, Stashing DEF WaitTypes
  <2>4. NeverBoth'
    <3>. SUFFICES ASSUME NEW i \in DOMAIN waitingFrames'
                  PROVE  waitingFrames'[i].ids \cap waitingRows' = {}
      BY DEF NeverBoth
    <3>1. CASE waitingFrames'[i] = w
      BY <3>1, <2>2, <1>1
    <3>2. CASE waitingFrames'[i] # w
      BY <3>2, <2>3, <1>1 DEF NeverBoth
    <3>. QED
      BY <3>1, <3>2
  <2>5. \A i \in DOMAIN waitingFrames : \A c \in waitingFrames[i].ids :
           Waited(c, waitingFrames') \/ Settled(c, events', lost')
    BY <2>1, <2>3 DEF Waited, Settled
  <2>6. \A c \in S : Waited(c, waitingFrames') \/ Settled(c, events', lost')
    <3>1. \A c \in rest : Waited(c, waitingFrames')
      BY <2>2, <2>3 DEF Waited
    <3>. QED
      BY <3>1
  <2>. QED
    BY <1>2, <2>4, <2>5, <2>6
<1>. QED
  BY <1>3, <1>4

LEMMA Taking ==
    ASSUME ChanTypes, chan # <<>>, chan' = Tail(chan)
    PROVE  /\ chan[1] = Head(chan) /\ Head(chan) \in Msg /\ Good(Head(chan), events, frames)
           /\ \A i \in DOMAIN chan : i = 1 \/ \E j \in DOMAIN chan' : chan'[j] = chan[i]
<1>. DEFINE msg == Head(chan)
<1>1. chan \in Seq(Msg)
  BY DEF ChanTypes
<1>2. /\ msg = chan[1] /\ 1 \in DOMAIN chan
      /\ \A i \in DOMAIN chan : i = 1 \/ (i - 1 \in DOMAIN chan' /\ chan'[i - 1] = chan[i])
  BY <1>1, Receiving
<1>. HIDE DEF msg
<1>3. Good(msg, events, frames)
  BY <1>2 DEF ChanTypes
<1>4. msg \in Msg
  BY <1>1, <1>2
<1>5. \A i \in DOMAIN chan : i = 1 \/ \E j \in DOMAIN chan' : chan'[j] = chan[i]
  BY <1>2
<1>. QED
  BY <1>2, <1>3, <1>4, <1>5 DEF msg

\* The linker takes a message from the channel.
LEMMA DeliverInv ==
    ASSUME IInv, Deliver
    PROVE  IInv' /\ Grows
<1>. DEFINE msg == Head(chan)
<1>0. /\ Types /\ Links /\ chan # <<>> /\ chan' = Tail(chan) /\ UNCHANGED <<batch, scroll, claimed>>
      /\ UNCHANGED <<ring, lagged, loop, frames, screen, paused>>
  BY DEF IInv, Deliver, monitors
<1>1. ASSUME Grows
      PROVE  /\ ChanTypes' /\ RingTypes' /\ LoopTypes' /\ FrameTypes' /\ AroundTypes'
             /\ chan[1] = msg /\ msg \in Msg /\ Good(msg, events, frames)
             /\ \A i \in DOMAIN chan : i = 1 \/ \E j \in DOMAIN chan' : chan'[j] = chan[i]
  BY <1>0, <1>1, LinkerStep, TailTypes DEF Types
<1>2. chan[1] = msg /\ msg \in Msg /\ Good(msg, events, frames)
      /\ \A i \in DOMAIN chan : i = 1 \/ \E j \in DOMAIN chan' : chan'[j] = chan[i]
  BY <1>0, Taking DEF Types
<1>. HIDE DEF msg
<1>3. msg.ids \subseteq DOMAIN events /\ claimed \subseteq DOMAIN events /\ DOMAIN events \subseteq EventIds
  BY <1>0, <1>2 DEF Good, Types, GhostTypes, EventTypes, EventIds
<1>4. ASSUME msg.type = "row", NEW c \in msg.ids, OnRow(c)
      PROVE  IInv' /\ Grows
  <2>0. msg.ids = {c}
    BY <1>2, <1>4 DEF Good
  <2>1. ASSUME NEW k \in Hits(c), LinkAll({c}, waitingFrames[k].frame), Match(k, c),
               UNCHANGED <<waitingRows, lost>>
        PROVE  IInv' /\ Grows
    <3>1. k \in DOMAIN waitingFrames /\ c \in waitingFrames[k].ids
      BY <2>1 DEF Hits
    <3>2. /\ waitingFrames[k].frame \in FrameIds /\ {c} \in SUBSET DOMAIN events
          /\ MayLink({c}, waitingFrames[k].frame, events, frames)
      <4>1. /\ waitingFrames[k] \in Wait
            /\ MayLink(waitingFrames[k].ids, waitingFrames[k].frame, events, frames)
        BY <1>0, <3>1 DEF Types, WaitTypes
      <4>2. waitingFrames[k].frame \in FrameIds
        BY <4>1 DEF Wait
      <4>. QED
        BY <1>3, <1>4, <3>1, <4>1, <4>2 DEF MayLink
    <3>3. /\ Grows /\ EventTypes' /\ BatchTypes' /\ DOMAIN events' = DOMAIN events
          /\ \A d \in DOMAIN events : /\ events'[d].row = events[d].row
                                      /\ events[d].frame # 0 => events'[d].frame # 0
                                      /\ d = c => events'[d].frame # 0
      BY <1>0, <2>1, <3>2, Linking DEF Types
    <3>4. WaitTypes'
      BY <1>0, <2>1, <3>1, <3>3, MatchTypes DEF Types
    <3>5. GhostTypes'
      BY <1>0, <2>1, <3>3 DEF Types, GhostTypes
    <3>6. Types'
      BY <1>1, <3>3, <3>4, <3>5 DEF Types
    <3>7. /\ NeverBoth'
          /\ \A i \in DOMAIN waitingFrames : \A d \in waitingFrames[i].ids :
                d = c \/ Waited(d, waitingFrames')
      BY <1>0, <2>1, <3>1, MatchLinks DEF Types, Links
    <3>8. Settled(c, events', lost')
      BY <1>3, <3>3 DEF Settled
    <3>9. Links'
      BY <1>0, <1>2, <1>3, <2>0, <2>1, <3>3, <3>7, <3>8, <1>4, LinkerLinks
    <3>. QED
      BY <3>3, <3>6, <3>9 DEF IInv
  <2>2. ASSUME Hits(c) = {}, waitingRows' = (waitingRows \ EvictedRows) \cup {c},
               lost' = lost \cup EvictedRows, UNCHANGED <<waitingFrames, events>>
        PROVE  IInv' /\ Grows
    <3>1. Grows
      BY <1>0, <2>2, Still
    <3>2. EventTypes' /\ BatchTypes'
      BY <1>0, <2>2, <3>1, EventsKept, BatchKept DEF Types, recorder
    <3>3. EvictedRows \subseteq waitingRows /\ Cardinality(waitingRows') <= Capacity
      BY <1>0, <1>3, <2>2, RoomForRow DEF Types, WaitTypes
    <3>4. WaitTypes'
      BY <1>0, <1>3, <2>2, <3>3 DEF Types, WaitTypes
    <3>5. GhostTypes'
      BY <1>0, <2>2, <3>3 DEF Types, WaitTypes, GhostTypes
    <3>6. Types'
      BY <1>1, <3>1, <3>2, <3>4, <3>5 DEF Types
    <3>7. NeverBoth'
      BY <1>0, <2>2 DEF Links, NeverBoth, Hits
    <3>8. /\ \A d \in waitingRows : d \in waitingRows' \/ Settled(d, events', lost')
          /\ \A i \in DOMAIN waitingFrames : \A d \in waitingFrames[i].ids : Waited(d, waitingFrames')
      BY <2>2 DEF Settled, Waited
    <3>9. Links'
      BY <1>0, <1>2, <1>3, <2>0, <2>2, <3>7, <3>8, <1>4, LinkerLinks
    <3>. QED
      BY <3>1, <3>6, <3>9 DEF IInv
  <2>. QED
    BY <1>4, <2>1, <2>2 DEF OnRow
<1>5. ASSUME msg.type = "frame", OnFrame(msg.frame, msg.ids)
      PROVE  IInv' /\ Grows
  <2>. DEFINE f == msg.frame
              S == msg.ids
              P == S \cap waitingRows
  <2>1. LinkAll(P, f) /\ PairFrame(f, S) /\ lost' = lost \cup Displaced(S)
    BY <1>5 DEF OnFrame
  <2>2. MayLink(S, f, events, frames) /\ f \in FrameIds
    BY <1>0, <1>2, <1>5 DEF Good, MayLink, Types, FrameTypes, FrameIds
  <2>3. MayLink(P, f, events, frames) /\ P \in SUBSET DOMAIN events /\ S \in SUBSET DOMAIN events
    BY <2>2, <1>3 DEF MayLink
  <2>. HIDE DEF f, S
  <2>4. /\ Grows /\ EventTypes' /\ BatchTypes' /\ DOMAIN events' = DOMAIN events
        /\ \A d \in DOMAIN events : /\ events'[d].row = events[d].row
                                    /\ events[d].frame # 0 => events'[d].frame # 0
                                    /\ d \in P => events'[d].frame # 0
    BY <1>0, <2>1, <2>2, <2>3, Linking DEF Types
  <2>5. WaitTypes'
    BY <1>0, <2>1, <2>2, <2>3, <2>4, PairTypes DEF Types
  <2>6. GhostTypes'
    BY <1>0, <2>1, <2>4, Displacing DEF Types, GhostTypes
  <2>7. Types'
    BY <1>1, <2>4, <2>5, <2>6 DEF Types
  <2>8. \A c \in P : Settled(c, events', lost')
    BY <2>3, <2>4 DEF Settled
  <2>9. /\ NeverBoth'
        /\ \A c \in waitingRows : c \in waitingRows' \/ Settled(c, events', lost')
        /\ \A i \in DOMAIN waitingFrames : \A c \in waitingFrames[i].ids :
              Waited(c, waitingFrames') \/ Settled(c, events', lost')
        /\ \A c \in S : Waited(c, waitingFrames') \/ Settled(c, events', lost')
    BY <1>0, <2>1, <2>2, <2>3, <2>8, PairLinks DEF Types, Links
  <2>10. Links'
    BY <1>0, <1>2, <1>3, <1>5, <2>1, <2>4, <2>9, LinkerLinks DEF S
  <2>. QED
    BY <2>4, <2>7, <2>10 DEF IInv
<1>6. ASSUME msg.type = "drop", OnDrop(msg.ids)
      PROVE  IInv' /\ Grows
  <2>1. UNCHANGED <<events, lost>> /\ UNCHANGED linker
    BY <1>6 DEF OnDrop
  <2>2. Grows
    BY <1>0, <2>1, Still
  <2>3. EventTypes' /\ BatchTypes' /\ WaitTypes' /\ GhostTypes'
    BY <1>0, <2>1, <2>2, EventsKept, BatchKept, WaitKept DEF Types, recorder, GhostTypes
  <2>4. Types'
    BY <1>1, <2>2, <2>3 DEF Types
  <2>5. waitingRows' = waitingRows /\ waitingFrames' = waitingFrames
    BY <2>1 DEF linker
  <2>6. NeverBoth'
    BY <1>0, <2>5 DEF Links, NeverBoth
  <2>7. \A i \in DOMAIN waitingFrames : \A d \in waitingFrames[i].ids : Waited(d, waitingFrames')
    BY <2>5 DEF Waited
  <2>8. Links'
    BY <1>0, <1>2, <1>3, <1>6, <2>1, <2>5, <2>6, <2>7, LinkerLinks
  <2>. QED
    BY <2>2, <2>4, <2>8 DEF IInv
<1>. QED
  BY <1>4, <1>5, <1>6 DEF Deliver, msg

\* Some updates of the rows just paired fail.
LEMMA UpdateFailsInv ==
    ASSUME IInv, UpdateFails
    PROVE  IInv' /\ Grows
<1>. DEFINE msg == Head(chan)
<1>0. /\ Types /\ Links /\ chan # <<>> /\ chan' = Tail(chan) /\ UNCHANGED <<batch, scroll, claimed>>
      /\ UNCHANGED <<ring, lagged, loop, frames, screen, paused>>
  BY DEF IInv, UpdateFails, monitors
<1>1. ASSUME Grows
      PROVE  ChanTypes' /\ RingTypes' /\ LoopTypes' /\ FrameTypes' /\ AroundTypes'
  BY <1>0, <1>1, LinkerStep, TailTypes DEF Types
<1>2. chan[1] = msg /\ msg \in Msg /\ Good(msg, events, frames)
      /\ \A i \in DOMAIN chan : i = 1 \/ \E j \in DOMAIN chan' : chan'[j] = chan[i]
  BY <1>0, Taking DEF Types
<1>. HIDE DEF msg
<1>3. msg.ids \subseteq DOMAIN events /\ claimed \subseteq DOMAIN events
  BY <1>0, <1>2 DEF Good, Types, GhostTypes
<1>4. ASSUME msg.type = "frame", PairFrame(msg.frame, msg.ids),
             NEW failed \in SUBSET (msg.ids \cap waitingRows),
             LinkAll((msg.ids \cap waitingRows) \ failed, msg.frame),
             lost' = lost \cup failed \cup Displaced(msg.ids)
      PROVE  IInv' /\ Grows
  <2>. DEFINE f == msg.frame
              S == msg.ids
              P == (S \cap waitingRows) \ failed
  <2>1. LinkAll(P, f) /\ PairFrame(f, S) /\ lost' = lost \cup failed \cup Displaced(S)
        /\ failed \subseteq S \cap waitingRows
    BY <1>4
  <2>2. MayLink(S, f, events, frames) /\ f \in FrameIds
    BY <1>0, <1>2, <1>4 DEF Good, MayLink, Types, FrameTypes, FrameIds
  <2>3. MayLink(P, f, events, frames) /\ P \in SUBSET DOMAIN events /\ S \in SUBSET DOMAIN events
    BY <2>2, <1>3 DEF MayLink
  <2>. HIDE DEF f, S
  <2>4. /\ Grows /\ EventTypes' /\ BatchTypes' /\ DOMAIN events' = DOMAIN events
        /\ \A d \in DOMAIN events : /\ events'[d].row = events[d].row
                                    /\ events[d].frame # 0 => events'[d].frame # 0
                                    /\ d \in P => events'[d].frame # 0
    BY <1>0, <2>1, <2>2, <2>3, Linking DEF Types
  <2>5. WaitTypes'
    BY <1>0, <2>1, <2>2, <2>3, <2>4, PairTypes DEF Types
  <2>6. GhostTypes'
    BY <1>0, <2>1, <2>3, <2>4, Displacing DEF Types, GhostTypes
  <2>7. Types'
    BY <1>1, <2>4, <2>5, <2>6 DEF Types
  <2>8. \A c \in S \cap waitingRows : Settled(c, events', lost')
    BY <2>1, <2>3, <2>4 DEF Settled
  <2>9. /\ NeverBoth'
        /\ \A c \in waitingRows : c \in waitingRows' \/ Settled(c, events', lost')
        /\ \A i \in DOMAIN waitingFrames : \A c \in waitingFrames[i].ids :
              Waited(c, waitingFrames') \/ Settled(c, events', lost')
        /\ \A c \in S : Waited(c, waitingFrames') \/ Settled(c, events', lost')
    BY <1>0, <2>1, <2>2, <2>3, <2>8, PairLinks DEF Types, Links
  <2>10. Links'
    BY <1>0, <1>2, <1>3, <1>4, <2>1, <2>4, <2>9, LinkerLinks DEF S
  <2>. QED
    BY <2>4, <2>7, <2>10 DEF IInv
<1>5. ASSUME msg.type = "row", NEW c \in msg.ids, NEW k \in Hits(c), Match(k, c),
             lost' = lost \cup msg.ids, UNCHANGED <<events, waitingRows>>
      PROVE  IInv' /\ Grows
  <2>0. msg.ids = {c} /\ k \in DOMAIN waitingFrames
    BY <1>2, <1>5 DEF Good, Hits
  <2>1. Grows
    BY <1>0, <1>5, Still
  <2>2. EventTypes' /\ BatchTypes'
    BY <1>0, <1>5, <2>1, EventsKept, BatchKept DEF Types, recorder
  <2>3. WaitTypes'
    BY <1>0, <1>5, <2>0, <2>1, MatchTypes DEF Types
  <2>4. GhostTypes'
    BY <1>0, <1>3, <1>5 DEF Types, GhostTypes
  <2>5. Types'
    BY <1>1, <2>1, <2>2, <2>3, <2>4 DEF Types
  <2>6. /\ NeverBoth'
        /\ \A i \in DOMAIN waitingFrames : \A d \in waitingFrames[i].ids :
              d = c \/ Waited(d, waitingFrames')
    BY <1>0, <1>5, <2>0, MatchLinks DEF Types, Links
  <2>7. Settled(c, events', lost')
    BY <1>5 DEF Settled
  <2>8. Links'
    BY <1>0, <1>2, <1>3, <1>5, <2>0, <2>6, <2>7, LinkerLinks
  <2>. QED
    BY <2>1, <2>5, <2>8 DEF IInv
<1>. QED
  BY <1>4, <1>5 DEF UpdateFails, msg

\* What has waited too long is given up.
LEMMA ExpireInv ==
    ASSUME IInv, Expire
    PROVE  IInv' /\ Grows
<1>0. /\ Types /\ Links /\ UNCHANGED <<events, batch, scroll, claimed, chan>>
      /\ UNCHANGED <<ring, lagged, loop, frames, screen, paused>>
  BY DEF IInv, Expire, recorder, monitors
<1>1. Grows
  BY <1>0, Still
<1>2. EventTypes' /\ BatchTypes' /\ RingTypes' /\ LoopTypes' /\ FrameTypes' /\ AroundTypes'
  BY <1>0, <1>1, EventsKept, BatchKept, LinkerStep DEF Types, recorder
<1>3. ChanTypes'
  BY <1>0 DEF Types, ChanTypes
<1>4. claimed \subseteq DOMAIN events /\ lost \subseteq DOMAIN events
  BY <1>0 DEF Types, GhostTypes
<1>5. ASSUME waitingRows # {}, waitingRows' = waitingRows \ {Min(waitingRows)},
             lost' = lost \cup {Min(waitingRows)}, UNCHANGED waitingFrames
      PROVE  IInv'
  <2>0. waitingRows \subseteq EventIds /\ Cardinality(waitingRows) <= Capacity
    BY <1>0 DEF Types, WaitTypes, EventTypes, EventIds
  <2>1. Min(waitingRows) \in waitingRows
    <3>1. waitingRows \subseteq Nat
      BY <2>0 DEF EventIds
    <3>. QED
      BY <1>5, <3>1, Least DEF Min
  <2>2. GhostTypes'
    BY <1>0, <1>5, <2>1 DEF Types, WaitTypes, GhostTypes
  <2>3. WaitTypes'
    BY <1>0, <1>5, <2>0, FewerRows DEF Types, WaitTypes
  <2>4. Types'
    BY <1>2, <1>3, <2>2, <2>3 DEF Types
  <2>5. /\ \A c \in waitingRows : c \in waitingRows' \/ Settled(c, events', lost')
        /\ \A i \in DOMAIN waitingFrames : \A d \in waitingFrames[i].ids : Waited(d, waitingFrames')
    BY <1>5 DEF Settled, Waited
  <2>6. NeverBoth'
    BY <1>0, <1>5 DEF Links, NeverBoth
  <2>7. Links'
    BY <1>0, <1>4, <1>5, <2>5, <2>6, LinkerLinks
  <2>. QED
    BY <2>4, <2>7 DEF IInv
<1>6. ASSUME waitingFrames # <<>>, waitingFrames' = Tail(waitingFrames),
             lost' = lost \cup Head(waitingFrames).ids, UNCHANGED waitingRows
      PROVE  IInv'
  <2>0. waitingFrames \in Seq(Wait) /\ Len(waitingFrames) <= Capacity
    BY <1>0 DEF Types, WaitTypes
  <2>1. /\ Head(waitingFrames) = waitingFrames[1] /\ 1 \in DOMAIN waitingFrames
        /\ waitingFrames' \in Seq(Wait) /\ Len(waitingFrames') = Len(waitingFrames) - 1
        /\ \A i \in DOMAIN waitingFrames' :
              i + 1 \in DOMAIN waitingFrames /\ waitingFrames'[i] = waitingFrames[i + 1]
        /\ \A i \in DOMAIN waitingFrames :
              i = 1 \/ (i - 1 \in DOMAIN waitingFrames' /\ waitingFrames'[i - 1] = waitingFrames[i])
    BY <1>6, <2>0, Receiving
  <2>a. lost' = lost \cup waitingFrames[1].ids
    BY <1>6, <2>1
  <2>2. GhostTypes'
    BY <1>0, <2>a, <2>1 DEF Types, WaitTypes, GhostTypes
  <2>b. Len(waitingFrames') <= Capacity
    BY <2>0, <2>1
  <2>c. \A i \in DOMAIN waitingFrames' : \E j \in DOMAIN waitingFrames : waitingFrames'[i] = waitingFrames[j]
    BY <2>1
  <2>d. \A i \in DOMAIN waitingFrames :
           i = 1 \/ \E j \in DOMAIN waitingFrames' : waitingFrames'[j] = waitingFrames[i]
    BY <2>1
  <2>3. WaitTypes'
    <3>1. waitingFrames' \in Seq(Wait)
      BY <2>1
    <3>2. waitingRows' = waitingRows /\ events' = events /\ frames' = frames
      BY <1>0, <1>6
    <3>. QED
      BY <1>0, <2>b, <2>c, <3>1, <3>2 DEF Types, WaitTypes
  <2>4. Types'
    BY <1>2, <1>3, <2>2, <2>3 DEF Types
  <2>5. /\ \A c \in waitingRows : c \in waitingRows'
        /\ \A i \in DOMAIN waitingFrames : \A d \in waitingFrames[i].ids :
              Waited(d, waitingFrames') \/ Settled(d, events', lost')
    BY <1>6, <2>a, <2>d DEF Settled, Waited
  <2>6. NeverBoth'
    BY <1>0, <1>6, <2>c DEF Links, NeverBoth
  <2>7. Links'
    BY <1>0, <1>4, <1>6, <2>5, <2>6, LinkerLinks
  <2>. QED
    BY <2>4, <2>7 DEF IInv
<1>. QED
  BY <1>1, <1>5, <1>6 DEF Expire

-----------------------------------------------------------------------------
(* The theorems.                                                            *)

LEMMA Initially == Init => IInv
<1>. SUFFICES ASSUME Init
              PROVE  IInv
  OBVIOUS
<1>1. Types
  BY InitTypes
<1>2. Links
  BY DEF Init, Links, RowsKept, FramesKept, NeverBoth
<1>. QED
  BY <1>1, <1>2 DEF IInv

LEMMA Step == IInv /\ [Next]_vars => IInv' /\ Grows
<1>. SUFFICES ASSUME IInv, [Next]_vars
              PROVE  IInv' /\ Grows
  OBVIOUS
<1>0. Types /\ Links
  BY DEF IInv
<1>1. CASE Recorder
  <2>1. Types' /\ Grows
    BY <1>0, <1>1, InputTypes, BurstEndsTypes, FlushStoresTypes, FlushFailsTypes DEF Recorder
  <2>. QED
    BY <1>1, <2>1, RecorderLinks DEF IInv
<1>2. CASE Around
  BY <1>0, <1>2, AroundStepTypes, AroundLinks DEF IInv
<1>3. CASE Loops
  <2>1. PICK m \in Monitors : \/ Discard(m) \/ Drain(m) \/ Internal(m)
                              \/ Capture(m) \/ Skip(m) \/ Blocked(m) \/ CaptureFails(m)
    BY <1>3 DEF Loops
  <2>2. Types' /\ Grows
    BY <1>0, <2>1, DiscardTypes, DrainTypes, InternalTypes, CaptureTypes, SkipTypes, BlockedTypes,
       CaptureFailsTypes
  <2>. QED
    BY <2>1, <2>2, LoopLinks DEF IInv
<1>4. CASE Linker
  BY <1>4, DeliverInv, UpdateFailsInv, ExpireInv DEF Linker
<1>5. CASE UNCHANGED vars
  <2>1. UNCHANGED <<recorder, monitors, frames, chan, linker, claimed, lost>> /\ UNCHANGED <<screen, paused>>
    BY <1>5 DEF vars
  <2>2. Types' /\ Grows
    BY <1>0, <2>1, AroundStep DEF Types, AroundTypes
  <2>3. Links'
    BY <1>0, <2>1, SameRows, AroundLinks DEF recorder, Links, RowsKept, FramesKept, NeverBoth, linker
  <2>. QED
    BY <2>2, <2>3 DEF IInv
<1>. QED
  BY <1>1, <1>2, <1>3, <1>4, <1>5 DEF Next

\* The recorder, the loops, the channel and the linker keep their types, and every row and
\* frame that has been reported is linked, lost, in the channel or waiting in the linker.
THEOREM Invariant == Spec => []IInv
  BY Initially, Step, PTL DEF Spec

\* Neither an event nor a frame changes what it is, and no table loses an entry: what the
\* linker holds refers to rows that stay (event_driven_capture.rs, frame_linker.rs).
THEOREM TablesGrow == Spec => [][Grows]_vars
<1>1. IInv /\ [Next]_vars => [Grows]_vars
  BY Step
<1>. QED
  BY <1>1, Invariant, PTL DEF Spec

\* The linker never keeps both halves of a pair (frame_linker.rs:174, 206).
THEOREM Paired == Spec => []NeverBoth
<1>1. IInv => NeverBoth
  BY DEF IInv, Links
<1>. QED
  BY <1>1, Invariant, PTL

\* An event is linked to a frame of its own monitor, whatever the number of monitors
\* and however they race (event_driven_capture.rs:510, trigger_applies_to_monitor).
THEOREM LinkedToOwnScreen == Spec => []OwnScreen
<1>1. IInv => OwnScreen
  BY DEF IInv, Types, EventTypes, MayLink, Own, OwnScreen
<1>. QED
  BY <1>1, Invariant, PTL

\* The content a loop compares with is that of the last frame it stored, so that a
\* duplicate is one (event_driven_capture.rs:1374), and the elements it reuses are those of
\* a frame that has its own (event_driven_capture.rs:1264).
THEOREM TrueMemory == Spec => []Remembered
<1>1. IInv => Remembered
  BY DEF IInv, Types, LoopTypes, Knows, Remembered
<1>. QED
  BY <1>1, Invariant, PTL

\* No order of rows, frames and drops loses a link: a stored row whose frame was reported is
\* linked once the channel is empty, unless a limit or a failure took it (frame_linker.rs:167, 194).
THEOREM AllLinked == Spec => []RowsLinked
<1>1. IInv => RowsLinked
  <2>. SUFFICES ASSUME IInv, NEW c \in DOMAIN events, events[c].row = "stored", c \in claimed \ lost,
                       events[c].frame = 0
                PROVE  \E i \in DOMAIN chan : c \in chan[i].ids
    BY DEF RowsLinked
  <2>1. c \in waitingRows \/ \E i \in DOMAIN chan : chan[i].type = "row" /\ c \in chan[i].ids
    BY DEF IInv, Links, RowsKept
  <2>2. \/ \E i \in DOMAIN waitingFrames : c \in waitingFrames[i].ids
        \/ \E i \in DOMAIN chan : chan[i].type = "frame" /\ c \in chan[i].ids
    BY DEF IInv, Links, FramesKept
  <2>. QED
    BY <2>1, <2>2 DEF IInv, Links, NeverBoth
<1>. QED
  BY <1>1, Invariant, PTL

\* The types, and the bounds of the rings, of the channel and of the linker.
THEOREM TypeCorrect == Spec => []TypeOK
<1>1. Types => TypeOK
  <2>. SUFFICES ASSUME Types
                PROVE  TypeOK
    OBVIOUS
  <2>1. /\ Len(events) <= MaxEvents /\ Len(frames) <= MaxFrames
        /\ \A c \in DOMAIN events :
              events[c] \in [kind : Kinds, on : SUBSET Monitors, row : {"batch", "stored", "dropped"},
                             frame : FrameIds \cup {0}]
        /\ \A f \in DOMAIN frames : frames[f] \in [mon : Monitors, shows : Contents, from : FrameIds]
    <3>1. /\ Len(events) <= MaxEvents /\ Len(frames) <= MaxFrames
          /\ \A c \in DOMAIN events : events[c] \in Event
          /\ \A f \in DOMAIN frames : frames[f] \in Frame
      BY DEF Types, EventTypes, FrameTypes
    <3>. QED
      BY <3>1 DEF Event, Frame
  <2>2. ToSet(batch) = {c \in DOMAIN events : events[c].row = "batch"} /\ scroll \in EventIds \cup {0}
    BY DEF Types, BatchTypes, EventTypes, EventIds
  <2>3. /\ \A m \in Monitors : /\ Len(ring[m]) <= Ring
                               /\ \A i \in DOMAIN ring[m] : ring[m][i] \in DOMAIN events
        /\ lagged \subseteq Monitors /\ paused \subseteq Monitors /\ screen \in Contents
    BY DEF Types, RingTypes, AroundTypes
  <2>4. \A m \in Monitors : loop[m] \in Loop
    BY DEF Types, LoopTypes
  <2>5. /\ Len(chan) <= Buffer /\ lost \subseteq DOMAIN events
        /\ waitingRows \subseteq DOMAIN events /\ Cardinality(waitingRows) <= Capacity
        /\ Len(waitingFrames) <= Capacity
    BY DEF Types, ChanTypes, WaitTypes, GhostTypes
  <2>. QED
    BY <2>1, <2>2, <2>3, <2>4, <2>5 DEF TypeOK
<1>. QED
  BY <1>1, Invariant, PTL DEF IInv

=============================================================================
