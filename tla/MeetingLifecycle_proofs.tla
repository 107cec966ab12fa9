---------------------- MODULE MeetingLifecycle_proofs ----------------------
(***************************************************************************)
(* Theorems about MeetingLifecycle, for any applications, clients and       *)
(* requests, and any number of calls, detections, failures and restarts.    *)
(***************************************************************************)
EXTENDS MeetingLifecycle, LeastElement, SequenceTheorems, TLAPS

\* The partial unique index: there is at most one open meeting.
OneOpen == \A r, s \in Open : r = s

TableTypes ==
    /\ rows \in Seq(Meeting) /\ ends \in Seq(Ids)
    /\ \A i, j \in DOMAIN ends : rows[ends[i]].st = "ended" /\ (ends[i] = ends[j] => i = j)
    /\ \A r \in Ids : rows[r].st # "ended" => rows[r].reason = "none"
    /\ OneOpen

LockTypes == manual \in Ids \cup {NoId} /\ flag \in BOOLEAN

\* A meeting whose start is being stored is active, was detected, and has no row yet.
LoopTypes ==
    /\ lastStop \in Ids \cup {NoId}
    /\ det \in [st : {"Idle", "Confirming", "Active", "Ending"}, id : Ids \cup {NoId},
                app : Names, seen : BOOLEAN]
    /\ ~Tracking => det.id = NoId
    /\ tick \in [pc : Steps, id : Ids \cup {NoId}, man : BOOLEAN]
    /\ tick.pc \in {"find", "reopen", "insert"} =>
          det.st = "Active" /\ det.id = NoId /\ det.app \in Apps

BusTypes == stopQ \in Seq([id : Ids, app : Names]) /\ autoQ \in Seq(Ids)

Decided == {"reopen", "lock", "flag", "trail", "trailClear", "end", "unlock", "signal"}

\* Only a stop ends a meeting.
ReqTypes ==
    /\ req \in [Clients -> [op : AllOps \cup {"none"}, pc : Places, id : Ids \cup {NoId},
                            stale : Ids \cup {NoId}, aged : BOOLEAN]]
    /\ \A c \in Clients : /\ req[c].pc \in Decided => req[c].id \in Ids
                          /\ req[c].pc = "end" => req[c].op = "stop"

CountTypes ==
    /\ used \in [Budgets -> Nat] /\ \A k \in Budgets : used[k] <= Limit[k]
    /\ userStopped \subseteq Ids

Types == TableTypes /\ LockTypes /\ LoopTypes /\ BusTypes /\ ReqTypes /\ CountTypes

USE MeetingAssumption

-----------------------------------------------------------------------------
(* The table.                                                               *)

\* A sequence without its i-th element.
LEMMA RemoveOne ==
    ASSUME NEW S, NEW s \in Seq(S), NEW i \in 1..Len(s)
    PROVE  /\ RemoveAt(s, i) \in Seq(S) /\ Len(RemoveAt(s, i)) = Len(s) - 1
           /\ \A k \in 1..(Len(s) - 1) :
                 RemoveAt(s, i)[k] = IF k < i THEN s[k] ELSE s[k + 1]
<1>1. SubSeq(s, 1, i - 1) \in Seq(S) /\ Len(SubSeq(s, 1, i - 1)) = i - 1
  OBVIOUS
<1>2. \A k \in 1..(i - 1) : SubSeq(s, 1, i - 1)[k] = s[k]
  OBVIOUS
<1>3. SubSeq(s, i + 1, Len(s)) \in Seq(S) /\ Len(SubSeq(s, i + 1, Len(s))) = Len(s) - i
  OBVIOUS
<1>4. \A k \in 1..(Len(s) - i) : SubSeq(s, i + 1, Len(s))[k] = s[k + i]
  OBVIOUS
<1>5. PICK a \in Seq(S), b \in Seq(S) :
         /\ a = SubSeq(s, 1, i - 1) /\ b = SubSeq(s, i + 1, Len(s))
  BY <1>1, <1>3
<1>6. RemoveAt(s, i) = a \o b
  BY <1>5 DEF RemoveAt
<1>7. /\ Len(a) = i - 1 /\ \A k \in 1..(i - 1) : a[k] = s[k]
      /\ Len(b) = Len(s) - i /\ \A k \in 1..(Len(s) - i) : b[k] = s[k + i]
  BY <1>1, <1>2, <1>3, <1>4, <1>5
<1>8. a \o b \in Seq(S) /\ Len(a \o b) = Len(s) - 1
  <2>1. a \o b \in Seq(S) /\ Len(a \o b) = Len(a) + Len(b)
    OBVIOUS
  <2>2. Len(s) \in Nat
    OBVIOUS
  <2>. QED
    BY <2>1, <2>2, <1>7
<1>9. ASSUME NEW k \in 1..(Len(s) - 1)
      PROVE  (a \o b)[k] = IF k < i THEN s[k] ELSE s[k + 1]
  <2>1. CASE k < i
    BY <2>1, <1>7
  <2>2. CASE ~(k < i)
    <3>1. (a \o b)[k] = b[k - Len(a)]
      BY <2>2, <1>7
    <3>2. k - Len(a) = k - i + 1 /\ k - i + 1 \in 1..(Len(s) - i) /\ (k - i + 1) + i = k + 1
      BY <2>2, <1>7
    <3>. QED
      BY <2>2, <3>1, <3>2, <1>7
  <2>. QED
    BY <2>1, <2>2
<1>. QED
  BY <1>6, <1>8, <1>9

\* The merge window without r holds what it held, in the same order, but not r.
LEMMA WithoutOne ==
    ASSUME TableTypes, NEW r
    PROVE  /\ EndsBut(r) \in Seq(Ids)
           /\ \A i \in DOMAIN EndsBut(r) :
                 EndsBut(r)[i] # r /\ \E j \in DOMAIN ends : EndsBut(r)[i] = ends[j]
           /\ \A i, j \in DOMAIN EndsBut(r) : EndsBut(r)[i] = EndsBut(r)[j] => i = j
<1>1. ends \in Seq(Ids) /\ \A i, j \in DOMAIN ends : ends[i] = ends[j] => i = j
  BY DEF TableTypes
<1>2. CASE ~\E i \in DOMAIN ends : ends[i] = r
  <2>1. EndsBut(r) = ends
    BY <1>2 DEF EndsBut
  <2>. QED
    BY <2>1, <1>1, <1>2
<1>3. CASE \E i \in DOMAIN ends : ends[i] = r
  <2>1. PICK n \in 1..Len(ends) : ends[n] = r /\ EndsBut(r) = RemoveAt(ends, n)
    BY <1>1, <1>3 DEF EndsBut
  <2>2. /\ RemoveAt(ends, n) \in Seq(Ids) /\ Len(RemoveAt(ends, n)) = Len(ends) - 1
        /\ \A k \in 1..(Len(ends) - 1) :
              RemoveAt(ends, n)[k] = IF k < n THEN ends[k] ELSE ends[k + 1]
    BY <1>1, RemoveOne
  <2>3. PICK z \in Seq(Ids) : z = EndsBut(r)
    BY <2>1, <2>2
  <2>4. /\ DOMAIN z = 1..(Len(ends) - 1) /\ DOMAIN ends = 1..Len(ends)
        /\ \A k \in 1..(Len(ends) - 1) : z[k] = IF k < n THEN ends[k] ELSE ends[k + 1]
    BY <2>1, <2>2, <2>3, <1>1
  <2>. DEFINE Source(k) == IF k < n THEN k ELSE k + 1
  <2>5. Len(ends) \in Nat
    BY <1>1
  <2>6. ASSUME NEW k \in DOMAIN z
        PROVE  Source(k) \in DOMAIN ends /\ Source(k) # n /\ z[k] = ends[Source(k)]
    BY <2>4, <2>5
  <2>7. \A k, l \in DOMAIN z : Source(k) = Source(l) => k = l
    BY <2>4, <2>5
  <2>. HIDE DEF Source
  <2>8. \A k \in DOMAIN z : z[k] # r /\ \E j \in DOMAIN ends : z[k] = ends[j]
    BY <2>6, <2>1, <2>4, <1>1
  <2>9. \A k, l \in DOMAIN z : z[k] = z[l] => k = l
    BY <2>6, <2>7, <1>1
  <2>. QED
    BY <2>3, <2>8, <2>9
<1>. QED
  BY <1>2, <1>3

\* No statement takes an id away.
Grown == TableTypes' /\ Ids \subseteq Ids'

LEMMA TableSame == TableTypes /\ UNCHANGED table => Grown
  BY DEF TableTypes, Grown, table, Ids, OneOpen, Open

LEMMA InsertTable ==
    ASSUME TableTypes, NEW app \in Names, NEW by \in {"user", "detector"}, Insert(app, by)
    PROVE  Grown /\ NewId \in Ids'
<1>1. rows \in Seq(Meeting) /\ [st |-> "open", app |-> app, by |-> by, reason |-> "none"] \in Meeting
  BY DEF TableTypes, Meeting
<1>2. /\ rows' \in Seq(Meeting) /\ Len(rows') = Len(rows) + 1
      /\ DOMAIN rows = 1..Len(rows) /\ DOMAIN rows' = 1..(Len(rows) + 1)
      /\ \A r \in DOMAIN rows : rows'[r] = rows[r]
      /\ rows'[Len(rows) + 1].st = "open" /\ rows'[Len(rows) + 1].reason = "none"
  BY <1>1 DEF Insert
<1>3. Ids \subseteq Ids' /\ NewId \in Ids'
  BY <1>2, <1>1 DEF Ids, NewId
<1>4. Open = {} /\ Open' = {NewId}
  BY <1>2, <1>1 DEF Insert, Open, Ids, NewId
<1>5. ends' = ends /\ ends \in Seq(Ids)
  BY DEF Insert, TableTypes
<1>6. \A i, j \in DOMAIN ends' : rows'[ends'[i]].st = "ended" /\ (ends'[i] = ends'[j] => i = j)
  BY <1>2, <1>5 DEF TableTypes, Ids
<1>7. \A r \in Ids' : rows'[r].st # "ended" => rows'[r].reason = "none"
  BY <1>2 DEF TableTypes, Ids
<1>. QED
  BY <1>2, <1>3, <1>4, <1>5, <1>6, <1>7 DEF Grown, TableTypes, OneOpen

\* A row that changes while it stays in the table, and leaves the merge window or goes to
\* its end.
LEMMA ChangeTable ==
    ASSUME TableTypes, NEW r \in Ids, NEW m \in Meeting,
           rows' = [rows EXCEPT ![r] = m],
           m.st # "ended" => m.reason = "none" /\ ends' = EndsBut(r),
           m.st = "ended" => ends' = Append(EndsBut(r), r),
           m.st = "open" => Open \subseteq {r}
    PROVE  Grown
<1>1. /\ rows' \in Seq(Meeting) /\ Ids' = Ids /\ rows'[r] = m
      /\ \A s \in Ids : s # r => rows'[s] = rows[s]
  BY DEF TableTypes, Ids
<1>2. Open' \subseteq (Open \ {r}) \cup (IF m.st = "open" THEN {r} ELSE {})
  BY <1>1 DEF Open
<1>3. OneOpen'
  BY <1>2 DEF OneOpen, TableTypes
<1>4. \A s \in Ids' : rows'[s].st # "ended" => rows'[s].reason = "none"
  BY <1>1 DEF TableTypes
<1>5. PICK z \in Seq(Ids) :
         /\ z = EndsBut(r)
         /\ \A i \in DOMAIN z : z[i] # r /\ rows[z[i]].st = "ended"
         /\ \A i, j \in DOMAIN z : z[i] = z[j] => i = j
  BY WithoutOne DEF TableTypes
<1>6. \A i \in DOMAIN z : z[i] \in Ids
  BY <1>5
<1>7. /\ ends' \in Seq(Ids)
      /\ \A i, j \in DOMAIN ends' : rows'[ends'[i]].st = "ended" /\ (ends'[i] = ends'[j] => i = j)
  <2>1. CASE m.st # "ended"
    BY <2>1, <1>1, <1>5, <1>6
  <2>2. CASE m.st = "ended"
    <3>0. ends' = Append(z, r)
      BY <2>2, <1>5
    <3>1. /\ ends' \in Seq(Ids) /\ DOMAIN ends' = 1..(Len(z) + 1) /\ DOMAIN z = 1..Len(z)
          /\ \A i \in DOMAIN z : ends'[i] = z[i]
          /\ ends'[Len(z) + 1] = r
      <4>1. ends' \in Seq(Ids) /\ Len(ends') = Len(z) + 1 /\ DOMAIN ends' = 1..Len(ends')
        BY <3>0
      <4>2. DOMAIN z = 1..Len(z) /\ Len(z) \in Nat
        OBVIOUS
      <4>3. \A i \in 1..Len(z) : ends'[i] = z[i]
        BY <3>0
      <4>4. ends'[Len(z) + 1] = r
        BY <3>0
      <4>. QED
        BY <4>1, <4>2, <4>3, <4>4
    <3>2. \A i \in DOMAIN ends' : i \in DOMAIN z \/ i = Len(z) + 1
      BY <3>1, <1>5
    <3>. QED
      BY <2>2, <3>1, <3>2, <1>1, <1>5, <1>6
  <2>. QED
    BY <2>1, <2>2
<1>. QED
  BY <1>1, <1>3, <1>4, <1>7 DEF Grown, TableTypes

Whys == {"none", "explicit_stop", "auto_end", "shutdown"}

LEMMA EndTable ==
    ASSUME TableTypes, NEW r, NEW why \in Whys, End(r, why)
    PROVE  Grown
<1>1. CASE r \notin Stored
  BY <1>1, TableSame DEF End
<1>2. CASE r \in Stored
  <2>1. r \in Ids /\ rows[r] \in Meeting
    BY <1>2 DEF Stored, TableTypes, Ids
  <2>2. PICK m \in Meeting : m = [rows[r] EXCEPT !.st = "ended", !.reason = why]
    BY <2>1 DEF Meeting, Whys
  <2>3. rows' = [rows EXCEPT ![r] = m] /\ m.st = "ended"
    BY <2>1, <2>2, <1>2 DEF End, Meeting, TableTypes, Ids
  <2>. QED
    BY <2>1, <2>3, <1>2, ChangeTable DEF End
<1>. QED
  BY <1>1, <1>2

LEMMA ReopenTable ==
    ASSUME TableTypes, NEW r, Reopen(r)
    PROVE  Grown
<1>1. CASE r \notin Stored
  BY <1>1, TableSame DEF Reopen
<1>2. CASE r \in Stored
  <2>1. r \in Ids /\ rows[r] \in Meeting
    BY <1>2 DEF Stored, TableTypes, Ids
  <2>2. PICK m \in Meeting : m = [rows[r] EXCEPT !.st = "open", !.reason = "none"]
    BY <2>1 DEF Meeting
  <2>3. rows' = [rows EXCEPT ![r] = m] /\ m.st = "open" /\ m.reason = "none"
    BY <2>1, <2>2, <1>2 DEF Reopen, Meeting, TableTypes, Ids
  <2>. QED
    BY <2>1, <2>3, <1>2, ChangeTable DEF Reopen
<1>. QED
  BY <1>1, <1>2

\* The meeting to merge with is one that is in the table.
LEMMA RecentId ==
    ASSUME TableTypes, NEW app
    PROVE  RecentFor(app) \in Ids \cup {NoId}
<1>. DEFINE ok == {i \in DOMAIN ends : /\ rows[ends[i]].app = app
                                      /\ rows[ends[i]].reason # "explicit_stop"}
<1>1. ends \in Seq(Ids)
  BY DEF TableTypes
<1>2. CASE ok = {}
  BY <1>2 DEF RecentFor
<1>3. CASE ok # {}
  <2>1. ok \subseteq 1..Len(ends) /\ Len(ends) \in Nat
    BY <1>1
  <2>. DEFINE gap == {Len(ends) - i : i \in ok}
  <2>0. gap \subseteq Nat
    BY <2>1
  <2>2. PICK back : back \subseteq Nat /\ back = gap
    BY <2>0
  <2>9. back # {}
    BY <1>3, <2>2
  <2>3. PICK x \in back : \A y \in back : x <= y
    BY <2>2, <2>9, Least
  <2>4. PICK n \in ok : x = Len(ends) - n
    BY <2>2, <2>3
  <2>5. ASSUME NEW y \in ok
        PROVE  n >= y
    <3>1. Len(ends) - y \in back
      BY <2>2
    <3>2. Len(ends) - n <= Len(ends) - y
      BY <3>1, <2>3, <2>4
    <3>3. n \in 1..Len(ends) /\ y \in 1..Len(ends)
      BY <2>1
    <3>. HIDE DEF ok
    <3>. QED
      BY <3>2, <3>3, <2>1
  <2>6. Max(ok) \in ok
    BY <2>5 DEF Max
  <2>. QED
    BY <1>3, <2>6, <2>1, <1>1 DEF RecentFor
<1>. QED
  BY <1>2, <1>3

\* The last open row is one of the open rows.
LEMMA LastOpenId ==
    ASSUME TableTypes
    PROVE  LastOpen \in Open \cup {NoId} /\ (Open # {} => LastOpen \in Open) /\ Open \subseteq Stored
<1>1. Open \subseteq Stored /\ Open \subseteq Nat
  BY DEF Open, Stored, TableTypes, Ids
<1>2. CASE Open = {}
  BY <1>1, <1>2 DEF LastOpen
<1>3. CASE Open # {}
  <2>1. PICK r \in Open : \A s \in Open : s = r
    BY <1>3 DEF TableTypes, OneOpen
  <2>2. \A s \in Open : s <= r
    BY <2>1, <1>1
  <2>3. LastOpen \in Open
    BY <1>3, <2>1, <2>2 DEF LastOpen
  <2>. QED
    BY <1>1, <2>3
<1>. QED
  BY <1>2, <1>3

-----------------------------------------------------------------------------
(* What a step leaves alone keeps its type, though ids may be added.        *)

LEMMA LockStays ==
    ASSUME LockTypes, Ids \subseteq Ids', manual' = manual, flag' = flag
    PROVE  LockTypes'
<1>1. manual' \in Ids' \cup {NoId}
  BY DEF LockTypes
<1>2. flag' \in BOOLEAN
  BY Zenon DEF LockTypes
<1>. QED
  BY <1>1, <1>2 DEF LockTypes, NoId

LEMMA LoopKept == LoopTypes /\ Ids \subseteq Ids' /\ UNCHANGED loopVars => LoopTypes'
  BY DEF LoopTypes, loopVars, Tracking, NoId

LEMMA BusKept == BusTypes /\ Ids \subseteq Ids' /\ UNCHANGED bus => BusTypes'
<1>. SUFFICES ASSUME BusTypes, Ids \subseteq Ids', UNCHANGED bus
              PROVE  BusTypes'
  OBVIOUS
<1>1. [id : Ids, app : Names] \subseteq [id : Ids', app : Names]
  OBVIOUS
<1>2. Names' = Names
  BY DEF Names
<1>3. \A S, T : S \subseteq T => Seq(S) \subseteq Seq(T)
  OBVIOUS
<1>4. /\ Seq([id : Ids, app : Names]) \subseteq Seq([id : Ids', app : Names])
      /\ Seq(Ids) \subseteq Seq(Ids')
  BY <1>1, <1>3, Zenon
<1>. QED
  BY <1>2, <1>4 DEF BusTypes, bus

LEMMA ReqKept == ReqTypes /\ Ids \subseteq Ids' /\ UNCHANGED req => ReqTypes'
  BY DEF ReqTypes, NoId

\* A budget is spent within its limit.
Paid == UNCHANGED used \/ \E k \in Budgets : Spend(k)

LEMMA CountStep ==
    CountTypes /\ Ids \subseteq Ids' /\ Paid /\ userStopped' \subseteq Ids' => CountTypes'
<1>. SUFFICES ASSUME CountTypes, Paid
              PROVE  used' \in [Budgets -> Nat] /\ \A k \in Budgets : used'[k] <= Limit[k]
  BY DEF CountTypes
<1>1. CASE UNCHANGED used
  BY <1>1 DEF CountTypes
<1>2. ASSUME NEW k \in Budgets, Spend(k)
      PROVE  used' \in [Budgets -> Nat] /\ \A l \in Budgets : used'[l] <= Limit[l]
  <2>1. used \in [Budgets -> Nat] /\ Limit \in [Budgets -> Nat] /\ used[k] < Limit[k]
    BY <1>2 DEF CountTypes, Spend
  <2>2. used' = [used EXCEPT ![k] = used[k] + 1]
    BY <1>2 DEF Spend
  <2>. QED
    BY <2>1, <2>2 DEF CountTypes
<1>. QED
  BY <1>1, <1>2 DEF Paid

LEMMA CountKept == CountTypes /\ Ids \subseteq Ids' /\ Paid /\ UNCHANGED userStopped => CountTypes'
  BY CountStep DEF CountTypes

LEMMA FaultPaid == DbError \/ UNCHANGED used => Paid
  BY DEF DbError, Paid, Budgets

-----------------------------------------------------------------------------
(* The detection loop.                                                      *)

Starting == {"find", "reopen", "insert"}

\* The loop goes on to another place, with the same or with another id.
LEMMA TickMoves ==
    ASSUME LoopTypes, Ids \subseteq Ids', UNCHANGED <<det, lastStop>>,
           NEW t, tick' = t, t \in [pc : Steps, id : Ids' \cup {NoId}, man : BOOLEAN],
           t.pc \in Starting => tick.pc \in Starting
    PROVE  LoopTypes'
  BY DEF LoopTypes, Starting, Tracking, NoId

LEMMA Goes ==
    ASSUME LoopTypes, Ids \subseteq Ids', UNCHANGED <<det, lastStop>>,
           NEW p \in Steps, Goto(p), p \in Starting => tick.pc \in Starting
    PROVE  LoopTypes'
<1>1. tick \in [pc : Steps, id : Ids' \cup {NoId}, man : BOOLEAN]
  BY DEF LoopTypes
<1>2. PICK t : t = [tick EXCEPT !.pc = p]
  OBVIOUS
<1>3. t \in [pc : Steps, id : Ids' \cup {NoId}, man : BOOLEAN] /\ t.pc = p
  BY <1>1, <1>2
<1>. QED
  BY <1>2, <1>3, TickMoves DEF Goto

\* The memory of the loop changes, to something a meeting in progress may be.
LEMMA LoopMoves ==
    ASSUME Ids \subseteq Ids', lastStop' \in Ids' \cup {NoId},
           det' \in [st : {"Idle", "Confirming", "Active", "Ending"}, id : Ids' \cup {NoId},
                     app : Names, seen : BOOLEAN],
           det'.st \notin {"Active", "Ending"} => det'.id = NoId,
           tick' \in [pc : Steps, id : Ids' \cup {NoId}, man : BOOLEAN],
           tick'.pc \notin Starting
    PROVE  LoopTypes'
<1>1. Names' = Names
  BY DEF Names
<1>. QED
  BY <1>1 DEF LoopTypes, Starting, Tracking, NoId

LEMMA IdleLoop ==
    Idle \in [st : {"Idle", "Confirming", "Active", "Ending"}, id : Ids \cup {NoId},
              app : Names, seen : BOOLEAN] /\ Idle.id = NoId
  BY DEF Idle, Names

LEMMA NoTickLoop ==
    NoTick \in [pc : Steps, id : Ids \cup {NoId}, man : BOOLEAN] /\ NoTick.pc = "boot"
  BY DEF NoTick, Steps

LEMMA CloseOrphansTypes == Types /\ CloseOrphans => Types'
<1>. SUFFICES ASSUME Types, CloseOrphans
              PROVE  Types'
  OBVIOUS
<1>1. Grown /\ Paid
  <2>1. UNCHANGED table \/ End(LastOpen, "auto_end")
    BY DEF CloseOrphans
  <2>2. Grown
    BY <2>1, TableSame, EndTable DEF Types, Whys
  <2>. QED
    BY <2>2, FaultPaid DEF CloseOrphans
<1>2. tick' = [NoTick EXCEPT !.pc = "reattach"] /\ UNCHANGED <<manual, flag, bus, det, lastStop, req, userStopped>>
  BY DEF CloseOrphans
<1>3. tick' \in [pc : Steps, id : Ids' \cup {NoId}, man : BOOLEAN] /\ tick'.pc = "reattach"
  BY <1>2 DEF NoTick, Steps
<1>4. LoopTypes'
  BY <1>1, <1>2, <1>3, TickMoves DEF Types, Grown, Starting
<1>. QED
  BY <1>1, <1>2, <1>4, LockStays, BusKept, ReqKept, CountKept DEF Types, Grown

LEMMA ReattachTypes == Types /\ Reattach => Types'
<1>. SUFFICES ASSUME Types, Reattach
              PROVE  Types'
  OBVIOUS
<1>1. Grown /\ Paid /\ Goto("wait") /\ UNCHANGED <<manual, bus, lastStop, req, userStopped>>
  BY TableSame, FaultPaid DEF Reattach, Types
<1>2. LoopTypes' /\ flag' \in BOOLEAN
  <2>1. CASE UNCHANGED <<det, flag>>
    BY <1>1, <2>1, Goes DEF Reattach, Types, Grown, Steps, Starting, LockTypes
  <2>2. CASE /\ Open # {} /\ flag' = TRUE
             /\ det' = [st |-> "Active", id |-> LastOpen, app |-> rows[LastOpen].app, seen |-> FALSE]
    <3>1. LastOpen \in Open /\ LastOpen \in Ids /\ rows[LastOpen] \in Meeting
      BY <2>2, LastOpenId DEF Open, Types, TableTypes, Ids
    <3>2. det' = [st |-> "Active", id |-> LastOpen, app |-> rows[LastOpen].app, seen |-> FALSE]
      BY <2>2
    <3>3. tick' \in [pc : Steps, id : Ids' \cup {NoId}, man : BOOLEAN] /\ tick'.pc = "wait"
      BY <1>1 DEF Types, LoopTypes, Goto, Steps, Grown
    <3>4. lastStop' \in Ids' \cup {NoId}
      BY <1>1 DEF Types, LoopTypes, Grown
    <3>5. det' \in [st : {"Idle", "Confirming", "Active", "Ending"}, id : Ids' \cup {NoId},
                    app : Names, seen : BOOLEAN]
      BY <3>1, <3>2, <1>1 DEF Meeting, Grown
    <3>. QED
      BY <1>1, <2>2, <3>2, <3>3, <3>4, <3>5, LoopMoves DEF Starting, Grown
  <2>. QED
    BY <2>1, <2>2 DEF Reattach
<1>3. LockTypes'
  BY <1>1, <1>2 DEF Types, LockTypes, Grown
<1>. QED
  BY <1>1, <1>2, <1>3, BusKept, ReqKept, CountKept DEF Types, Grown

\* Nothing is lost of a queue but its head.
LEMMA TailTypes ==
    ASSUME NEW S, NEW q \in Seq(S), q # <<>>
    PROVE  Head(q) \in S /\ Tail(q) \in Seq(S)
  OBVIOUS

LEMMA AppendTypes ==
    ASSUME NEW S, NEW q \in Seq(S), NEW e \in S
    PROVE  Append(q, e) \in Seq(S)
  OBVIOUS

LEMMA DrainStopTypes == Types /\ DrainStop => Types'
<1>. SUFFICES ASSUME Types, DrainStop
              PROVE  Types'
  OBVIOUS
<1>1. Grown /\ Paid /\ Ids' = Ids /\ Goto("auto")
      /\ UNCHANGED <<table, manual, autoQ, used, userStopped>>
  BY TableSame, FaultPaid DEF DrainStop, Types, table, Ids
<1>2. ReqTypes'
  <2>1. /\ req' = [c \in Clients |-> [req[c] EXCEPT !.aged = req[c].pc # "idle"]]
        /\ req \in [Clients -> [op : AllOps \cup {"none"}, pc : Places, id : Ids \cup {NoId},
                                stale : Ids \cup {NoId}, aged : BOOLEAN]]
    BY DEF DrainStop, Types, ReqTypes
  <2>2. req' \in [Clients -> [op : AllOps \cup {"none"}, pc : Places, id : Ids \cup {NoId},
                              stale : Ids \cup {NoId}, aged : BOOLEAN]]
    BY <2>1
  <2>3. \A c \in Clients : /\ req'[c].op = req[c].op /\ req'[c].pc = req[c].pc
                           /\ req'[c].id = req[c].id
    BY <2>1
  <2>. QED
    BY <1>1, <2>2, <2>3 DEF Types, ReqTypes
<1>3. stopQ' \in Seq([id : Ids, app : Names])
  BY TailTypes DEF DrainStop, Types, BusTypes
<1>4. BusTypes'
  BY <1>1, <1>3 DEF BusTypes, Types, Names
<1>5. LoopTypes' /\ flag' \in BOOLEAN
  <2>1. CASE UNCHANGED <<stopQ, det, flag, lastStop>> \/ UNCHANGED <<det, flag, lastStop>>
    BY <1>1, <2>1, Goes DEF Types, Steps, Starting, LockTypes
  <2>2. CASE stopQ # <<>> /\ det' = Idle /\ flag' = FALSE /\ lastStop' = Head(stopQ).id
    <3>1. Head(stopQ).id \in Ids
      BY <2>2, TailTypes DEF Types, BusTypes
    <3>2. tick' \in [pc : Steps, id : Ids \cup {NoId}, man : BOOLEAN] /\ tick'.pc = "auto"
      BY <1>1 DEF Types, LoopTypes, Goto, Steps
    <3>. QED
      BY <1>1, <2>2, <3>1, <3>2, IdleLoop, LoopMoves DEF Starting
  <2>. QED
    BY <2>1, <2>2 DEF DrainStop
<1>6. LockTypes'
  BY <1>1, <1>5 DEF Types, LockTypes
<1>. QED
  BY <1>1, <1>2, <1>4, <1>5, <1>6, CountKept DEF Types, Grown

LEMMA DrainAutoEndTypes == Types /\ DrainAutoEnd => Types'
<1>. SUFFICES ASSUME Types, DrainAutoEnd
              PROVE  Types'
  OBVIOUS
<1>1. Grown /\ Paid /\ Ids' = Ids
      /\ UNCHANGED <<table, manual, flag, stopQ, det, lastStop, req, used, userStopped>>
  BY TableSame, FaultPaid DEF DrainAutoEnd, Types, table, Ids
<1>2. autoQ' \in Seq(Ids) /\ (autoQ # <<>> => Head(autoQ) \in Ids)
  BY TailTypes DEF DrainAutoEnd, Types, BusTypes
<1>3. BusTypes'
  BY <1>1, <1>2 DEF BusTypes, Types, Names
<1>4. LoopTypes'
  <2>1. CASE Goto("check")
    BY <1>1, <2>1, Goes DEF Types, Steps, Starting
  <2>2. CASE ~Goto("check")
    <3>1. autoQ # <<>> /\ tick' = [pc |-> "autoEnd", id |-> Head(autoQ), man |-> manual = Head(autoQ)]
      BY <2>2 DEF DrainAutoEnd
    <3>2. tick' \in [pc : Steps, id : Ids \cup {NoId}, man : BOOLEAN] /\ tick'.pc = "autoEnd"
      BY <3>1, <1>2 DEF Steps
    <3>. QED
      BY <1>1, <3>2, TickMoves DEF Types, Starting
  <2>. QED
    BY <2>1, <2>2
<1>. QED
  BY <1>1, <1>3, <1>4, LockStays, ReqKept, CountKept DEF Types, Grown

LEMMA AutoEndTypes == Types /\ AutoEnd => Types'
<1>. SUFFICES ASSUME Types, AutoEnd
              PROVE  Types'
  OBVIOUS
<1>1. Grown /\ Paid
  BY TableSame, EndTable, FaultPaid DEF AutoEnd, Types, Whys
<1>2. (Goto("autoUnlock") \/ Goto("check"))
      /\ UNCHANGED <<manual, flag, bus, det, lastStop, req, userStopped>>
  BY DEF AutoEnd
<1>3. LoopTypes'
  BY <1>1, <1>2, Goes DEF Types, Grown, Steps, Starting
<1>. QED
  BY <1>1, <1>2, <1>3, LockStays, BusKept, ReqKept, CountKept DEF Types, Grown

LEMMA AutoUnlockTypes == Types /\ AutoUnlock => Types'
<1>. SUFFICES ASSUME Types, AutoUnlock
              PROVE  Types'
  OBVIOUS
<1>1. Grown /\ Paid /\ Ids' = Ids /\ Goto("autoResolve")
      /\ UNCHANGED <<table, bus, lastStop, req, used, userStopped>>
  BY TableSame, FaultPaid DEF AutoUnlock, Types, table, Ids
<1>2. LoopTypes'
  <2>1. CASE det' = det
    BY <1>1, <2>1, Goes DEF Types, Steps, Starting
  <2>2. CASE det' = Idle
    <3>1. tick' \in [pc : Steps, id : Ids \cup {NoId}, man : BOOLEAN] /\ tick'.pc = "autoResolve"
      BY <1>1 DEF Types, LoopTypes, Goto, Steps
    <3>2. lastStop' \in Ids \cup {NoId}
      BY <1>1 DEF Types, LoopTypes
    <3>. QED
      BY <1>1, <2>2, <3>1, <3>2, IdleLoop, LoopMoves DEF Starting
  <2>. QED
    BY <2>1, <2>2 DEF AutoUnlock
<1>3. manual' \in Ids \cup {NoId} /\ flag' = FALSE
  BY DEF AutoUnlock, Types, LockTypes
<1>4. LockTypes'
  BY <1>1, <1>3 DEF LockTypes, NoId
<1>. QED
  BY <1>1, <1>2, <1>4, BusKept, ReqKept, CountKept DEF Types, Grown

LEMMA CheckTypes == Types /\ (Suspend \/ GoScan) => Types'
<1>. SUFFICES ASSUME Types, Suspend \/ GoScan
              PROVE  Types'
  OBVIOUS
<1>1. /\ Goto("wait") \/ Goto("scan")
      /\ UNCHANGED <<table, manual, flag, bus, det, lastStop, req, used, userStopped>>
  BY DEF Suspend, GoScan
<1>2. Grown /\ Paid
  BY <1>1, TableSame, FaultPaid DEF Types
<1>3. LoopTypes'
  BY <1>1, <1>2, Goes DEF Types, Grown, Steps, Starting
<1>. QED
  BY <1>1, <1>2, <1>3, LockStays, BusKept, ReqKept, CountKept DEF Types, Grown

\* The state machine goes on with the same meeting, without one, or to one it will store.
LEMMA AfterTypes ==
    ASSUME Types, Ids' = Ids, UNCHANGED lastStop,
           NEW m, NEW p \in Steps, NEW id \in Ids \cup {NoId}, After(m, p, id),
           m \in [st : {"Idle", "Confirming", "Active", "Ending"}, id : Ids \cup {NoId},
                  app : Names, seen : BOOLEAN],
           m.st \notin {"Active", "Ending"} => m.id = NoId,
           p \in Starting => m.st = "Active" /\ m.id = NoId /\ m.app \in Apps
    PROVE  LoopTypes'
<1>1. det' = m /\ tick' = [tick EXCEPT !.pc = p, !.id = id]
  BY DEF After
<1>2. tick' \in [pc : Steps, id : Ids' \cup {NoId}, man : BOOLEAN] /\ tick'.pc = p
  BY <1>1 DEF Types, LoopTypes
<1>3. Names' = Names /\ lastStop' \in Ids' \cup {NoId}
  BY DEF Names, Types, LoopTypes
<1>. QED
  BY <1>1, <1>2, <1>3 DEF LoopTypes, Starting, Tracking, NoId

Loops == [st : {"Idle", "Confirming", "Active", "Ending"}, id : Ids \cup {NoId},
          app : Names, seen : BOOLEAN]

LEMMA InCallTypes ==
    ASSUME Types, Ids' = Ids, UNCHANGED lastStop, NEW app \in Apps, InCall(app)
    PROVE  LoopTypes' /\ Paid
<1>0. det \in Loops /\ app \in Names /\ (~Tracking => det.id = NoId) /\ NoId \in Ids \cup {NoId}
  BY DEF Types, LoopTypes, Loops, Names
<1>. USE DEF Loops
<1>1. CASE det.st = "Idle" /\ After([Idle EXCEPT !.st = "Confirming", !.app = app], "sync", NoId)
           /\ UNCHANGED used
  <2>1. PICK m \in Loops : m = [Idle EXCEPT !.st = "Confirming", !.app = app]
    BY <1>0 DEF Idle
  <2>2. m.st = "Confirming" /\ m.id = NoId
    BY <2>1 DEF Idle
  <2>. QED
    BY <1>0, <1>1, <2>1, <2>2, AfterTypes, FaultPaid DEF Steps, Starting
<1>2. CASE det.st = "Confirming" /\ Spend("detects")
           /\ After([Idle EXCEPT !.st = "Active", !.app = app], "find", NoId)
  <2>1. PICK m \in Loops : m = [Idle EXCEPT !.st = "Active", !.app = app]
    BY <1>0 DEF Idle
  <2>2. m.st = "Active" /\ m.id = NoId /\ m.app = app
    BY <2>1 DEF Idle
  <2>3. Paid
    BY <1>2 DEF Paid, Budgets
  <2>. QED
    BY <1>0, <1>2, <2>1, <2>2, <2>3, AfterTypes DEF Steps, Starting
<1>3. CASE det.st = "Active" /\ After([det EXCEPT !.app = app], "sync", NoId) /\ UNCHANGED used
  <2>1. PICK m \in Loops : m = [det EXCEPT !.app = app]
    BY <1>0
  <2>2. m.st = "Active"
    BY <1>0, <1>3, <2>1
  <2>. QED
    BY <1>0, <1>3, <2>1, <2>2, AfterTypes, FaultPaid DEF Steps, Starting
<1>4. CASE det.st = "Ending" /\ UNCHANGED used
           /\ After([det EXCEPT !.st = "Active", !.app = app, !.seen = FALSE], "sync", NoId)
  <2>1. PICK m \in Loops : m = [det EXCEPT !.st = "Active", !.app = app, !.seen = FALSE]
    BY <1>0
  <2>2. m.st = "Active"
    BY <1>0, <2>1
  <2>. QED
    BY <1>0, <1>4, <2>1, <2>2, AfterTypes, FaultPaid DEF Steps, Starting
<1>5. CASE det.st = "Ending" /\ UNCHANGED used /\ After([det EXCEPT !.seen = TRUE], "sync", NoId)
  <2>1. PICK m \in Loops : m = [det EXCEPT !.seen = TRUE]
    BY <1>0
  <2>2. m.st = "Ending"
    BY <1>0, <1>5, <2>1
  <2>. QED
    BY <1>0, <1>5, <2>1, <2>2, AfterTypes, FaultPaid DEF Steps, Starting
<1>. QED
  BY <1>1, <1>2, <1>3, <1>4, <1>5 DEF InCall

LEMMA NoCallTypes ==
    ASSUME Types, Ids' = Ids, UNCHANGED lastStop,
           NEW gone \in BOOLEAN, NEW late \in BOOLEAN, NEW alive \in BOOLEAN,
           NoCall(gone, late, alive)
    PROVE  LoopTypes' /\ Paid
<1>0. /\ det \in Loops /\ (~Tracking => det.id = NoId) /\ NoId \in Ids \cup {NoId}
      /\ Idle \in Loops /\ Idle.st = "Idle" /\ Idle.id = NoId
  BY IdleLoop DEF Types, LoopTypes, Loops, Idle
<1>. USE DEF Loops
<1>1. PICK m, p, id :
         /\ After(m, p, id)
         /\ \/ m = det \/ m = Idle
            \/ m = [det EXCEPT !.st = "Ending", !.seen = FALSE] /\ Tracking
            \/ m = [det EXCEPT !.st = "Active", !.seen = FALSE] /\ Tracking
            \/ m = [det EXCEPT !.seen = FALSE] /\ Tracking
         /\ p = "sync" \/ p = "endRow"
         /\ id = NoId \/ id = det.id
  <2>1. CASE det.st = "Idle"
    BY <2>1 DEF NoCall
  <2>2. CASE det.st = "Confirming"
    BY <2>2 DEF NoCall
  <2>3. CASE det.st = "Active"
    BY <2>3 DEF NoCall, Tracking
  <2>4. CASE det.st = "Ending"
    BY <2>4 DEF NoCall, Tracking
  <2>. QED
    BY <2>1, <2>2, <2>3, <2>4 DEF NoCall
<1>2. m \in Loops /\ (m.st \notin {"Active", "Ending"} => m.id = NoId)
  <2>1. CASE m = det \/ m = Idle
    BY <1>0, <2>1 DEF Tracking
  <2>2. CASE m = [det EXCEPT !.st = "Ending", !.seen = FALSE]
    BY <1>0, <2>2
  <2>3. CASE m = [det EXCEPT !.st = "Active", !.seen = FALSE]
    BY <1>0, <2>3
  <2>4. CASE m = [det EXCEPT !.seen = FALSE] /\ Tracking
    BY <1>0, <2>4 DEF Tracking
  <2>. QED
    BY <1>1, <2>1, <2>2, <2>3, <2>4
<1>3. p \in Steps /\ p \notin Starting /\ id \in Ids \cup {NoId}
  BY <1>0, <1>1 DEF Steps, Starting
<1>4. Paid
  BY FaultPaid DEF NoCall
<1>. QED
  BY <1>1, <1>2, <1>3, <1>4, AfterTypes

LEMMA ScanTypes == Types /\ Scan => Types'
<1>. SUFFICES ASSUME Types, Scan
              PROVE  Types'
  OBVIOUS
<1>1. UNCHANGED <<table, manual, flag, bus, lastStop, req, userStopped>>
  BY DEF Scan
<1>2. Grown /\ Ids' = Ids
  BY <1>1, TableSame DEF Types, table, Ids
<1>3. LoopTypes' /\ Paid
  BY <1>1, <1>2, InCallTypes, NoCallTypes DEF Scan
<1>. QED
  BY <1>1, <1>2, <1>3, LockStays, BusKept, ReqKept, CountKept DEF Types, Grown

LEMMA FindRecentTypes == Types /\ FindRecent => Types'
<1>. SUFFICES ASSUME Types, FindRecent
              PROVE  Types'
  OBVIOUS
<1>1. UNCHANGED <<table, manual, flag, bus, det, lastStop, req, userStopped>>
  BY DEF FindRecent
<1>2. Grown /\ Ids' = Ids /\ Paid
  BY <1>1, TableSame, FaultPaid DEF Types, table, Ids, FindRecent
<1>3. LoopTypes'
  <2>1. CASE Goto("insert")
    BY <1>1, <1>2, <2>1, Goes DEF FindRecent, At, Types, Steps, Starting
  <2>2. CASE tick' = [tick EXCEPT !.pc = "reopen", !.id = RecentFor(det.app)]
    <3>1. tick' \in [pc : Steps, id : Ids' \cup {NoId}, man : BOOLEAN] /\ tick'.pc = "reopen"
      BY <1>2, <2>2, RecentId DEF Types, LoopTypes, Steps
    <3>2. tick.pc \in Starting
      BY DEF FindRecent, At, Starting
    <3>. QED
      BY <1>1, <1>2, <3>1, <3>2, TickMoves DEF Types
  <2>. QED
    BY <2>1, <2>2 DEF FindRecent
<1>. QED
  BY <1>1, <1>2, <1>3, LockStays, BusKept, ReqKept, CountKept DEF Types, Grown

\* A started meeting is given its row.
LEMMA Numbered ==
    ASSUME Types, Ids \subseteq Ids', UNCHANGED lastStop, tick.pc \in Starting, Goto("resolve"),
           NEW id \in Ids' \cup {NoId}, det' = [det EXCEPT !.id = id]
    PROVE  LoopTypes'
<1>1. det \in [st : {"Idle", "Confirming", "Active", "Ending"}, id : Ids \cup {NoId},
               app : Names, seen : BOOLEAN] /\ det.st = "Active"
  BY DEF Types, LoopTypes, Starting
<1>2. /\ det' \in [st : {"Idle", "Confirming", "Active", "Ending"}, id : Ids' \cup {NoId},
                   app : Names, seen : BOOLEAN]
      /\ det'.st = "Active"
  BY <1>1
<1>3. tick' \in [pc : Steps, id : Ids' \cup {NoId}, man : BOOLEAN] /\ tick'.pc = "resolve"
  BY DEF Types, LoopTypes, Goto, Steps
<1>4. lastStop' \in Ids' \cup {NoId}
  BY DEF Types, LoopTypes
<1>. QED
  BY <1>2, <1>3, <1>4, LoopMoves DEF Starting

LEMMA ReopenRecentTypes == Types /\ ReopenRecent => Types'
<1>. SUFFICES ASSUME Types, ReopenRecent
              PROVE  Types'
  OBVIOUS
<1>1. UNCHANGED <<manual, flag, bus, lastStop, req, userStopped>> /\ Paid /\ tick.pc \in Starting
  BY FaultPaid DEF ReopenRecent, At, Starting
<1>2. Grown
  BY TableSame, ReopenTable DEF Types, ReopenRecent
<1>3. LoopTypes'
  <2>1. CASE Goto("insert") /\ UNCHANGED det
    BY <1>1, <1>2, <2>1, Goes DEF Types, Grown, Steps
  <2>2. CASE det' = [det EXCEPT !.id = tick.id] /\ Goto("resolve")
    <3>1. tick.id \in Ids' \cup {NoId}
      BY <1>2 DEF Types, LoopTypes, Grown
    <3>. QED
      BY <1>1, <1>2, <2>2, <3>1, Numbered DEF Grown
  <2>. QED
    BY <2>1, <2>2 DEF ReopenRecent
<1>. QED
  BY <1>1, <1>2, <1>3, LockStays, BusKept, ReqKept, CountKept DEF Types, Grown

LEMMA InsertNewTypes == Types /\ InsertNew => Types'
<1>. SUFFICES ASSUME Types, InsertNew
              PROVE  Types'
  OBVIOUS
<1>1. /\ UNCHANGED <<manual, flag, bus, lastStop, req, userStopped>> /\ Paid
      /\ tick.pc \in Starting /\ Goto("resolve")
  BY FaultPaid DEF InsertNew, At, Starting
<1>2. det.app \in Names
  BY DEF Types, LoopTypes
<1>3. Grown /\ LoopTypes'
  <2>1. CASE UNCHANGED <<table, det>>
    BY <1>1, <2>1, TableSame, Goes DEF Types, Grown, Steps, Starting
  <2>2. CASE Insert(det.app, "detector") /\ det' = [det EXCEPT !.id = NewId]
    <3>1. Grown /\ NewId \in Ids'
      BY <1>2, <2>2, InsertTable DEF Types
    <3>. QED
      BY <1>1, <2>2, <3>1, Numbered DEF Grown
  <2>. QED
    BY <2>1, <2>2 DEF InsertNew
<1>. QED
  BY <1>1, <1>3, LockStays, BusKept, ReqKept, CountKept DEF Types, Grown

LEMMA EndTrackedTypes == Types /\ EndTracked => Types'
<1>. SUFFICES ASSUME Types, EndTracked
              PROVE  Types'
  OBVIOUS
<1>1. Grown /\ Paid
  BY TableSame, EndTable, FaultPaid DEF EndTracked, Types, Whys
<1>2. (Goto("resolve") \/ Goto("sync"))
      /\ UNCHANGED <<manual, flag, bus, det, lastStop, req, userStopped>>
  BY DEF EndTracked
<1>3. LoopTypes'
  BY <1>1, <1>2, Goes DEF Types, Grown, Steps, Starting
<1>. QED
  BY <1>1, <1>2, <1>3, LockStays, BusKept, ReqKept, CountKept DEF Types, Grown

LEMMA LoopResolveTypes == Types /\ LoopResolve => Types'
<1>. SUFFICES ASSUME Types, LoopResolve
              PROVE  Types'
  OBVIOUS
<1>1. UNCHANGED <<table, manual, flag, bus, det, lastStop, req, userStopped>>
  BY DEF LoopResolve
<1>2. Grown /\ Ids' = Ids /\ Paid
  BY <1>1, TableSame, FaultPaid DEF Types, table, Ids, LoopResolve
<1>3. PICK p \in {"sync", "check", "clear", "autoClear"} :
         Goto(p) \/ tick' = [tick EXCEPT !.pc = p, !.id = manual]
  BY DEF LoopResolve
<1>4. tick' \in [pc : Steps, id : Ids' \cup {NoId}, man : BOOLEAN] /\ tick'.pc = p
  BY <1>2, <1>3 DEF Types, LoopTypes, LockTypes, Goto, Steps
<1>5. LoopTypes'
  BY <1>1, <1>2, <1>3, <1>4, TickMoves DEF Types, Starting
<1>. QED
  BY <1>1, <1>2, <1>5, LockStays, BusKept, ReqKept, CountKept DEF Types, Grown

LEMMA LoopClearTypes == Types /\ LoopClear => Types'
<1>. SUFFICES ASSUME Types, LoopClear
              PROVE  Types'
  OBVIOUS
<1>1. /\ UNCHANGED <<table, flag, bus, det, lastStop, req, used, userStopped>>
      /\ Goto("sync") \/ Goto("check")
  BY DEF LoopClear
<1>2. Grown /\ Ids' = Ids /\ Paid
  BY <1>1, TableSame, FaultPaid DEF Types, table, Ids
<1>3. LoopTypes'
  BY <1>1, <1>2, Goes DEF Types, Steps, Starting
<1>4. manual' \in Ids \cup {NoId}
  BY DEF LoopClear, Types, LockTypes
<1>5. LockTypes'
  BY <1>1, <1>2, <1>4 DEF Types, LockTypes, NoId
<1>. QED
  BY <1>1, <1>2, <1>3, <1>5, BusKept, ReqKept, CountKept DEF Types, Grown

LEMMA SyncFlagTypes == Types /\ SyncFlag => Types'
<1>. SUFFICES ASSUME Types, SyncFlag
              PROVE  Types'
  OBVIOUS
<1>1. /\ UNCHANGED <<table, manual, bus, det, lastStop, req, used, userStopped>>
      /\ tick' = [NoTick EXCEPT !.pc = "wait"] /\ flag' = (det.st = "Active")
  BY DEF SyncFlag
<1>2. Grown /\ Ids' = Ids /\ Paid
  BY <1>1, TableSame, FaultPaid DEF Types, table, Ids
<1>3. tick' \in [pc : Steps, id : Ids' \cup {NoId}, man : BOOLEAN] /\ tick'.pc = "wait"
  BY <1>1 DEF NoTick, Steps
<1>4. LoopTypes'
  BY <1>1, <1>2, <1>3, TickMoves DEF Types, Starting
<1>5. LockTypes'
  BY <1>1, <1>2 DEF Types, LockTypes, NoId
<1>. QED
  BY <1>1, <1>2, <1>4, <1>5, BusKept, ReqKept, CountKept DEF Types, Grown

LEMMA ShutdownTypes == Types /\ Shutdown => Types'
<1>. SUFFICES ASSUME Types, Shutdown
              PROVE  Types'
  OBVIOUS
<1>1. Goto("off") /\ flag' = FALSE /\ UNCHANGED <<manual, bus, det, lastStop, req, userStopped>>
  BY DEF Shutdown
<1>2. Grown /\ Paid
  BY TableSame, EndTable DEF Shutdown, Types, Whys, Paid, Budgets
<1>3. LoopTypes'
  BY <1>1, <1>2, Goes DEF Types, Grown, Steps, Starting
<1>4. manual' \in Ids' \cup {NoId}
  BY <1>1, <1>2 DEF Types, LockTypes, Grown
<1>5. LockTypes'
  BY <1>1, <1>4 DEF LockTypes, NoId
<1>. QED
  BY <1>1, <1>2, <1>3, <1>5, BusKept, ReqKept, CountKept DEF Types, Grown

LEMMA NoReqType ==
    /\ NoReq \in [op : AllOps \cup {"none"}, pc : Places, id : Ids \cup {NoId},
                  stale : Ids \cup {NoId}, aged : BOOLEAN]
    /\ NoReq.pc = "idle" /\ NoReq.op = "none" /\ NoReq.id = NoId /\ NoReq.stale = NoId
  BY DEF NoReq, Places

LEMMA RestartTypes == Types /\ Restart => Types'
<1>. SUFFICES ASSUME Types, Restart
              PROVE  Types'
  OBVIOUS
<1>1. /\ UNCHANGED <<table, userStopped>> /\ manual' = NoId /\ flag' = FALSE /\ stopQ' = <<>>
      /\ autoQ' = <<>> /\ det' = Idle /\ lastStop' = NoId /\ req' = [c \in Clients |-> NoReq]
  BY DEF Restart
<1>2. PICK old \in {NoId, LastOpen} : tick' = [NoTick EXCEPT !.id = old]
  BY DEF Restart
<1>3. Grown /\ Ids' = Ids /\ Paid
  BY <1>1, TableSame DEF Restart, Types, table, Ids, Paid, Budgets
<1>4. old \in Ids \cup {NoId}
  BY LastOpenId DEF Types, Open
<1>5. tick' \in [pc : Steps, id : Ids' \cup {NoId}, man : BOOLEAN] /\ tick'.pc = "boot"
  BY <1>2, <1>3, <1>4, NoTickLoop DEF NoTick, Steps
<1>6. LoopTypes'
  BY <1>1, <1>3, <1>5, IdleLoop, LoopMoves DEF Starting
<1>7. LockTypes'
  BY <1>1 DEF LockTypes, NoId
<1>8. BusTypes'
  BY <1>1 DEF BusTypes
<1>9. ReqTypes'
  BY <1>1, <1>3, NoReqType DEF ReqTypes, Decided
<1>. QED
  BY <1>1, <1>3, <1>6, <1>7, <1>8, <1>9, CountKept DEF Types, Grown

LEMMA AgeTypes == Types /\ Age => Types'
<1>. SUFFICES ASSUME Types, Age
              PROVE  Types'
  OBVIOUS
<1>1. UNCHANGED <<rows, manual, flag, bus, loopVars, req, used, userStopped>> /\ ends # <<>>
  BY DEF Age
<1>2. ends \in Seq(Ids) /\ ends' = Tail(ends) /\ Ids' = Ids
  BY <1>1 DEF Age, Types, TableTypes, Ids
<1>3. /\ ends' \in Seq(Ids)
      /\ \A i \in DOMAIN ends' : i + 1 \in DOMAIN ends /\ ends'[i] = ends[i + 1]
      /\ DOMAIN ends' \subseteq Nat
  BY <1>1, <1>2
<1>4. \A i, j \in DOMAIN ends' : rows[ends'[i]].st = "ended" /\ (ends'[i] = ends'[j] => i = j)
  <2>. SUFFICES ASSUME NEW i \in DOMAIN ends', NEW j \in DOMAIN ends'
                PROVE  rows[ends'[i]].st = "ended" /\ (ends'[i] = ends'[j] => i = j)
    OBVIOUS
  <2>1. rows[ends[i + 1]].st = "ended" /\ (ends[i + 1] = ends[j + 1] => i + 1 = j + 1)
    BY <1>3 DEF Types, TableTypes
  <2>. QED
    BY <2>1, <1>3
<1>5. Grown
  BY <1>1, <1>2, <1>3, <1>4 DEF Grown, Types, TableTypes, OneOpen, Open
<1>6. Paid
  BY <1>1, FaultPaid
<1>. QED
  BY <1>1, <1>5, <1>6, LockStays, LoopKept, BusKept, ReqKept, CountKept DEF Types, Grown

-----------------------------------------------------------------------------
(* The handlers.                                                            *)

LEMMA ReqMoves ==
    ASSUME ReqTypes, Ids \subseteq Ids', NEW c \in Clients,
           NEW q \in [op : AllOps \cup {"none"}, pc : Places, id : Ids' \cup {NoId},
                      stale : Ids' \cup {NoId}, aged : BOOLEAN],
           req' = [req EXCEPT ![c] = q],
           q.pc \in Decided => q.id \in Ids',
           q.pc = "end" => q.op = "stop"
    PROVE  ReqTypes'
<1>1. req \in [Clients -> [op : AllOps \cup {"none"}, pc : Places, id : Ids' \cup {NoId},
                           stale : Ids' \cup {NoId}, aged : BOOLEAN]]
  BY DEF ReqTypes
<1>2. /\ req' \in [Clients -> [op : AllOps \cup {"none"}, pc : Places, id : Ids' \cup {NoId},
                               stale : Ids' \cup {NoId}, aged : BOOLEAN]]
      /\ \A d \in Clients : req'[d] = IF d = c THEN q ELSE req[d]
  BY <1>1
<1>3. \A d \in Clients : /\ req'[d].pc \in Decided => req'[d].id \in Ids'
                         /\ req'[d].pc = "end" => req'[d].op = "stop"
  BY <1>2 DEF ReqTypes
<1>. QED
  BY <1>2, <1>3 DEF ReqTypes, NoId

LEMMA StepReq ==
    ASSUME ReqTypes, Ids \subseteq Ids', NEW c \in Clients, NEW p \in Places, Step(c, p),
           p \in Decided => req[c].id \in Ids', p # "end"
    PROVE  ReqTypes'
<1>0. req[c] \in [op : AllOps \cup {"none"}, pc : Places, id : Ids' \cup {NoId},
                  stale : Ids' \cup {NoId}, aged : BOOLEAN]
  BY DEF ReqTypes
<1>1. PICK q : q = [req[c] EXCEPT !.pc = p]
  OBVIOUS
<1>2. /\ q \in [op : AllOps \cup {"none"}, pc : Places, id : Ids' \cup {NoId},
                stale : Ids' \cup {NoId}, aged : BOOLEAN]
      /\ q.pc = p /\ q.id = req[c].id
  BY <1>0, <1>1
<1>3. req' = [req EXCEPT ![c] = q]
  BY <1>1 DEF Step
<1>. QED
  BY <1>2, <1>3, ReqMoves

LEMMA ReplyReq ==
    ASSUME ReqTypes, Ids \subseteq Ids', NEW c \in Clients, Reply(c)
    PROVE  ReqTypes'
<1>1. PICK q \in [op : AllOps \cup {"none"}, pc : Places, id : Ids' \cup {NoId},
                  stale : Ids' \cup {NoId}, aged : BOOLEAN] : q = NoReq /\ q.pc = "idle"
  BY NoReqType
<1>2. req' = [req EXCEPT ![c] = q]
  BY <1>1 DEF Reply
<1>. QED
  BY <1>1, <1>2, ReqMoves DEF Decided

\* Acting on the active meeting, a handler names a row, its own or that of the meeting.
LEMMA DecideReq ==
    ASSUME Types, Ids' = Ids, NEW c \in Clients, NEW act \in Open \cup {NoId}, Decide(c, act)
    PROVE  ReqTypes'
<1>1. /\ req[c] \in [op : AllOps \cup {"none"}, pc : Places, id : Ids \cup {NoId},
                     stale : Ids \cup {NoId}, aged : BOOLEAN]
      /\ Open \subseteq Ids /\ Stored \subseteq Ids /\ NoId \in Ids \cup {NoId}
      /\ ReqTypes
  BY DEF Types, ReqTypes, Open, Stored
<1>2. CASE Reply(c)
  BY <1>1, <1>2, ReplyReq
<1>3. ASSUME NEW p, NEW r, req' = [req EXCEPT ![c].pc = p, ![c].id = r, ![c].stale = NoId],
             \/ p = "insert" /\ r = NoId
             \/ p \in {"lock", "reopen"} /\ r \in Ids
             \/ p = "end" /\ r \in Ids /\ req[c].op = "stop"
      PROVE  ReqTypes'
  <2>1. r \in Ids \cup {NoId} /\ p \in Places
    BY <1>3 DEF Places
  <2>0. PICK q : q = [req[c] EXCEPT !.pc = p, !.id = r, !.stale = NoId]
    OBVIOUS
  <2>2. /\ q \in [op : AllOps \cup {"none"}, pc : Places, id : Ids' \cup {NoId},
                  stale : Ids' \cup {NoId}, aged : BOOLEAN]
        /\ q.pc = p /\ q.id = r /\ q.op = req[c].op
    BY <1>1, <2>0, <2>1
  <2>3. req' = [req EXCEPT ![c] = q]
    BY <1>3, <2>0 DEF Types, ReqTypes
  <2>4. (q.pc \in Decided => q.id \in Ids') /\ (q.pc = "end" => q.op = "stop")
    BY <1>3, <2>2 DEF Decided
  <2>. QED
    BY <1>1, <2>2, <2>3, <2>4, ReqMoves
<1>4. CASE req[c].op = "start" /\ ~Reply(c)
  BY <1>1, <1>3, <1>4 DEF Decide, NoId
<1>5. CASE req[c].op = "resume" /\ ~Reply(c)
  BY <1>1, <1>3, <1>5 DEF Decide, NoId
<1>6. CASE req[c].op = "stop" /\ ~Reply(c)
  BY <1>1, <1>3, <1>6 DEF Decide, NoId
<1>. QED
  BY <1>2, <1>4, <1>5, <1>6 DEF Decide

\* A handler remembers the lock it found on a meeting that is over.
LEMMA StaleReq ==
    ASSUME ReqTypes, Ids \subseteq Ids', NEW c \in Clients, NEW p \in {"clear", "trailClear"},
           NEW r \in Ids \cup {NoId}, req' = [req EXCEPT ![c].pc = p, ![c].stale = r],
           p = "trailClear" => req[c].id \in Ids
    PROVE  ReqTypes'
<1>0. /\ req[c] \in [op : AllOps \cup {"none"}, pc : Places, id : Ids' \cup {NoId},
                     stale : Ids' \cup {NoId}, aged : BOOLEAN]
      /\ p \in Places /\ r \in Ids' \cup {NoId}
  BY DEF ReqTypes, Places
<1>1. PICK q : q = [req[c] EXCEPT !.pc = p, !.stale = r]
  OBVIOUS
<1>2. /\ q \in [op : AllOps \cup {"none"}, pc : Places, id : Ids' \cup {NoId},
                stale : Ids' \cup {NoId}, aged : BOOLEAN]
      /\ q.pc = p /\ q.id = req[c].id
  BY <1>0, <1>1
<1>3. req' = [req EXCEPT ![c] = q]
  BY <1>1 DEF ReqTypes
<1>4. (q.pc \in Decided => q.id \in Ids') /\ (q.pc = "end" => q.op = "stop")
  BY <1>2 DEF Decided
<1>. QED
  BY <1>2, <1>3, <1>4, ReqMoves

LEMMA ResolveTypes == ASSUME Types, NEW c \in Clients, Resolve(c) PROVE Types'
<1>1. UNCHANGED <<table, manual, flag, bus, loopVars, userStopped>>
  BY DEF Resolve
<1>2. Grown /\ Ids' = Ids /\ Paid
  BY <1>1, TableSame, FaultPaid DEF Types, table, Ids, Resolve
<1>3. ReqTypes'
  <2>1. CASE manual \in Open /\ Decide(c, manual)
    BY <1>2, <2>1, DecideReq
  <2>2. CASE req' = [req EXCEPT ![c].pc = "clear", ![c].stale = manual]
    BY <1>2, <2>2, StaleReq DEF Places, Decided, Types, LockTypes
  <2>3. CASE Step(c, "recent")
    BY <1>2, <2>3, StepReq DEF Places, Decided, Types
  <2>4. CASE Reply(c)
    BY <1>2, <2>4, ReplyReq DEF Types
  <2>. QED
    BY <2>1, <2>2, <2>3, <2>4 DEF Resolve
<1>. QED
  BY <1>1, <1>2, <1>3, LockStays, LoopKept, BusKept, CountKept DEF Types, Grown

\* The lock is cleared, if it is still the one that was seen, or set to a meeting.
LEMMA LockSet ==
    ASSUME Types, Ids' = Ids, flag' = flag, NEW id \in Ids \cup {NoId}, manual' = id
    PROVE  LockTypes'
<1>1. manual' \in Ids' \cup {NoId}
  OBVIOUS
<1>2. flag' \in BOOLEAN
  BY Zenon DEF Types, LockTypes
<1>. QED
  BY <1>1, <1>2 DEF LockTypes, NoId

LEMMA ClearStaleTypes == ASSUME Types, NEW c \in Clients, ClearStale(c) PROVE Types'
<1>1. UNCHANGED <<table, flag, bus, loopVars, used, userStopped>> /\ Step(c, "recent")
  BY DEF ClearStale
<1>2. Grown /\ Ids' = Ids /\ Paid
  BY <1>1, TableSame, FaultPaid DEF Types, table, Ids
<1>3. ReqTypes'
  BY <1>1, <1>2, StepReq DEF Places, Decided, Types
<1>4. LockTypes'
  BY <1>1, <1>2, LockSet DEF ClearStale, Types, LockTypes
<1>. QED
  BY <1>1, <1>2, <1>3, <1>4, LoopKept, BusKept, CountKept DEF Types, Grown

LEMMA MostRecentTypes == ASSUME Types, NEW c \in Clients, MostRecent(c) PROVE Types'
<1>1. UNCHANGED <<table, manual, flag, bus, loopVars, userStopped>>
  BY DEF MostRecent
<1>2. Grown /\ Ids' = Ids /\ Paid
  BY <1>1, TableSame, FaultPaid DEF Types, table, Ids, MostRecent
<1>3. ReqTypes'
  BY <1>2, DecideReq, ReplyReq, LastOpenId DEF MostRecent, Types
<1>. QED
  BY <1>1, <1>2, <1>3, LockStays, LoopKept, BusKept, CountKept DEF Types, Grown

LEMMA StartInsertTypes == ASSUME Types, NEW c \in Clients, StartInsert(c) PROVE Types'
<1>1. UNCHANGED <<manual, flag, bus, loopVars, userStopped>> /\ Paid
  BY FaultPaid DEF StartInsert
<1>2. Grown /\ ReqTypes'
  <2>1. CASE Reply(c) /\ UNCHANGED table
    BY <2>1, TableSame, ReplyReq DEF Types, Grown
  <2>2. CASE (\E app \in Names : Insert(app, "user")) /\ req' = [req EXCEPT ![c].pc = "lock", ![c].id = NewId]
    <3>1. Grown /\ NewId \in Ids'
      BY <2>2, InsertTable DEF Types, Names
    <3>2. NewId \in Ids' \cup {NoId} /\ Ids \subseteq Ids' /\ "lock" \in Places
      BY <3>1 DEF Grown, Places
    <3>3. req[c] \in [op : AllOps \cup {"none"}, pc : Places, id : Ids' \cup {NoId},
                      stale : Ids' \cup {NoId}, aged : BOOLEAN]
      BY <3>2 DEF Types, ReqTypes
    <3>4. PICK q : q = [req[c] EXCEPT !.pc = "lock", !.id = NewId]
      OBVIOUS
    <3>5. /\ q \in [op : AllOps \cup {"none"}, pc : Places, id : Ids' \cup {NoId},
                    stale : Ids' \cup {NoId}, aged : BOOLEAN]
          /\ q.pc = "lock" /\ q.id = NewId
      BY <3>2, <3>3, <3>4
    <3>6. req' = [req EXCEPT ![c] = q]
      BY <2>2, <3>4 DEF Types, ReqTypes
    <3>7. (q.pc \in Decided => q.id \in Ids') /\ (q.pc = "end" => q.op = "stop")
      BY <3>1, <3>5
    <3>. QED
      BY <3>1, <3>2, <3>5, <3>6, <3>7, ReqMoves DEF Types
  <2>. QED
    BY <2>1, <2>2 DEF StartInsert
<1>. QED
  BY <1>1, <1>2, LockStays, LoopKept, BusKept, CountKept DEF Types, Grown

\* A meeting comes to be one a user asked to end, or ceases to be.
LEMMA AskedFor ==
    ASSUME Types, Ids \subseteq Ids', Paid, NEW r \in Ids,
           userStopped' \subseteq userStopped \cup {r}
    PROVE  CountTypes'
  BY CountStep DEF Types, CountTypes

LEMMA StartReopenTypes == ASSUME Types, NEW c \in Clients, StartReopen(c) PROVE Types'
<1>1. UNCHANGED <<manual, flag, bus, loopVars>> /\ Paid
  BY FaultPaid DEF StartReopen
<1>2. Grown
  BY TableSame, ReopenTable DEF Types, StartReopen
<1>3. req[c].id \in Ids
  BY DEF StartReopen, In, Types, ReqTypes, Decided
<1>4. ReqTypes'
  BY <1>2, <1>3, StepReq, ReplyReq DEF StartReopen, Types, Grown, Places
<1>5. CountTypes'
  BY <1>1, <1>2, <1>3, AskedFor DEF StartReopen, Grown
<1>. QED
  BY <1>1, <1>2, <1>4, <1>5, LockStays, LoopKept, BusKept DEF Types, Grown

LEMMA StartLockTypes == ASSUME Types, NEW c \in Clients, StartLock(c) PROVE Types'
<1>1. UNCHANGED <<table, flag, bus, loopVars, used, userStopped>> /\ Step(c, "flag")
  BY DEF StartLock
<1>2. Grown /\ Ids' = Ids /\ Paid
  BY <1>1, TableSame, FaultPaid DEF Types, table, Ids
<1>3. req[c].id \in Ids
  BY DEF StartLock, In, Types, ReqTypes, Decided
<1>4. ReqTypes' /\ LockTypes'
  BY <1>1, <1>2, <1>3, StepReq, LockSet DEF Places, Types, StartLock
<1>. QED
  BY <1>1, <1>2, <1>4, LoopKept, BusKept, CountKept DEF Types, Grown

LEMMA StopEndTypes == ASSUME Types, NEW c \in Clients, StopEnd(c) PROVE Types'
<1>1. UNCHANGED <<manual, flag, bus, loopVars>> /\ Paid
  BY FaultPaid DEF StopEnd
<1>2. Grown
  BY TableSame, EndTable DEF Types, StopEnd, Whys
<1>3. req[c].id \in Ids
  BY DEF StopEnd, In, Types, ReqTypes, Decided
<1>4. ReqTypes'
  BY <1>2, <1>3, StepReq, ReplyReq DEF StopEnd, Types, Grown, Places
<1>5. CountTypes'
  BY <1>1, <1>2, <1>3, AskedFor DEF StopEnd, Grown
<1>. QED
  BY <1>1, <1>2, <1>4, <1>5, LockStays, LoopKept, BusKept DEF Types, Grown

LEMMA StopUnlockTypes == ASSUME Types, NEW c \in Clients, StopUnlock(c) PROVE Types'
<1>1. UNCHANGED <<table, flag, bus, loopVars, used, userStopped>> /\ Step(c, "flag")
  BY DEF StopUnlock
<1>2. Grown /\ Ids' = Ids /\ Paid
  BY <1>1, TableSame, FaultPaid DEF Types, table, Ids
<1>3. req[c].id \in Ids
  BY DEF StopUnlock, In, Types, ReqTypes, Decided
<1>4. ReqTypes' /\ LockTypes'
  BY <1>1, <1>2, <1>3, StepReq, LockSet DEF Places, Types, LockTypes, StopUnlock
<1>. QED
  BY <1>1, <1>2, <1>4, LoopKept, BusKept, CountKept DEF Types, Grown

LEMMA SetFlagTypes == ASSUME Types, NEW c \in Clients, SetFlag(c) PROVE Types'
<1>1. /\ UNCHANGED <<table, manual, bus, loopVars, used, userStopped>> /\ Step(c, "trail")
      /\ flag' = (req[c].op # "stop")
  BY DEF SetFlag
<1>2. Grown /\ Ids' = Ids /\ Paid
  BY <1>1, TableSame, FaultPaid DEF Types, table, Ids
<1>3. req[c].id \in Ids
  BY DEF SetFlag, In, Types, ReqTypes, Decided
<1>4. ReqTypes'
  BY <1>1, <1>2, <1>3, StepReq DEF Places, Types
<1>5. manual' \in Ids' \cup {NoId}
  BY <1>1, <1>2 DEF Types, LockTypes
<1>6. LockTypes'
  BY <1>1, <1>5 DEF LockTypes, NoId
<1>. QED
  BY <1>1, <1>2, <1>4, <1>6, LoopKept, BusKept, CountKept DEF Types, Grown

LEMMA DoneReq ==
    ASSUME Types, Ids \subseteq Ids', NEW c \in Clients, req[c].id \in Ids, Done(c)
    PROVE  ReqTypes'
  BY StepReq, ReplyReq DEF Done, Types, Places

LEMMA TrailTypes == ASSUME Types, NEW c \in Clients, Trail(c) PROVE Types'
<1>1. UNCHANGED <<table, manual, flag, bus, loopVars, userStopped>>
  BY DEF Trail
<1>2. Grown /\ Ids' = Ids /\ Paid
  BY <1>1, TableSame, FaultPaid DEF Types, table, Ids, Trail
<1>3. req[c].id \in Ids
  BY DEF Trail, In, Types, ReqTypes, Decided
<1>4. ReqTypes'
  <2>1. CASE Done(c)
    BY <1>2, <1>3, <2>1, DoneReq
  <2>2. CASE req' = [req EXCEPT ![c].pc = "trailClear", ![c].stale = manual]
    BY <1>2, <1>3, <2>2, StaleReq DEF Places, Types, LockTypes
  <2>. QED
    BY <2>1, <2>2 DEF Trail
<1>. QED
  BY <1>1, <1>2, <1>4, LockStays, LoopKept, BusKept, CountKept DEF Types, Grown

LEMMA TrailClearTypes == ASSUME Types, NEW c \in Clients, TrailClear(c) PROVE Types'
<1>1. UNCHANGED <<table, flag, bus, loopVars, used, userStopped>> /\ Done(c)
  BY DEF TrailClear
<1>2. Grown /\ Ids' = Ids /\ Paid
  BY <1>1, TableSame, FaultPaid DEF Types, table, Ids
<1>3. req[c].id \in Ids
  BY DEF TrailClear, In, Types, ReqTypes, Decided
<1>4. ReqTypes' /\ LockTypes'
  BY <1>1, <1>2, <1>3, DoneReq, LockSet DEF TrailClear, Types, LockTypes
<1>. QED
  BY <1>1, <1>2, <1>4, LoopKept, BusKept, CountKept DEF Types, Grown

LEMMA StopSignalTypes == ASSUME Types, NEW c \in Clients, StopSignal(c) PROVE Types'
<1>1. UNCHANGED <<table, manual, flag, autoQ, loopVars, userStopped>> /\ Reply(c)
  BY DEF StopSignal
<1>2. Grown /\ Ids' = Ids /\ Paid
  BY <1>1, TableSame, FaultPaid DEF Types, table, Ids, StopSignal
<1>3. req[c].id \in Ids
  BY DEF StopSignal, In, Types, ReqTypes, Decided
<1>4. PICK e \in [id : Ids, app : Names] : e = [id |-> req[c].id, app |-> rows[req[c].id].app]
  <2>1. rows[req[c].id] \in Meeting
    BY <1>3 DEF Types, TableTypes, Ids
  <2>2. rows[req[c].id].app \in Names
    BY <2>1 DEF Meeting
  <2>. QED
    BY <1>3, <2>2
<1>5. stopQ \in Seq([id : Ids, app : Names]) /\ autoQ \in Seq(Ids)
  BY DEF Types, BusTypes
<1>6. stopQ' = stopQ \/ stopQ' = Append(stopQ, e)
  BY <1>4 DEF StopSignal
<1>7. stopQ' \in Seq([id : Ids, app : Names])
  <2>1. PICK S : S = [id : Ids, app : Names]
    OBVIOUS
  <2>2. stopQ \in Seq(S) /\ e \in S
    BY <1>5, <2>1
  <2>3. Append(stopQ, e) \in Seq(S)
    BY <2>2, AppendTypes
  <2>. QED
    BY <1>5, <1>6, <2>1, <2>3
<1>8. BusTypes'
  BY <1>1, <1>2, <1>5, <1>7 DEF BusTypes, Names
<1>9. ReqTypes'
  BY <1>1, <1>2, ReplyReq DEF Types
<1>. QED
  BY <1>1, <1>2, <1>8, <1>9, LockStays, LoopKept, CountKept DEF Types, Grown

LEMMA HandlerTypes == ASSUME Types, NEW c \in Clients, Handler(c) PROVE Types'
  BY ResolveTypes, ClearStaleTypes, MostRecentTypes, StartInsertTypes, StartReopenTypes,
     StartLockTypes, StopEndTypes, StopUnlockTypes, SetFlagTypes, TrailTypes, TrailClearTypes,
     StopSignalTypes DEF Handler

LEMMA CallTypes ==
    ASSUME Types, NEW c \in Clients, NEW op \in Ops, NEW r \in Ids \cup {NoId}, Call(c, op, r)
    PROVE  Types'
<1>1. UNCHANGED <<table, manual, flag, bus, loopVars, userStopped>> /\ Spend("calls")
  BY DEF Call
<1>2. Grown /\ Ids' = Ids /\ Paid
  BY <1>1, TableSame DEF Types, table, Ids, Paid, Budgets
<1>3. PICK q : q = [NoReq EXCEPT !.op = op, !.pc = "resolve", !.id = r]
  OBVIOUS
<1>4. /\ q \in [op : AllOps \cup {"none"}, pc : Places, id : Ids' \cup {NoId},
                stale : Ids' \cup {NoId}, aged : BOOLEAN]
      /\ q.pc = "resolve"
  BY <1>2, <1>3, NoReqType DEF Places, MeetingAssumption
<1>5. req' = [req EXCEPT ![c] = q]
  BY <1>3 DEF Call
<1>6. ReqTypes'
  BY <1>2, <1>4, <1>5, ReqMoves DEF Types, Decided
<1>. QED
  BY <1>1, <1>2, <1>6, LockStays, LoopKept, BusKept, CountKept DEF Types, Grown

LEMMA DeleteTypes == ASSUME Types, NEW r \in Ids, Delete(r) PROVE Types'
<1>1. /\ UNCHANGED <<manual, flag, bus, loopVars, req>> /\ Spend("calls")
      /\ userStopped' = userStopped \ {r} /\ ends' = EndsBut(r)
  BY DEF Delete
<1>2. PICK m \in Meeting : m = [st |-> "deleted", app |-> "manual", by |-> "user", reason |-> "none"]
  BY DEF Meeting, Names
<1>3. Grown
  BY <1>1, <1>2, ChangeTable DEF Delete, Types
<1>4. CountTypes'
  BY <1>1, <1>3, AskedFor DEF Grown, Paid, Budgets
<1>. QED
  BY <1>1, <1>3, <1>4, LockStays, LoopKept, BusKept, ReqKept DEF Types, Grown

LEMMA RequestAutoEndTypes == ASSUME Types, NEW r \in Ids, RequestAutoEnd(r) PROVE Types'
<1>1. UNCHANGED <<table, manual, flag, stopQ, loopVars, req, userStopped>>
      /\ autoQ' = Append(autoQ, r) /\ Spend("autoEnds")
  BY DEF RequestAutoEnd
<1>2. Grown /\ Ids' = Ids /\ Paid
  BY <1>1, TableSame DEF Types, table, Ids, Paid, Budgets
<1>3. autoQ' \in Seq(Ids)
  BY <1>1 DEF Types, BusTypes
<1>4. BusTypes'
  BY <1>1, <1>2, <1>3 DEF Types, BusTypes, Names
<1>. QED
  BY <1>1, <1>2, <1>4, LockStays, LoopKept, ReqKept, CountKept DEF Types, Grown

LEMMA InitTypes == Init => Types
<1>. SUFFICES ASSUME Init
              PROVE  Types
  OBVIOUS
<1>1. rows = <<>> /\ ends = <<>> /\ Ids = {} /\ Open = {}
  BY DEF Init, Ids, Open
<1>2. TableTypes
  BY <1>1 DEF TableTypes, OneOpen
<1>3. LockTypes /\ BusTypes
  <2>1. manual \in Ids \cup {NoId} /\ flag \in BOOLEAN
    BY DEF Init
  <2>2. stopQ \in Seq([id : Ids, app : Names]) /\ autoQ \in Seq(Ids)
    BY DEF Init
  <2>. QED
    BY <2>1, <2>2 DEF LockTypes, BusTypes
<1>4. LoopTypes
  BY IdleLoop, NoTickLoop DEF Init, LoopTypes
<1>5. ReqTypes
  BY NoReqType DEF Init, ReqTypes, Decided
<1>6. CountTypes
  BY DEF Init, CountTypes, MeetingAssumption
<1>. QED
  BY <1>2, <1>3, <1>4, <1>5, <1>6 DEF Types

LEMMA StepTypes == Types /\ [Next]_vars => Types'
<1>. SUFFICES ASSUME Types, [Next]_vars
              PROVE  Types'
  OBVIOUS
<1>1. CASE Loop
  BY <1>1, CloseOrphansTypes, ReattachTypes, DrainStopTypes, DrainAutoEndTypes, AutoEndTypes,
     AutoUnlockTypes, CheckTypes, ScanTypes, FindRecentTypes, ReopenRecentTypes,
     InsertNewTypes, EndTrackedTypes, LoopResolveTypes, LoopClearTypes, SyncFlagTypes DEF Loop
<1>2. CASE Shutdown \/ Restart \/ Age
  BY <1>2, ShutdownTypes, RestartTypes, AgeTypes
<1>3. ASSUME NEW c \in Clients, Handler(c)
      PROVE  Types'
  BY <1>3, HandlerTypes
<1>4. ASSUME NEW c \in Clients, NEW op \in Ops, NEW r \in Ids \cup {NoId}, Call(c, op, r)
      PROVE  Types'
  BY <1>4, CallTypes
<1>5. ASSUME NEW r \in Ids, Delete(r) \/ RequestAutoEnd(r)
      PROVE  Types'
  BY <1>5, DeleteTypes, RequestAutoEndTypes
<1>6. CASE UNCHANGED vars
  <2>1. UNCHANGED <<table, manual, flag, bus, loopVars, req, used, userStopped>>
    BY <1>6 DEF vars, table, bus, loopVars
  <2>2. Grown /\ Paid
    BY <2>1, TableSame, FaultPaid DEF Types
  <2>. QED
    BY <2>1, <2>2, LockStays, LoopKept, BusKept, ReqKept, CountKept DEF Types, Grown
<1>. QED
  BY <1>1, <1>2, <1>3, <1>4, <1>5, <1>6 DEF Next

\* The loop's memory, the lock, the bus and the handlers always name meetings that were
\* stored, and a start that is being stored belongs to a detected call.
THEOREM TypeInvariant == Spec => []Types
  BY InitTypes, StepTypes, PTL DEF Spec

THEOREM TypeCorrect == Spec => []TypeOK
<1>1. Types => TypeOK
  <2>. SUFFICES ASSUME Types
                PROVE  TypeOK
    OBVIOUS
  <2>1. /\ rows \in Seq(Meeting) /\ ends \in Seq(Ids)
        /\ \A i, j \in DOMAIN ends : rows[ends[i]].st = "ended" /\ (ends[i] = ends[j] => i = j)
        /\ \A r \in Ids : rows[r].st # "ended" => rows[r].reason = "none"
    BY DEF Types, TableTypes
  <2>2. manual \in Ids \cup {NoId} /\ flag \in BOOLEAN
    BY DEF Types, LockTypes
  <2>3. /\ lastStop \in Ids \cup {NoId}
        /\ det \in [st : {"Idle", "Confirming", "Active", "Ending"}, id : Ids \cup {NoId},
                    app : Names, seen : BOOLEAN]
        /\ ~Tracking => det.id = NoId
        /\ tick \in [pc : Steps, id : Ids \cup {NoId}, man : BOOLEAN]
    BY DEF Types, LoopTypes
  <2>4. stopQ \in Seq([id : Ids, app : Names]) /\ autoQ \in Seq(Ids)
    BY DEF Types, BusTypes
  <2>5. /\ req \in [Clients -> [op : AllOps \cup {"none"}, pc : Places, id : Ids \cup {NoId},
                                stale : Ids \cup {NoId}, aged : BOOLEAN]]
        /\ \A c \in Clients : req[c].pc \in Decided => req[c].id \in Ids
    BY DEF Types, ReqTypes
  <2>6. /\ used \in [Budgets -> Nat] /\ \A k \in Budgets : used[k] <= Limit[k]
        /\ userStopped \subseteq Ids
    BY DEF Types, CountTypes
  <2>. QED
    BY <2>1, <2>2, <2>3, <2>4, <2>5, <2>6, Zenon DEF TypeOK, Decided
<1>. QED
  BY <1>1, TypeInvariant, PTL

\* However starts, resumes and merges race, at most one meeting is open.
THEOREM OneAtATime == Spec => []OneOpen
<1>1. Types => OneOpen
  BY DEF Types, TableTypes
<1>. QED
  BY <1>1, TypeInvariant, PTL

-----------------------------------------------------------------------------
(* Facts about steps that the safety proofs share.                          *)

\* No statement has failed so far.
Intact == used["faults"] = 0

LEMMA FaultShows == Types /\ DbError => ~Intact'
<1>. SUFFICES ASSUME Types, DbError
              PROVE  ~Intact'
  OBVIOUS
<1>1. used \in [Budgets -> Nat] /\ "faults" \in Budgets /\ used["faults"] \in Nat
  BY DEF Types, CountTypes, Budgets
<1>2. used'["faults"] = used["faults"] + 1
  BY <1>1 DEF DbError, Spend
<1>. QED
  BY <1>1, <1>2 DEF Intact

LEMMA IntactEarlier == Types /\ Paid /\ Intact' => Intact
<1>. SUFFICES ASSUME Types, Paid, Intact'
              PROVE  Intact
  OBVIOUS
<1>1. used \in [Budgets -> Nat] /\ "faults" \in Budgets /\ used["faults"] \in Nat
  BY DEF Types, CountTypes, Budgets
<1>2. CASE UNCHANGED used
  BY <1>2 DEF Intact
<1>3. ASSUME NEW k \in Budgets, Spend(k)
      PROVE  Intact
  <2>1. used' = [used EXCEPT ![k] = used[k] + 1] /\ used[k] \in Nat
    BY <1>1, <1>3 DEF Spend
  <2>2. CASE k = "faults"
    BY <1>1, <2>1, <2>2 DEF Intact
  <2>3. CASE k # "faults"
    BY <1>1, <2>1, <2>3 DEF Intact
  <2>. QED
    BY <2>2, <2>3
<1>. QED
  BY <1>2, <1>3 DEF Paid

LEMMA NextPaid == Next => Paid
<1>. SUFFICES ASSUME Next
              PROVE  Paid
  OBVIOUS
<1>1. CASE Loop
  <2>1. Scan => Paid
    BY DEF Scan, InCall, NoCall, Paid, Budgets
  <2>. QED
    BY <1>1, <2>1, FaultPaid DEF Loop, CloseOrphans, Reattach, DrainStop, DrainAutoEnd, AutoEnd,
       AutoUnlock, Suspend, GoScan, FindRecent, ReopenRecent, InsertNew, EndTracked, LoopResolve,
       LoopClear, SyncFlag
<1>2. CASE Shutdown \/ Restart \/ Age
  BY <1>2, FaultPaid DEF Shutdown, Restart, Age, Paid, Budgets
<1>3. ASSUME NEW c \in Clients, Handler(c)
      PROVE  Paid
  BY <1>3, FaultPaid DEF Handler, Resolve, ClearStale, MostRecent, StartInsert, StartReopen,
     StartLock, StopEnd, StopUnlock, SetFlag, Trail, TrailClear, StopSignal
<1>4. ASSUME NEW c \in Clients, NEW op \in Ops, NEW r \in Ids \cup {NoId}, Call(c, op, r)
      PROVE  Paid
  BY <1>4 DEF Call, Paid, Budgets
<1>5. ASSUME NEW r \in Ids, Delete(r) \/ RequestAutoEnd(r)
      PROVE  Paid
  BY <1>5 DEF Delete, RequestAutoEnd, Paid, Budgets
<1>. QED
  BY <1>1, <1>2, <1>3, <1>4, <1>5 DEF Next

\* What the statements do to the open meetings.
LEMMA OpenSame == UNCHANGED table => Open' = Open
  BY DEF table, Open, Ids

LEMMA OpenEnds == ASSUME Types, NEW r, NEW why, End(r, why)
                  PROVE  \A s \in Open : s # r => s \in Open'
<1>1. rows \in Seq(Meeting)
  BY DEF Types, TableTypes
<1>2. CASE r \notin Stored
  BY <1>2, OpenSame DEF End
<1>3. CASE r \in Stored
  BY <1>1, <1>3 DEF End, Open, Ids, Stored
<1>. QED
  BY <1>2, <1>3

LEMMA OpenReopens == ASSUME Types, NEW r, Reopen(r)
                     PROVE  Open \subseteq Open'
<1>1. rows \in Seq(Meeting)
  BY DEF Types, TableTypes
<1>2. CASE r \notin Stored
  BY <1>2, OpenSame DEF Reopen
<1>3. CASE r \in Stored
  <2>1. r \in Ids /\ Open \subseteq {r} /\ rows[r] \in Meeting
    BY <1>1, <1>3 DEF Reopen, Stored, Ids
  <2>2. PICK m : m = [rows[r] EXCEPT !.st = "open", !.reason = "none"]
    OBVIOUS
  <2>3. m.st = "open"
    BY <2>1, <2>2 DEF Meeting
  <2>4. rows' = [rows EXCEPT ![r] = m]
    BY <1>3, <2>1, <2>2 DEF Reopen, Ids
  <2>5. Ids' = Ids /\ rows'[r] = m
    BY <2>1, <2>4 DEF Ids
  <2>. QED
    BY <2>1, <2>3, <2>5 DEF Open
<1>. QED
  BY <1>2, <1>3

\* A handler moves its own request only.
Moved(c) == \A d \in Clients : d # c => req'[d] = req[d]

LEMMA HandlerMoves == ASSUME Types, NEW c \in Clients, Handler(c)
                      PROVE  Moved(c) /\ UNCHANGED tick
<1>1. Step(c, "recent") \/ Step(c, "flag") \/ Step(c, "trail") \/ Step(c, "lock")
         \/ Step(c, "unlock") \/ Step(c, "signal") \/ Reply(c) => Moved(c)
  BY DEF Step, Reply, Moved, Types, ReqTypes
<1>2. Done(c) => Moved(c)
  BY <1>1 DEF Done
<1>3. ASSUME NEW act, Decide(c, act)
      PROVE  Moved(c)
  <2>1. CASE Reply(c)
    BY <1>1, <2>1
  <2>2. ASSUME NEW p, NEW r, req' = [req EXCEPT ![c].pc = p, ![c].id = r, ![c].stale = NoId]
        PROVE  Moved(c)
    BY <2>2 DEF Moved, Types, ReqTypes
  <2>. QED
    BY <1>3, <2>1, <2>2 DEF Decide
<1>4. ASSUME NEW p, NEW r, req' = [req EXCEPT ![c].pc = p, ![c].stale = r]
      PROVE  Moved(c)
  BY <1>4 DEF Moved, Types, ReqTypes
<1>5. ASSUME NEW p, NEW r, req' = [req EXCEPT ![c].pc = p, ![c].id = r]
      PROVE  Moved(c)
  BY <1>5 DEF Moved, Types, ReqTypes
<1>6. Resolve(c) => Moved(c)
  BY <1>1, <1>3, <1>4 DEF Resolve
<1>7. Trail(c) => Moved(c)
  BY <1>2, <1>4 DEF Trail
<1>8. StartInsert(c) \/ MostRecent(c) => Moved(c)
  BY <1>1, <1>3, <1>5 DEF StartInsert, MostRecent
<1>9. Moved(c)
  BY <1>1, <1>2, <1>6, <1>7, <1>8 DEF Handler, ClearStale, StartReopen, StartLock,
     StopEnd, StopUnlock, SetFlag, TrailClear, StopSignal
<1>10. UNCHANGED tick
  BY DEF Handler, Resolve, ClearStale, MostRecent, StartInsert, StartReopen, StartLock,
     StopEnd, StopUnlock, SetFlag, Trail, TrailClear, StopSignal, loopVars
<1>. QED
  BY <1>9, <1>10

LEMMA ScanMoves == Types /\ Scan => tick'.pc \in {"sync", "find", "endRow"}
<1>. SUFFICES ASSUME Types, Scan
              PROVE  tick'.pc \in {"sync", "find", "endRow"}
  OBVIOUS
<1>1. ASSUME NEW m, NEW p, NEW id, After(m, p, id), p \in {"sync", "find", "endRow"}
      PROVE  tick'.pc \in {"sync", "find", "endRow"}
  BY <1>1 DEF After, Types, LoopTypes
<1>2. ASSUME NEW app \in Apps, InCall(app)
      PROVE  tick'.pc \in {"sync", "find", "endRow"}
  BY <1>1, <1>2 DEF InCall
<1>3. ASSUME NEW gone \in BOOLEAN, NEW late \in BOOLEAN, NEW alive \in BOOLEAN,
             NoCall(gone, late, alive)
      PROVE  tick'.pc \in {"sync", "find", "endRow"}
  BY <1>1, <1>3 DEF NoCall
<1>. QED
  BY <1>2, <1>3 DEF Scan

\* Once it has closed the orphans the loop reattaches, and never comes back to either.
LEMMA LoopStarted ==
    ASSUME Types, Loop, ~CloseOrphans
    PROVE  tick'.pc \notin {"boot", "reattach"}
<1>1. tick \in [pc : Steps, id : Ids \cup {NoId}, man : BOOLEAN]
  BY DEF Types, LoopTypes
<1>2. ASSUME NEW p, p \notin {"boot", "reattach"}, Goto(p)
      PROVE  tick'.pc \notin {"boot", "reattach"}
  BY <1>1, <1>2 DEF Goto
<1>3. ASSUME NEW p, NEW r, p \notin {"boot", "reattach"}, tick' = [tick EXCEPT !.pc = p, !.id = r]
      PROVE  tick'.pc \notin {"boot", "reattach"}
  BY <1>1, <1>3
<1>4. CASE DrainAutoEnd \/ SyncFlag
  BY <1>2, <1>4 DEF DrainAutoEnd, SyncFlag, NoTick
<1>5. CASE FindRecent
  <2>1. \/ Goto("insert")
        \/ tick' = [tick EXCEPT !.pc = "reopen", !.id = RecentFor(det.app)]
    BY <1>5 DEF FindRecent
  <2>2. Goto("insert") => tick'.pc = "insert"
    BY <1>1 DEF Goto
  <2>3. tick' = [tick EXCEPT !.pc = "reopen", !.id = RecentFor(det.app)] => tick'.pc = "reopen"
    BY <1>1
  <2>. QED
    BY <2>1, <2>2, <2>3
<1>6. CASE LoopResolve
  <2>1. PICK p \in {"sync", "check", "clear", "autoClear"} :
           Goto(p) \/ tick' = [tick EXCEPT !.pc = p, !.id = manual]
    BY <1>6 DEF LoopResolve
  <2>. QED
    BY <1>2, <1>3, <2>1
<1>7. CASE Reattach \/ DrainStop \/ Suspend \/ GoScan \/ AutoUnlock \/ InsertNew
  BY <1>2, <1>7 DEF Reattach, DrainStop, Suspend, GoScan, AutoUnlock, InsertNew
<1>8. CASE AutoEnd \/ ReopenRecent \/ EndTracked \/ LoopClear
  BY <1>2, <1>8 DEF AutoEnd, ReopenRecent, EndTracked, LoopClear
<1>. QED
  BY <1>4, <1>5, <1>6, <1>7, <1>8, ScanMoves DEF Loop

-----------------------------------------------------------------------------
(* The lock names an open meeting.                                          *)

\* A loop that has not reattached holds no lock, and no request reaches it.
BootLock == tick.pc \in {"boot", "reattach"} =>
               manual = NoId /\ \A c \in Clients : req[c].pc = "idle"

\* The loop is about to look at the lock, or about to clear this one.
LoopLooks ==
    \/ tick.pc \in {"autoUnlock", "autoResolve", "resolve", "off"}
    \/ tick.pc \in {"clear", "autoClear"} /\ tick.id = manual

\* So is a handler.
HandlerLooks(c) ==
    \/ req[c].pc \in {"unlock", "flag", "trail"}
    \/ req[c].pc \in {"clear", "trailClear"} /\ req[c].stale = manual

LockOwed == manual # NoId /\ manual \notin Open => LoopLooks \/ \E c \in Clients : HandlerLooks(c)

LockHeld == BootLock /\ (Intact => LockOwed)

\* A step of the loop that leaves the lock, the requests and the open meetings as they
\* are keeps the debt, if the loop still looks or did not.
LEMMA LoopStill ==
    ASSUME LockOwed, manual' = manual, Open \subseteq Open',
           \A c \in Clients : req'[c].pc = req[c].pc /\ req'[c].stale = req[c].stale,
           LoopLooks => LoopLooks' \/ manual = NoId \/ manual \in Open
    PROVE  LockOwed'
  BY DEF LockOwed, HandlerLooks, NoId

\* A step of a handler that was not going to look at the lock.
LEMMA Bystander ==
    ASSUME LockOwed, NEW c \in Clients, Moved(c), ~HandlerLooks(c),
           manual' = manual, tick' = tick, Open \subseteq Open'
    PROVE  LockOwed'
  BY DEF LockOwed, HandlerLooks, LoopLooks, Moved, NoId

\* A handler or the loop drops the lock if it is the one it found on a closed meeting.
LEMMA HandlerDrops ==
    ASSUME LockOwed, NEW c \in Clients, Moved(c), req[c].pc \in {"clear", "trailClear"},
           manual' = (IF manual = req[c].stale THEN NoId ELSE manual), tick' = tick, Open' = Open
    PROVE  LockOwed'
<1>1. CASE manual = req[c].stale
  BY <1>1 DEF LockOwed, NoId
<1>2. CASE manual # req[c].stale
  BY <1>2, Bystander DEF HandlerLooks
<1>. QED
  BY <1>1, <1>2

LEMMA LoopLock ==
    ASSUME Types, LockHeld, Loop, Intact'
    PROVE  LockOwed'
<1>1. Intact /\ LockOwed /\ ~DbError
  BY NextPaid, IntactEarlier, FaultShows DEF LockHeld, Next
<1>2. UNCHANGED req => \A c \in Clients : req'[c].pc = req[c].pc /\ req'[c].stale = req[c].stale
  OBVIOUS
<1>3. tick \in [pc : Steps, id : Ids \cup {NoId}, man : BOOLEAN]
  BY DEF Types, LoopTypes
<1>4. CASE CloseOrphans \/ Reattach
  <2>1. manual' = NoId
    BY <1>4 DEF LockHeld, BootLock, CloseOrphans, Reattach, At
  <2>. QED
    BY <2>1 DEF LockOwed, NoId
<1>5. CASE DrainStop
  <2>1. \A c \in Clients : req'[c].pc = req[c].pc /\ req'[c].stale = req[c].stale
    BY <1>5 DEF DrainStop, Types, ReqTypes
  <2>2. ~LoopLooks /\ manual' = manual /\ Open' = Open
    BY <1>5, OpenSame DEF DrainStop, At, LoopLooks
  <2>. QED
    BY <1>1, <2>1, <2>2, LoopStill
<1>6. CASE DrainAutoEnd \/ Suspend \/ GoScan \/ Scan \/ FindRecent \/ SyncFlag
  <2>1. ~LoopLooks /\ manual' = manual /\ Open' = Open /\ UNCHANGED req
    BY <1>6, OpenSame DEF DrainAutoEnd, Suspend, GoScan, Scan, FindRecent, SyncFlag, At, LoopLooks
  <2>. QED
    BY <1>1, <1>2, <2>1, LoopStill
<1>7. CASE AutoEnd
  BY <1>1, <1>3, <1>7 DEF AutoEnd, Goto, LockOwed, LoopLooks
<1>8. CASE AutoUnlock
  BY <1>1, <1>3, <1>8 DEF AutoUnlock, Goto, LockOwed, LoopLooks
<1>9. CASE ReopenRecent
  <2>1. ~LoopLooks /\ manual' = manual /\ UNCHANGED req
    BY <1>9 DEF ReopenRecent, At, LoopLooks
  <2>2. Open \subseteq Open'
    BY <1>9, OpenSame, OpenReopens DEF ReopenRecent
  <2>. QED
    BY <1>1, <1>2, <2>1, <2>2, LoopStill
<1>10. CASE InsertNew
  BY <1>3, <1>10 DEF InsertNew, Goto, LockOwed, LoopLooks
<1>11. CASE EndTracked
  BY <1>1, <1>3, <1>11 DEF EndTracked, Goto, LockOwed, LoopLooks
<1>12. CASE LoopResolve
  <2>1. manual' = manual /\ Open' = Open /\ UNCHANGED req
    BY <1>12, OpenSame DEF LoopResolve
  <2>2. CASE manual # NoId /\ manual \notin Open
    <3>1. /\ tick' = [tick EXCEPT !.pc = tick'.pc, !.id = manual]
          /\ tick'.pc \in {"clear", "autoClear"}
      BY <1>1, <1>3, <1>12, <2>2 DEF LoopResolve
    <3>2. tick'.id = manual
      BY <1>3, <3>1
    <3>. QED
      BY <2>1, <3>1, <3>2 DEF LockOwed, LoopLooks
  <2>. QED
    BY <1>1, <1>2, <2>1, <2>2, LoopStill
<1>13. CASE LoopClear
  <2>1. manual' = (IF manual = tick.id THEN NoId ELSE manual) /\ Open' = Open /\ UNCHANGED req
    BY <1>13, OpenSame DEF LoopClear
  <2>2. CASE manual = tick.id
    BY <2>1, <2>2 DEF LockOwed, NoId
  <2>3. CASE manual # tick.id
    <3>1. ~LoopLooks
      BY <1>13, <2>3 DEF LoopClear, At, LoopLooks
    <3>. QED
      BY <1>1, <1>2, <2>1, <2>3, <3>1, LoopStill
  <2>. QED
    BY <2>2, <2>3
<1>. QED
  BY <1>4, <1>5, <1>6, <1>7, <1>8, <1>9, <1>10, <1>11, <1>12, <1>13 DEF Loop

LEMMA HandlerLock ==
    ASSUME Types, LockHeld, NEW c \in Clients, Handler(c), Intact'
    PROVE  LockOwed'
<1>1. Intact /\ LockOwed /\ ~DbError
  BY NextPaid, IntactEarlier, FaultShows DEF LockHeld, Next
<1>2. Moved(c) /\ tick' = tick
  BY HandlerMoves
<1>3. req \in [Clients -> [op : AllOps \cup {"none"}, pc : Places, id : Ids \cup {NoId},
                           stale : Ids \cup {NoId}, aged : BOOLEAN]]
  BY DEF Types, ReqTypes
<1>4. \A p : Step(c, p) => req'[c].pc = p
  BY <1>3 DEF Step
<1>5. HandlerLooks(c)' => LockOwed'
  BY DEF LockOwed
<1>6. CASE Resolve(c) \/ MostRecent(c) \/ StopSignal(c)
  <2>1. ~HandlerLooks(c) /\ manual' = manual /\ Open' = Open
    BY <1>6, OpenSame DEF Resolve, MostRecent, StopSignal, In, HandlerLooks
  <2>. QED
    BY <1>1, <1>2, <2>1, Bystander
<1>7. CASE ClearStale(c) \/ TrailClear(c)
  BY <1>1, <1>2, <1>7, OpenSame, HandlerDrops DEF ClearStale, TrailClear, In
<1>8. CASE StartInsert(c)
  <2>1. ~HandlerLooks(c) /\ manual' = manual
    BY <1>8 DEF StartInsert, In, HandlerLooks
  <2>2. Open \subseteq Open'
    BY <1>8, OpenSame DEF StartInsert, Insert
  <2>. QED
    BY <1>1, <1>2, <2>1, <2>2, Bystander
<1>9. CASE StartReopen(c)
  <2>1. ~HandlerLooks(c) /\ manual' = manual
    BY <1>9 DEF StartReopen, In, HandlerLooks
  <2>2. Open \subseteq Open'
    BY <1>9, OpenSame, OpenReopens DEF StartReopen
  <2>. QED
    BY <1>1, <1>2, <2>1, <2>2, Bystander
<1>10. CASE StartLock(c) \/ StopEnd(c) \/ StopUnlock(c) \/ SetFlag(c)
  BY <1>1, <1>4, <1>5, <1>10 DEF StartLock, StopEnd, StopUnlock, SetFlag, HandlerLooks
<1>11. CASE Trail(c)
  <2>1. manual' = manual /\ Open' = Open
    BY <1>11, OpenSame DEF Trail
  <2>2. CASE manual = NoId \/ manual \in Open
    BY <2>1, <2>2 DEF LockOwed, NoId
  <2>3. CASE manual # NoId /\ manual \notin Open
    <3>1. req' = [req EXCEPT ![c].pc = "trailClear", ![c].stale = manual]
      BY <1>1, <1>11, <2>3 DEF Trail
    <3>2. req'[c].pc = "trailClear" /\ req'[c].stale = manual
      BY <1>3, <3>1
    <3>. QED
      BY <1>5, <2>1, <3>2 DEF HandlerLooks
  <2>. QED
    BY <2>2, <2>3
<1>. QED
  BY <1>6, <1>7, <1>8, <1>9, <1>10, <1>11 DEF Handler

LEMMA BootStep ==
    ASSUME Types, BootLock, ~EarlyCalls, Next
    PROVE  BootLock'
<1>1. CASE Loop
  <2>1. CASE CloseOrphans
    BY <2>1 DEF CloseOrphans, BootLock, At, NoId
  <2>2. CASE ~CloseOrphans
    BY <1>1, <2>2, LoopStarted DEF BootLock
  <2>. QED
    BY <2>1, <2>2
<1>2. CASE Restart
  BY <1>2 DEF Restart, BootLock, NoReq, NoId
<1>3. CASE Shutdown
  <2>1. tick'.pc = "off"
    BY <1>3 DEF Shutdown, Goto, Types, LoopTypes
  <2>. QED
    BY <2>1 DEF BootLock
<1>4. CASE Age
  BY <1>4 DEF Age, BootLock, loopVars, NoId
<1>5. ASSUME NEW c \in Clients, Handler(c)
      PROVE  BootLock'
  <2>1. req[c].pc # "idle" /\ tick' = tick
    BY <1>5, HandlerMoves DEF Handler, In, Resolve, ClearStale, MostRecent, StartInsert, StartReopen,
       StartLock, StopEnd, StopUnlock, SetFlag, Trail, TrailClear, StopSignal
  <2>. QED
    BY <2>1 DEF BootLock
<1>6. ASSUME NEW c \in Clients, NEW op \in Ops, NEW r \in Ids \cup {NoId}, Call(c, op, r)
      PROVE  BootLock'
  BY <1>6 DEF Call, Subscribed, BootLock, loopVars
<1>7. ASSUME NEW r \in Ids, Delete(r) \/ RequestAutoEnd(r)
      PROVE  BootLock'
  BY <1>7 DEF Delete, RequestAutoEnd, BootLock, loopVars, NoId
<1>. QED
  BY <1>1, <1>2, <1>3, <1>4, <1>5, <1>6, <1>7 DEF Next

LEMMA LockStep ==
    ASSUME Types, LockHeld, ~EarlyCalls, "delete" \notin Ops, [Next]_vars
    PROVE  LockHeld'
<1>1. CASE UNCHANGED vars
  BY <1>1 DEF vars, LockHeld, BootLock, Intact, LockOwed, LoopLooks, HandlerLooks, Open, Ids, NoId
<1>2. CASE Next
  <2>1. SUFFICES ASSUME Intact'
                 PROVE  LockOwed'
    BY <1>2, BootStep DEF LockHeld
  <2>2. LockOwed
    BY <1>2, <2>1, NextPaid, IntactEarlier DEF LockHeld
  <2>3. CASE Shutdown
    <3>1. tick'.pc = "off"
      BY <2>3 DEF Shutdown, Goto, Types, LoopTypes
    <3>. QED
      BY <3>1 DEF LockOwed, LoopLooks
  <2>4. CASE Restart
    BY <2>4 DEF Restart, LockOwed, NoId
  <2>5. CASE Age
    <3>1. UNCHANGED <<manual, req, tick>> /\ Open' = Open
      BY <2>5 DEF Age, loopVars, Open, Ids
    <3>. QED
      BY <2>2, <3>1 DEF LockOwed, LoopLooks, HandlerLooks, NoId
  <2>6. ASSUME NEW c \in Clients, NEW op \in Ops, NEW r \in Ids \cup {NoId}, Call(c, op, r)
        PROVE  LockOwed'
    <3>1. /\ Open' = Open /\ tick' = tick /\ manual' = manual /\ req[c].pc = "idle"
          /\ req' = [req EXCEPT ![c] = [NoReq EXCEPT !.op = op, !.pc = "resolve", !.id = r]]
      BY <2>6, OpenSame DEF Call, In, loopVars
    <3>2. Moved(c) /\ ~HandlerLooks(c)
      BY <3>1 DEF Moved, HandlerLooks, Types, ReqTypes
    <3>. QED
      BY <2>2, <3>1, <3>2, Bystander
  <2>7. ASSUME NEW r \in Ids, RequestAutoEnd(r)
        PROVE  LockOwed'
    <3>1. UNCHANGED <<manual, req, tick>> /\ Open' = Open
      BY <2>7, OpenSame DEF RequestAutoEnd, loopVars
    <3>. QED
      BY <2>2, <3>1 DEF LockOwed, LoopLooks, HandlerLooks, NoId
  <2>8. \A r \in Ids : ~Delete(r)
    BY DEF Delete
  <2>. QED
    BY <1>2, <2>1, <2>3, <2>4, <2>5, <2>6, <2>7, <2>8, LoopLock, HandlerLock DEF Next
<1>. QED
  BY <1>1, <1>2

\* Once no request is in flight and the loop sleeps, the lock names an open meeting or
\* none, until a statement fails: whatever the requests, detections, automatic ends and
\* restarts, and however slow the requests.  Two things are excluded, because each breaks
\* it: a delete leaves the lock on the row it removed, and a request that arrives before
\* the loop has reattached locks a row the loop then closes.
THEOREM LockIsOpen ==
    ASSUME ~EarlyCalls, "delete" \notin Ops
    PROVE  Spec => [](Intact => LockMeansOpen)
<1>1. Init => LockHeld
  BY DEF Init, LockHeld, BootLock, LockOwed, NoReq, NoTick
<1>2. Types /\ LockHeld /\ [Next]_vars => LockHeld'
  BY LockStep
<1>3. LockHeld => (Intact => LockMeansOpen)
  BY DEF LockHeld, LockOwed, LockMeansOpen, Quiet, LoopLooks, HandlerLooks
<1>. QED
  BY <1>1, <1>2, <1>3, TypeInvariant, PTL DEF Spec

-----------------------------------------------------------------------------
(* The loop lets go of a meeting the user stopped.                          *)

\* The loop follows a meeting its user stopped, under the app that is stored.
Fooled(r) ==
    r \in Ids /\ rows[r].reason = "explicit_stop" /\ Tracks(r) /\ rows[r].app = det.app

\* A stop handler is on its way to tell the loop.
Telling(c, r) ==
    /\ req[c].op = "stop" /\ req[c].id = r
    /\ req[c].pc \in {"unlock", "flag", "trail", "trailClear", "signal"}

\* The loop is told, or will be.
Told(r) ==
    \/ tick.pc = "off"
    \/ \E c \in Clients : Telling(c, r)
    \/ \E i \in DOMAIN stopQ : stopQ[i] = [id |-> r, app |-> rows[r].app]

StopOwed == \A r \in Ids : Fooled(r) => Told(r)

\* A loop that has not reattached follows nothing.
BootIdle == tick.pc \in {"boot", "reattach"} => det = Idle

\* A meeting detected in a call application is followed in one.
AppHeld == Tracking /\ det.id \in Ids /\ rows[det.id].app \in Apps => det.app \in Apps

StopHeld == BootIdle /\ AppHeld /\ (Intact => StopOwed)

\* No meeting becomes one a user stopped, and the app of such a meeting stays.
Mild == \A s \in Ids' : rows'[s].reason = "explicit_stop" =>
            s \in Ids /\ rows[s].reason = "explicit_stop" /\ rows'[s].app = rows[s].app

\* No meeting moves to a call application, and new ones get new ids.
AppsKept == /\ Ids \subseteq Ids' /\ NoId \notin Ids'
            /\ \A s \in Ids : rows'[s].app \in Apps => rows'[s].app = rows[s].app

LEMMA TableSameMild == Types /\ UNCHANGED table => Mild /\ AppsKept
  BY DEF Types, TableTypes, table, Mild, AppsKept, Ids, NoId

\* What an end does to the other meetings, and to the one it ends.
LEMMA EndFacts ==
    ASSUME Types, NEW x, NEW why, End(x, why)
    PROVE  /\ AppsKept /\ Ids' = Ids
           /\ \A s \in Ids : /\ rows'[s].app = rows[s].app
                             /\ rows'[s].reason = rows[s].reason \/ (s = x /\ rows'[s].reason = why)
<1>1. rows \in Seq(Meeting) /\ DOMAIN rows = 1..Len(rows)
  BY DEF Types, TableTypes
<1>2. CASE x \notin Stored
  BY <1>1, <1>2 DEF End, table, Ids, AppsKept, NoId
<1>3. CASE x \in Stored
  <2>1. x \in Ids /\ rows[x] \in Meeting
    BY <1>1, <1>3 DEF Stored, Ids
  <2>2. PICK m : m = [rows[x] EXCEPT !.st = "ended", !.reason = why]
    OBVIOUS
  <2>3. m.app = rows[x].app /\ m.reason = why
    BY <2>1, <2>2 DEF Meeting
  <2>4. rows' = [rows EXCEPT ![x] = m]
    BY <1>3, <2>1, <2>2 DEF End, Ids
  <2>5. Ids' = Ids /\ NoId \notin Ids /\ \A s \in Ids : rows'[s] = IF s = x THEN m ELSE rows[s]
    BY <1>1, <2>1, <2>4 DEF Ids, NoId
  <2>. QED
    BY <2>3, <2>5 DEF AppsKept
<1>. QED
  BY <1>2, <1>3

LEMMA EndMild ==
    ASSUME Types, NEW x, NEW why, End(x, why), why # "explicit_stop"
    PROVE  Mild /\ AppsKept
  BY EndFacts DEF Mild

LEMMA ReopenMild ==
    ASSUME Types, NEW x \in Ids, Reopen(x)
    PROVE  Mild /\ AppsKept /\ rows'[x].reason # "explicit_stop"
<1>1. rows \in Seq(Meeting) /\ DOMAIN rows = 1..Len(rows)
  BY DEF Types, TableTypes
<1>2. CASE x \notin Stored
  <2>1. UNCHANGED table
    BY <1>2 DEF Reopen
  <2>2. rows[x].reason # "explicit_stop"
    BY <1>2 DEF Types, TableTypes, Stored
  <2>. QED
    BY <2>1, <2>2, TableSameMild DEF table
<1>3. CASE x \in Stored
  <2>1. rows[x] \in Meeting
    BY <1>1 DEF Ids
  <2>2. PICK m : m = [rows[x] EXCEPT !.st = "open", !.reason = "none"]
    OBVIOUS
  <2>3. m.app = rows[x].app /\ m.reason = "none"
    BY <2>1, <2>2 DEF Meeting
  <2>4. rows' = [rows EXCEPT ![x] = m]
    BY <1>3, <2>1, <2>2 DEF Reopen, Ids
  <2>5. Ids' = Ids /\ NoId \notin Ids /\ \A s \in Ids : rows'[s] = IF s = x THEN m ELSE rows[s]
    BY <1>1, <2>4 DEF Ids, NoId
  <2>. QED
    BY <2>3, <2>5 DEF AppsKept, Mild
<1>. QED
  BY <1>2, <1>3

LEMMA InsertMild ==
    ASSUME Types, NEW app, NEW by, Insert(app, by)
    PROVE  Mild /\ AppsKept /\ rows'[NewId].reason # "explicit_stop"
<1>1. rows \in Seq(Meeting) /\ DOMAIN rows = 1..Len(rows) /\ Len(rows) \in Nat
  BY DEF Types, TableTypes
<1>2. PICK m : m = [st |-> "open", app |-> app, by |-> by, reason |-> "none"]
  OBVIOUS
<1>3. rows' = Append(rows, m) /\ m.reason = "none"
  BY <1>2 DEF Insert
<1>4. /\ DOMAIN rows' = 1..(Len(rows) + 1) /\ rows'[Len(rows) + 1] = m
      /\ \A s \in 1..Len(rows) : rows'[s] = rows[s]
  BY <1>1, <1>3
<1>. QED
  BY <1>1, <1>3, <1>4 DEF AppsKept, Mild, Ids, NoId, NewId

LEMMA DeleteMild ==
    ASSUME Types, NEW x \in Ids, Delete(x)
    PROVE  Mild /\ AppsKept
<1>1. rows \in Seq(Meeting) /\ DOMAIN rows = 1..Len(rows)
  BY DEF Types, TableTypes
<1>2. PICK m : m = [st |-> "deleted", app |-> "manual", by |-> "user", reason |-> "none"]
  OBVIOUS
<1>3. m.app \notin Apps /\ m.reason = "none" /\ rows' = [rows EXCEPT ![x] = m]
  BY <1>2 DEF Delete, MeetingAssumption
<1>4. Ids' = Ids /\ NoId \notin Ids /\ \A s \in Ids : rows'[s] = IF s = x THEN m ELSE rows[s]
  BY <1>1, <1>3 DEF Ids, NoId
<1>. QED
  BY <1>3, <1>4 DEF AppsKept, Mild

\* A step that fools the loop about no further meeting, and leaves the telling alone.
LEMMA ToldStays ==
    ASSUME Mild, UNCHANGED stopQ, tick.pc = "off" => tick'.pc = "off",
           \A c \in Clients : /\ req'[c].pc = req[c].pc /\ req'[c].op = req[c].op
                              /\ req'[c].id = req[c].id,
           NEW r \in Ids', Fooled(r)', Told(r)
    PROVE  Told(r)'
<1>1. rows'[r].app = rows[r].app
  BY DEF Mild, Fooled
<1>2. CASE tick.pc = "off"
  BY <1>2 DEF Told
<1>3. ASSUME NEW c \in Clients, Telling(c, r)
      PROVE  Told(r)'
  BY <1>3 DEF Told, Telling
<1>4. ASSUME NEW i \in DOMAIN stopQ, stopQ[i] = [id |-> r, app |-> rows[r].app]
      PROVE  Told(r)'
  BY <1>1, <1>4 DEF Told
<1>. QED
  BY <1>2, <1>3, <1>4 DEF Told

LEMMA FooledBefore ==
    ASSUME Mild, det' = det, NEW r \in Ids', Fooled(r)'
    PROVE  r \in Ids /\ Fooled(r)
  BY DEF Mild, Fooled, Tracks, Tracking

LEMMA StopStill ==
    ASSUME StopOwed, Mild, det' = det, UNCHANGED stopQ, tick.pc = "off" => tick'.pc = "off",
           \A c \in Clients : /\ req'[c].pc = req[c].pc /\ req'[c].op = req[c].op
                              /\ req'[c].id = req[c].id
    PROVE  StopOwed'
<1>. SUFFICES ASSUME NEW r \in Ids', Fooled(r)'
              PROVE  Told(r)'
  BY DEF StopOwed
<1>1. r \in Ids /\ Fooled(r)
  BY FooledBefore
<1>2. Told(r)
  BY <1>1 DEF StopOwed
<1>. QED
  BY <1>2, ToldStays

LEMMA AppStill == Types /\ AppHeld /\ AppsKept /\ det' = det => AppHeld'
  BY DEF Types, LoopTypes, AppHeld, AppsKept, Tracking

\* The row the loop goes on to follow is not one a user stopped.
LEMMA NewlyFollowed ==
    ASSUME NEW x, det'.id = x, x \in Ids' => rows'[x].reason # "explicit_stop"
    PROVE  StopOwed'
  BY DEF StopOwed, Fooled, Tracks

LEMMA LetGo == det' = Idle => StopOwed' /\ AppHeld' /\ BootIdle'
  BY DEF StopOwed, Fooled, Tracks, Tracking, Idle, AppHeld, BootIdle

\* A scan never turns the loop to another stored meeting, nor to a name that is not a
\* call application.
LEMMA ScanFollows ==
    ASSUME Types, Scan
    PROVE  /\ Tracking' /\ det'.id # NoId => Tracking /\ det'.id = det.id
           /\ det'.app = det.app \/ det'.app \in Apps \/ det' = Idle
<1>1. det \in [st : {"Idle", "Confirming", "Active", "Ending"}, id : Ids \cup {NoId},
               app : Names, seen : BOOLEAN]
  BY DEF Types, LoopTypes
<1>2. ASSUME NEW app \in Apps, InCall(app)
      PROVE  /\ Tracking' /\ det'.id # NoId => Tracking /\ det'.id = det.id
             /\ det'.app \in Apps \/ det'.app = det.app
  <2>1. CASE det' = [Idle EXCEPT !.st = "Confirming", !.app = app]
    BY <2>1 DEF Idle
  <2>2. CASE det' = [Idle EXCEPT !.st = "Active", !.app = app]
    BY <2>2 DEF Idle
  <2>3. CASE det' = [det EXCEPT !.app = app] /\ det.st = "Active"
    BY <1>1, <2>3 DEF Tracking
  <2>4. CASE det' = [det EXCEPT !.st = "Active", !.app = app, !.seen = FALSE] /\ det.st = "Ending"
    BY <1>1, <2>4 DEF Tracking
  <2>5. CASE det' = [det EXCEPT !.seen = TRUE] /\ det.st = "Ending"
    BY <1>1, <2>5 DEF Tracking
  <2>. QED
    BY <1>2, <2>1, <2>2, <2>3, <2>4, <2>5 DEF InCall, After
<1>3. ASSUME NEW gone \in BOOLEAN, NEW late \in BOOLEAN, NEW alive \in BOOLEAN,
             NoCall(gone, late, alive)
      PROVE  /\ Tracking' /\ det'.id # NoId => Tracking /\ det'.id = det.id
             /\ det'.app = det.app \/ det' = Idle
  <2>1. CASE det' = det
    BY <2>1 DEF Tracking
  <2>2. CASE det' = Idle
    BY <2>2 DEF Tracking, Idle
  <2>3. CASE det' = [det EXCEPT !.st = "Ending", !.seen = FALSE] /\ det.st = "Active"
    BY <1>1, <2>3 DEF Tracking
  <2>4. CASE det' = [det EXCEPT !.st = "Active", !.seen = FALSE] /\ det.st = "Ending"
    BY <1>1, <2>4 DEF Tracking
  <2>5. CASE det' = [det EXCEPT !.seen = FALSE] /\ det.st = "Ending"
    BY <1>1, <2>5 DEF Tracking
  <2>6. det.st = "Idle" => det' = det
    BY <1>3 DEF NoCall, After
  <2>7. det.st = "Confirming" => det' = det \/ det' = Idle
    BY <1>3 DEF NoCall, After
  <2>8. det.st = "Active" => det' = det \/ det' = [det EXCEPT !.st = "Ending", !.seen = FALSE]
    BY <1>3 DEF NoCall, After
  <2>9. det.st = "Ending" => \/ det' = [det EXCEPT !.st = "Active", !.seen = FALSE]
                             \/ det' = Idle \/ det' = det \/ det' = [det EXCEPT !.seen = FALSE]
    BY <1>3 DEF NoCall, After
  <2>. QED
    BY <1>1, <2>1, <2>2, <2>3, <2>4, <2>5, <2>6, <2>7, <2>8, <2>9
<1>. QED
  BY <1>2, <1>3 DEF Scan

LEMMA AppLoop ==
    ASSUME Types, AppHeld, Loop
    PROVE  AppHeld'
<1>1. CASE CloseOrphans \/ AutoEnd \/ EndTracked
  BY <1>1, AppStill, TableSameMild, EndMild DEF CloseOrphans, AutoEnd, EndTracked
<1>2. CASE Reattach
  <2>1. UNCHANGED table /\ (det' = det \/ (det'.app = rows[det'.id].app))
    BY <1>2 DEF Reattach
  <2>. QED
    BY <2>1, AppStill, TableSameMild DEF AppHeld, table
<1>3. CASE DrainStop \/ AutoUnlock
  <2>1. UNCHANGED table /\ (det' = det \/ det' = Idle)
    BY <1>3 DEF DrainStop, AutoUnlock
  <2>. QED
    BY <2>1, AppStill, TableSameMild, LetGo
<1>4. CASE DrainAutoEnd \/ Suspend \/ GoScan \/ FindRecent \/ LoopResolve \/ LoopClear \/ SyncFlag
  BY <1>4, AppStill, TableSameMild DEF DrainAutoEnd, Suspend, GoScan, FindRecent, LoopResolve,
     LoopClear, SyncFlag
<1>5. CASE Scan
  <2>1. UNCHANGED table /\ NoId \notin Ids /\ Ids' = Ids
    BY <1>5 DEF Scan, table, Types, TableTypes, Ids, NoId
  <2>. QED
    BY <1>5, <2>1, ScanFollows, LetGo DEF AppHeld, table
<1>6. CASE ReopenRecent \/ InsertNew
  <2>1. det.app \in Apps
    BY <1>6 DEF Types, LoopTypes, ReopenRecent, InsertNew, At
  <2>2. det'.app = det.app
    BY <1>6 DEF Types, LoopTypes, ReopenRecent, InsertNew
  <2>. QED
    BY <2>1, <2>2 DEF AppHeld
<1>. QED
  BY <1>1, <1>2, <1>3, <1>4, <1>5, <1>6 DEF Loop

\* One signal taken off the queue is the loop's own meeting, or not about it.
LEMMA DrainStopStop ==
    ASSUME Types, StopOwed, DrainStop
    PROVE  StopOwed'
<1>1. UNCHANGED <<table, autoQ>> /\ tick.pc = "wait"
  BY DEF DrainStop, At
<1>2. Mild
  BY <1>1, TableSameMild
<1>3. \A c \in Clients : /\ req'[c].pc = req[c].pc /\ req'[c].op = req[c].op
                         /\ req'[c].id = req[c].id
  BY DEF DrainStop, Types, ReqTypes
<1>4. CASE stopQ = <<>>
  BY <1>1, <1>2, <1>3, <1>4, StopStill DEF DrainStop
<1>5. CASE stopQ # <<>> /\ det' = Idle
  BY <1>5, LetGo
<1>6. CASE stopQ # <<>> /\ det' # Idle
  <2>. SUFFICES ASSUME NEW r \in Ids', Fooled(r)'
                PROVE  Told(r)'
    BY DEF StopOwed
  <2>1. det' = det /\ stopQ' = Tail(stopQ) /\ ~(Tracks(Head(stopQ).id) /\ det.app = Head(stopQ).app)
    BY <1>6 DEF DrainStop
  <2>2. r \in Ids /\ Fooled(r) /\ Told(r) /\ rows'[r].app = rows[r].app
    BY <1>2, <2>1, FooledBefore DEF StopOwed, Mild, Fooled
  <2>3. CASE \E c \in Clients : Telling(c, r)
    BY <1>3, <2>3 DEF Told, Telling
  <2>4. ASSUME NEW i \in DOMAIN stopQ, stopQ[i] = [id |-> r, app |-> rows[r].app]
        PROVE  Told(r)'
    <3>1. i # 1
      BY <2>1, <2>2, <2>4 DEF Fooled
    <3>2. stopQ \in Seq([id : Ids, app : Names])
      BY DEF Types, BusTypes
    <3>3. i - 1 \in DOMAIN Tail(stopQ) /\ Tail(stopQ)[i - 1] = stopQ[i]
      BY <1>6, <3>1, <3>2
    <3>. QED
      BY <2>1, <2>2, <2>4, <3>3 DEF Told
  <2>. QED
    BY <1>1, <2>2, <2>3, <2>4 DEF Told
<1>. QED
  BY <1>4, <1>5, <1>6

\* With one call application the loop comes to follow a stopped meeting under its stored
\* name only if it did so before.
LEMMA ScanStop ==
    ASSUME Types, StopOwed, AppHeld, \A a, b \in Apps : a = b, Scan
    PROVE  StopOwed'
<1>1. UNCHANGED <<table, bus, req>> /\ tick.pc = "scan"
  BY DEF Scan, At
<1>2. Mild /\ NoId \notin Ids /\ Ids' = Ids /\ rows' = rows
  BY <1>1, TableSameMild DEF Types, TableTypes, Ids, NoId, table
<1>3. ASSUME det' # Idle, NEW r \in Ids', Fooled(r)'
      PROVE  Told(r)'
  <2>1. Tracks(r) /\ rows[r].reason = "explicit_stop" /\ rows[r].app = det'.app
    BY <1>2, <1>3, ScanFollows DEF Fooled, Tracks
  <2>2. rows[r].app = det.app
    BY <1>2, <1>3, <2>1, ScanFollows DEF AppHeld, Tracks
  <2>3. Told(r)
    BY <1>2, <2>1, <2>2 DEF StopOwed, Fooled
  <2>. QED
    BY <1>1, <1>2, <1>3, <2>3, ToldStays DEF bus
<1>. QED
  BY <1>3, LetGo DEF StopOwed

LEMMA LoopStop ==
    ASSUME Types, StopHeld, \A a, b \in Apps : a = b, Loop, Intact'
    PROVE  StopOwed'
<1>1. Intact /\ StopOwed /\ AppHeld
  BY NextPaid, IntactEarlier DEF StopHeld, Next
<1>2. UNCHANGED req => \A c \in Clients : /\ req'[c].pc = req[c].pc /\ req'[c].op = req[c].op
                                          /\ req'[c].id = req[c].id
  OBVIOUS
<1>3. CASE CloseOrphans \/ AutoEnd \/ EndTracked
  <2>1. UNCHANGED <<det, stopQ, req>> /\ tick.pc # "off"
    BY <1>3 DEF CloseOrphans, AutoEnd, EndTracked, At, bus
  <2>2. Mild
    BY <1>3, TableSameMild, EndMild DEF CloseOrphans, AutoEnd, EndTracked
  <2>. QED
    BY <1>1, <1>2, <2>1, <2>2, StopStill
<1>4. CASE DrainAutoEnd \/ Suspend \/ GoScan \/ FindRecent \/ LoopResolve \/ LoopClear \/ SyncFlag
  <2>1. UNCHANGED <<table, det, stopQ, req>> /\ tick.pc # "off"
    BY <1>4 DEF DrainAutoEnd, Suspend, GoScan, FindRecent, LoopResolve, LoopClear, SyncFlag, At, bus
  <2>. QED
    BY <1>1, <1>2, <2>1, TableSameMild, StopStill
<1>5. CASE Reattach
  <2>1. UNCHANGED <<table, bus, req>> /\ tick.pc # "off"
    BY <1>5 DEF Reattach, At
  <2>2. CASE UNCHANGED det
    BY <1>1, <1>2, <2>1, <2>2, TableSameMild, StopStill DEF bus
  <2>3. CASE /\ Open # {}
             /\ det' = [st |-> "Active", id |-> LastOpen, app |-> rows[LastOpen].app, seen |-> FALSE]
    <3>1. LastOpen \in Open /\ rows[LastOpen].reason = "none"
      BY <2>3, LastOpenId DEF Types, TableTypes, Open
    <3>2. det'.id = LastOpen /\ rows' = rows
      BY <2>1, <2>3 DEF table
    <3>. QED
      BY <3>1, <3>2, NewlyFollowed
  <2>. QED
    BY <1>5, <2>2, <2>3 DEF Reattach
<1>6. CASE AutoUnlock
  <2>1. UNCHANGED <<table, bus, req>> /\ tick.pc # "off" /\ (det' = det \/ det' = Idle)
    BY <1>6 DEF AutoUnlock, At
  <2>. QED
    BY <1>1, <1>2, <2>1, TableSameMild, StopStill, LetGo DEF bus
<1>7. CASE ReopenRecent
  <2>1. UNCHANGED <<bus, req>> /\ tick.pc # "off" /\ tick.id \in Ids \cup {NoId}
    BY <1>7 DEF ReopenRecent, At, Types, LoopTypes
  <2>2. CASE UNCHANGED <<table, det>>
    BY <1>1, <1>2, <2>1, <2>2, TableSameMild, StopStill DEF bus
  <2>3. CASE Reopen(tick.id) /\ det' = [det EXCEPT !.id = tick.id]
    <3>1. det'.id = tick.id
      BY <2>3 DEF Types, LoopTypes
    <3>2. CASE tick.id \in Ids
      BY <2>3, <3>1, <3>2, ReopenMild, NewlyFollowed
    <3>3. CASE tick.id = NoId
      <4>1. UNCHANGED table /\ NoId \notin Ids'
        BY <2>3, <3>3 DEF Reopen, Stored, Types, TableTypes, Ids, NoId, table
      <4>. QED
        BY <3>1, <3>3, <4>1, NewlyFollowed DEF NoId
    <3>. QED
      BY <2>1, <3>2, <3>3
  <2>. QED
    BY <1>7, <2>2, <2>3 DEF ReopenRecent
<1>8. CASE InsertNew
  <2>1. UNCHANGED <<bus, req>> /\ tick.pc # "off"
    BY <1>8 DEF InsertNew, At
  <2>2. CASE UNCHANGED <<table, det>>
    BY <1>1, <1>2, <2>1, <2>2, TableSameMild, StopStill DEF bus
  <2>3. CASE Insert(det.app, "detector") /\ det' = [det EXCEPT !.id = NewId]
    <3>1. det'.id = NewId
      BY <2>3 DEF Types, LoopTypes
    <3>. QED
      BY <2>3, <3>1, InsertMild, NewlyFollowed
  <2>. QED
    BY <1>8, <2>2, <2>3 DEF InsertNew
<1>. QED
  BY <1>1, <1>3, <1>4, <1>5, <1>6, <1>7, <1>8, DrainStopStop, ScanStop DEF Loop

\* A handler's step that leaves the table's stopped meetings, the loop and the queue as
\* they are, and drops no word it was to carry.
LEMMA HandlerTold ==
    ASSUME StopOwed, NEW c \in Clients, Moved(c), Mild, UNCHANGED <<tick, det, stopQ>>,
           \A r : Telling(c, r) => Telling(c, r)'
    PROVE  StopOwed'
<1>. SUFFICES ASSUME NEW r \in Ids', Fooled(r)'
              PROVE  Told(r)'
  BY DEF StopOwed
<1>1. r \in Ids /\ Told(r) /\ rows'[r].app = rows[r].app
  BY FooledBefore DEF StopOwed, Mild, Fooled
<1>2. ASSUME NEW d \in Clients, Telling(d, r)
      PROVE  Told(r)'
  <2>1. CASE d = c
    BY <1>2, <2>1 DEF Told
  <2>2. CASE d # c
    <3>1. req'[d] = req[d]
      BY <2>2 DEF Moved
    <3>. QED
      BY <1>2, <3>1 DEF Told, Telling
  <2>. QED
    BY <2>1, <2>2
<1>. QED
  BY <1>1, <1>2 DEF Told

\* The stop handler ends the meeting, and is now to carry the word.
LEMMA StopEndStop ==
    ASSUME Types, StopOwed, NEW c \in Clients, StopEnd(c), ~DbError
    PROVE  StopOwed'
<1>1. /\ End(req[c].id, "explicit_stop") /\ Step(c, "unlock") /\ req[c].pc = "end"
      /\ UNCHANGED <<tick, det, stopQ>>
  BY DEF StopEnd, In, loopVars, bus
<1>2. /\ req'[c].pc = "unlock" /\ req'[c].op = "stop" /\ req'[c].id = req[c].id
      /\ \A d \in Clients : d # c => req'[d] = req[d]
  BY <1>1 DEF Step, Types, ReqTypes
<1>. SUFFICES ASSUME NEW r \in Ids', Fooled(r)'
              PROVE  Told(r)'
  BY DEF StopOwed
<1>3. CASE r = req[c].id
  <2>1. Telling(c, r)'
    BY <1>2, <1>3 DEF Telling
  <2>. QED
    BY <2>1 DEF Told
<1>4. CASE r # req[c].id
  <2>1. r \in Ids /\ rows'[r].reason = rows[r].reason /\ rows'[r].app = rows[r].app
    BY <1>1, <1>4, EndFacts
  <2>2. Told(r)
    BY <1>1, <2>1 DEF StopOwed, Fooled, Tracks, Tracking
  <2>3. ASSUME NEW d \in Clients, Telling(d, r)
        PROVE  Told(r)'
    <3>1. req'[d] = req[d]
      BY <1>1, <1>2, <2>3 DEF Telling
    <3>2. Telling(d, r)'
      BY <2>3, <3>1 DEF Telling
    <3>. QED
      BY <3>2 DEF Told
  <2>. QED
    BY <1>1, <2>1, <2>2, <2>3 DEF Told
<1>. QED
  BY <1>3, <1>4

\* The word reaches the queue, unless there is no loop that follows anything.
LEMMA StopSignalStop ==
    ASSUME Types, BootIdle, StopOwed, NEW c \in Clients, StopSignal(c), ~DbError
    PROVE  StopOwed'
<1>1. /\ UNCHANGED <<table, tick, det>> /\ req[c].pc = "signal" /\ Moved(c)
      /\ stopQ' = IF req[c].id \in Stored /\ Subscribed
                  THEN Append(stopQ, [id |-> req[c].id, app |-> rows[req[c].id].app])
                  ELSE stopQ
  BY HandlerMoves DEF StopSignal, In, loopVars, Handler
<1>2. Mild /\ Ids' = Ids /\ rows' = rows
  BY <1>1, TableSameMild DEF table, Ids
<1>3. stopQ \in Seq([id : Ids, app : Names])
  BY DEF Types, BusTypes
<1>4. \A i \in DOMAIN stopQ : i \in DOMAIN stopQ' /\ stopQ'[i] = stopQ[i]
  <2>1. PICK e : e = [id |-> req[c].id, app |-> rows[req[c].id].app]
    OBVIOUS
  <2>2. stopQ' = stopQ \/ stopQ' = Append(stopQ, e)
    BY <1>1, <2>1
  <2>. QED
    BY <1>3, <2>2
<1>. SUFFICES ASSUME NEW r \in Ids', Fooled(r)'
              PROVE  Told(r)'
  BY DEF StopOwed
<1>5. r \in Ids /\ Fooled(r) /\ Told(r)
  BY <1>1, <1>2, FooledBefore DEF StopOwed
<1>6. CASE tick.pc = "off"
  BY <1>1, <1>6 DEF Told
<1>7. ASSUME NEW i \in DOMAIN stopQ, stopQ[i] = [id |-> r, app |-> rows[r].app]
      PROVE  Told(r)'
  BY <1>2, <1>4, <1>7 DEF Told
<1>8. ASSUME NEW d \in Clients, Telling(d, r), tick.pc # "off"
      PROVE  Told(r)'
  <2>1. CASE d # c
    <3>1. req'[d] = req[d]
      BY <1>1, <2>1 DEF Moved
    <3>2. Telling(d, r)'
      BY <1>8, <3>1 DEF Telling
    <3>. QED
      BY <3>2 DEF Told
  <2>2. CASE d = c
    <3>1. req[c].id = r
      BY <1>8, <2>2 DEF Telling
    <3>2. r \in Stored
      BY <1>5 DEF Fooled, Stored, Types, TableTypes
    <3>3. Subscribed
      BY <1>5, <1>8 DEF Subscribed, BootIdle, Fooled, Tracks, Tracking, Idle
    <3>4. PICK e : e = [id |-> r, app |-> rows[r].app]
      OBVIOUS
    <3>5. stopQ' = Append(stopQ, e)
      BY <1>1, <3>1, <3>2, <3>3, <3>4
    <3>6. Len(stopQ) + 1 \in DOMAIN stopQ' /\ stopQ'[Len(stopQ) + 1] = e
      BY <1>3, <3>5
    <3>. QED
      BY <1>2, <3>4, <3>6 DEF Told
  <2>. QED
    BY <2>1, <2>2
<1>. QED
  BY <1>5, <1>6, <1>7, <1>8 DEF Told

LEMMA HandlerStop ==
    ASSUME Types, StopHeld, NEW c \in Clients, Handler(c), Intact'
    PROVE  StopOwed'
<1>1. Intact /\ StopOwed /\ BootIdle /\ ~DbError
  BY NextPaid, IntactEarlier, FaultShows DEF StopHeld, Next
<1>2. Moved(c) /\ UNCHANGED tick
  BY HandlerMoves
<1>3. \A p : Step(c, p) => req'[c].pc = p /\ req'[c].op = req[c].op /\ req'[c].id = req[c].id
  BY DEF Step, Types, ReqTypes
<1>4. CASE Resolve(c) \/ ClearStale(c) \/ MostRecent(c) \/ StartLock(c)
  <2>1. UNCHANGED <<table, det, stopQ>> /\ \A r : ~Telling(c, r)
    BY <1>4 DEF Resolve, ClearStale, MostRecent, StartLock, In, loopVars, bus, Telling
  <2>. QED
    BY <1>1, <1>2, <2>1, TableSameMild, HandlerTold
<1>5. CASE StartInsert(c)
  <2>1. UNCHANGED <<det, stopQ>> /\ \A r : ~Telling(c, r)
    BY <1>5 DEF StartInsert, In, loopVars, bus, Telling
  <2>2. Mild
    BY <1>5, TableSameMild, InsertMild DEF StartInsert
  <2>. QED
    BY <1>1, <1>2, <2>1, <2>2, HandlerTold
<1>6. CASE StartReopen(c)
  <2>1. UNCHANGED <<det, stopQ>> /\ (\A r : ~Telling(c, r)) /\ req[c].id \in Ids
    BY <1>6 DEF StartReopen, In, loopVars, bus, Telling, Types, ReqTypes, Decided
  <2>2. Mild
    BY <1>6, <2>1, TableSameMild, ReopenMild DEF StartReopen
  <2>. QED
    BY <1>1, <1>2, <2>1, <2>2, HandlerTold
<1>7. CASE StopUnlock(c) \/ SetFlag(c)
  <2>1. UNCHANGED <<table, det, stopQ>> /\ (Step(c, "flag") \/ Step(c, "trail"))
    BY <1>7 DEF StopUnlock, SetFlag, loopVars, bus
  <2>2. \A r : Telling(c, r) => Telling(c, r)'
    BY <1>3, <2>1 DEF Telling
  <2>. QED
    BY <1>1, <1>2, <2>1, <2>2, TableSameMild, HandlerTold
<1>8. CASE Trail(c) \/ TrailClear(c)
  <2>1. UNCHANGED <<table, det, stopQ>>
    BY <1>8 DEF Trail, TrailClear, loopVars, bus
  <2>2. Done(c) \/ req' = [req EXCEPT ![c].pc = "trailClear", ![c].stale = manual]
    BY <1>8 DEF Trail, TrailClear
  <2>3. ASSUME NEW r, Telling(c, r)
        PROVE  Telling(c, r)'
    <3>1. CASE Done(c)
      BY <1>3, <2>3, <3>1 DEF Telling, Done
    <3>2. CASE req' = [req EXCEPT ![c].pc = "trailClear", ![c].stale = manual]
      <4>1. req'[c].pc = "trailClear" /\ req'[c].op = req[c].op /\ req'[c].id = req[c].id
        BY <3>2 DEF Types, ReqTypes
      <4>. QED
        BY <2>3, <4>1 DEF Telling
    <3>. QED
      BY <2>2, <3>1, <3>2
  <2>. QED
    BY <1>1, <1>2, <2>1, <2>3, TableSameMild, HandlerTold
<1>. QED
  BY <1>1, <1>4, <1>5, <1>6, <1>7, <1>8, StopEndStop, StopSignalStop DEF Handler

\* What a handler does to the table and to the loop.
LEMMA HandlerApps == ASSUME Types, NEW c \in Clients, Handler(c) PROVE AppsKept /\ det' = det
<1>1. det' = det
  BY DEF Handler, Resolve, ClearStale, MostRecent, StartInsert, StartReopen, StartLock,
     StopEnd, StopUnlock, SetFlag, Trail, TrailClear, StopSignal, loopVars
<1>2. CASE StartInsert(c)
  BY <1>1, <1>2, TableSameMild, InsertMild DEF StartInsert
<1>3. CASE StartReopen(c)
  BY <1>1, <1>3, TableSameMild, ReopenMild DEF StartReopen, In, Types, ReqTypes, Decided
<1>4. CASE StopEnd(c)
  BY <1>1, <1>4, TableSameMild, EndFacts DEF StopEnd
<1>5. CASE UNCHANGED table
  BY <1>1, <1>5, TableSameMild
<1>. QED
  BY <1>1, <1>2, <1>3, <1>4, <1>5 DEF Handler, Resolve, ClearStale, MostRecent, StartLock,
     StopUnlock, SetFlag, Trail, TrailClear, StopSignal

LEMMA StopStep ==
    ASSUME Types, StopHeld, \A a, b \in Apps : a = b, [Next]_vars
    PROVE  StopHeld'
<1>1. CASE UNCHANGED vars
  BY <1>1 DEF vars, StopHeld, BootIdle, AppHeld, Intact, StopOwed, Fooled, Told, Telling, Tracks,
     Tracking, Ids
<1>2. CASE Loop
  <2>1. BootIdle'
    BY <1>2, LoopStarted DEF BootIdle, StopHeld, CloseOrphans, At
  <2>. QED
    BY <1>2, <2>1, AppLoop, LoopStop DEF StopHeld
<1>3. CASE Shutdown
  <2>1. tick'.pc = "off" /\ det' = det
    BY <1>3 DEF Shutdown, Goto, Types, LoopTypes
  <2>2. AppHeld'
    BY <1>3, <2>1, TableSameMild, EndMild, AppStill DEF Shutdown, StopHeld
  <2>. QED
    BY <2>1, <2>2 DEF StopHeld, BootIdle, StopOwed, Told
<1>4. CASE Restart
  BY <1>4, LetGo DEF Restart, StopHeld
<1>5. ASSUME UNCHANGED <<tick, det, stopQ>>, Mild, AppsKept, Paid,
             \A c \in Clients : \A r : Telling(c, r) => Telling(c, r)',
             \A c \in Clients : req'[c] = req[c] \/ (req[c].pc = "idle" /\ Moved(c))
      PROVE  StopHeld'
  <2>1. BootIdle' /\ AppHeld'
    BY <1>5, AppStill DEF StopHeld, BootIdle
  <2>2. ASSUME Intact', NEW r \in Ids', Fooled(r)'
        PROVE  Told(r)'
    <3>1. r \in Ids /\ Told(r) /\ rows'[r].app = rows[r].app
      BY <1>5, <2>2, IntactEarlier, FooledBefore DEF StopHeld, StopOwed, Mild, Fooled
    <3>. QED
      BY <1>5, <3>1 DEF Told
  <2>. QED
    BY <2>1, <2>2 DEF StopHeld, StopOwed
<1>6. CASE Age
  <2>1. UNCHANGED <<rows, tick, det, stopQ, req, used>>
    BY <1>6 DEF Age, loopVars, bus
  <2>2. Mild /\ AppsKept /\ Paid
    BY <2>1, FaultPaid DEF Mild, AppsKept, Ids, NoId, Types, TableTypes
  <2>. QED
    BY <1>5, <2>1, <2>2 DEF Telling
<1>7. ASSUME NEW c \in Clients, Handler(c)
      PROVE  StopHeld'
  BY <1>7, HandlerStop, HandlerMoves, HandlerApps, AppStill DEF StopHeld, BootIdle
<1>8. ASSUME NEW c \in Clients, NEW op \in Ops, NEW r \in Ids \cup {NoId}, Call(c, op, r)
      PROVE  StopHeld'
  <2>1. /\ UNCHANGED <<table, tick, det, stopQ>> /\ req[c].pc = "idle" /\ Spend("calls")
        /\ req' = [req EXCEPT ![c] = [NoReq EXCEPT !.op = op, !.pc = "resolve", !.id = r]]
    BY <1>8 DEF Call, In, loopVars, bus
  <2>2. Moved(c)
    BY <2>1 DEF Moved, Types, ReqTypes
  <2>3. ASSUME NEW d \in Clients, NEW s, Telling(d, s)
        PROVE  Telling(d, s)'
    <3>1. d # c
      BY <2>1, <2>3 DEF Telling
    <3>2. req'[d] = req[d]
      BY <2>2, <3>1 DEF Moved
    <3>. QED
      BY <2>3, <3>2 DEF Telling
  <2>4. Paid
    BY <2>1 DEF Paid, Budgets
  <2>. QED
    BY <1>5, <2>1, <2>2, <2>3, <2>4, TableSameMild DEF Moved
<1>9. ASSUME NEW r \in Ids, Delete(r) \/ RequestAutoEnd(r)
      PROVE  StopHeld'
  <2>1. UNCHANGED <<tick, det, stopQ, req>> /\ Paid
    BY <1>9 DEF Delete, RequestAutoEnd, loopVars, bus, Paid, Budgets
  <2>2. Mild /\ AppsKept
    BY <1>9, DeleteMild, TableSameMild DEF RequestAutoEnd
  <2>. QED
    BY <1>5, <2>1, <2>2 DEF Telling
<1>. QED
  BY <1>1, <1>2, <1>3, <1>4, <1>6, <1>7, <1>8, <1>9 DEF Next

\* Once no request is in flight, the loop sleeps and its queue is empty, it no longer
\* follows a meeting the user stopped, until a statement fails: whatever the requests,
\* deletes, detections, automatic ends, shutdowns and restarts.  There is one call
\* application: with two, the loop drops the signal while it follows the meeting under
\* the other's name.
THEOREM StopIsHeard ==
    ASSUME \A a, b \in Apps : a = b
    PROVE  Spec => [](Intact => StopReachesDetector)
<1>1. Init => StopHeld
  BY DEF Init, StopHeld, BootIdle, AppHeld, StopOwed, Ids, Idle, Tracking
<1>2. Types /\ StopHeld /\ [Next]_vars => StopHeld'
  BY StopStep
<1>3. Types /\ StopHeld => (Intact => StopReachesDetector)
  <2>. SUFFICES ASSUME Types, StopHeld, Intact, Quiet, stopQ = <<>>, NEW r \in userStopped,
                       rows[r].reason = "explicit_stop", rows[r].app = det.app, Tracks(r)
                PROVE  FALSE
    BY DEF StopReachesDetector
  <2>1. r \in Ids
    BY DEF Types, CountTypes
  <2>2. Told(r)
    BY <2>1 DEF StopHeld, StopOwed, Fooled
  <2>. QED
    BY <2>2 DEF Told, Telling, Quiet
<1>. QED
  BY <1>1, <1>2, <1>3, TypeInvariant, PTL DEF Spec


-----------------------------------------------------------------------------
(* Every open meeting has an owner.                                         *)

\* What an end, a reopening and an insertion leave open.
LEMMA EndOpen ==
    ASSUME Types, NEW x, NEW why, End(x, why)
    PROVE  Open' = Open \ {x}
<1>1. rows \in Seq(Meeting) /\ DOMAIN rows = 1..Len(rows)
  BY DEF Types, TableTypes
<1>2. CASE x \notin Stored
  BY <1>2, OpenSame DEF End, Open, Stored
<1>3. CASE x \in Stored
  <2>1. x \in Ids /\ rows[x] \in Meeting
    BY <1>1, <1>3 DEF Stored, Ids
  <2>2. PICK m : m = [rows[x] EXCEPT !.st = "ended", !.reason = why]
    OBVIOUS
  <2>3. m.st = "ended"
    BY <2>1, <2>2 DEF Meeting
  <2>4. rows' = [rows EXCEPT ![x] = m]
    BY <1>3, <2>1, <2>2 DEF End, Ids
  <2>5. Ids' = Ids /\ \A s \in Ids : rows'[s] = IF s = x THEN m ELSE rows[s]
    BY <1>1, <2>1, <2>4 DEF Ids
  <2>. QED
    BY <2>3, <2>5 DEF Open
<1>. QED
  BY <1>2, <1>3

LEMMA ReopenOpen ==
    ASSUME Types, NEW x, Reopen(x)
    PROVE  Open' = Open \/ Open' = {x}
<1>1. rows \in Seq(Meeting) /\ DOMAIN rows = 1..Len(rows)
  BY DEF Types, TableTypes
<1>2. CASE x \notin Stored
  BY <1>2, OpenSame DEF Reopen
<1>3. CASE x \in Stored
  <2>1. x \in Ids /\ rows[x] \in Meeting /\ Open \subseteq {x}
    BY <1>1, <1>3 DEF Reopen, Stored, Ids
  <2>2. PICK m : m = [rows[x] EXCEPT !.st = "open", !.reason = "none"]
    OBVIOUS
  <2>3. m.st = "open"
    BY <2>1, <2>2 DEF Meeting
  <2>4. rows' = [rows EXCEPT ![x] = m]
    BY <1>3, <2>1, <2>2 DEF Reopen, Ids
  <2>5. Ids' = Ids /\ \A s \in Ids : rows'[s] = IF s = x THEN m ELSE rows[s]
    BY <1>1, <2>1, <2>4 DEF Ids
  <2>6. \A s \in Ids : rows'[s].st = "open" => s = x
    BY <2>1, <2>5 DEF Open
  <2>7. rows'[x].st = "open" /\ x \in Ids'
    BY <2>1, <2>3, <2>5
  <2>8. Open' = {s \in Ids : rows'[s].st = "open"}
    BY <2>5 DEF Open
  <2>. QED
    BY <2>6, <2>7, <2>8, <2>5
<1>. QED
  BY <1>2, <1>3

LEMMA InsertOpen ==
    ASSUME Types, NEW app, NEW by, Insert(app, by)
    PROVE  Open = {} /\ Open' = {NewId} /\ NewId \notin Ids \cup {NoId}
<1>1. rows \in Seq(Meeting) /\ DOMAIN rows = 1..Len(rows) /\ Len(rows) \in Nat
  BY DEF Types, TableTypes
<1>2. PICK m : m = [st |-> "open", app |-> app, by |-> by, reason |-> "none"]
  OBVIOUS
<1>3. rows' = Append(rows, m) /\ m.st = "open" /\ Open = {}
  BY <1>2 DEF Insert
<1>4. /\ DOMAIN rows' = 1..(Len(rows) + 1) /\ rows'[Len(rows) + 1] = m
      /\ \A s \in 1..Len(rows) : rows'[s] = rows[s]
  BY <1>1, <1>3
<1>5. \A s \in 1..Len(rows) : rows'[s].st # "open"
  BY <1>1, <1>3, <1>4 DEF Open, Ids
<1>6. \A s \in Ids' : s = NewId \/ s \in 1..Len(rows)
  BY <1>1, <1>4 DEF Ids, NewId
<1>7. NewId \in Ids' /\ rows'[NewId].st = "open"
  BY <1>1, <1>3, <1>4 DEF Ids, NewId
<1>8. Open' = {NewId}
  BY <1>5, <1>6, <1>7 DEF Open
<1>. QED
  BY <1>1, <1>3, <1>8 DEF NewId, NoId, Ids

LEMMA DeleteOpen ==
    ASSUME Types, NEW x \in Ids, Delete(x)
    PROVE  Open' \subseteq Open
<1>1. rows \in Seq(Meeting) /\ DOMAIN rows = 1..Len(rows)
  BY DEF Types, TableTypes
<1>2. PICK m : m = [st |-> "deleted", app |-> "manual", by |-> "user", reason |-> "none"]
  OBVIOUS
<1>3. m.st = "deleted" /\ rows' = [rows EXCEPT ![x] = m]
  BY <1>2 DEF Delete
<1>4. Ids' = Ids /\ \A s \in Ids : rows'[s] = IF s = x THEN m ELSE rows[s]
  BY <1>1, <1>3 DEF Ids
<1>. QED
  BY <1>3, <1>4 DEF Open


\* The loop has this meeting in hand: it follows it, is about to end it, or will take it
\* up when it reattaches.
InHand(r) ==
    \/ Tracks(r)
    \/ tick.pc = "endRow" /\ tick.id = r
    \/ tick.pc \in {"boot", "reattach", "off"}

\* A handler is about to lock this meeting.
Locking(c, r) == req[c].pc = "lock" /\ req[c].id = r

Owned == \A r \in Open : manual = r \/ InHand(r) \/ \E c \in Clients : Locking(c, r)

\* Where the loop clears the lock of a meeting, or stops following it, that one is closed.
LoopShut == tick.pc \in {"autoUnlock", "clear", "autoClear"} => tick.id \notin Open

\* A handler may be about to take the lock away from this meeting.
Unlocking(c, r) ==
    \/ req[c].pc \in {"clear", "trailClear"} /\ req[c].stale = r
    \/ req[c].pc = "unlock" /\ req[c].id = r
    \/ req[c].pc = "lock" /\ req[c].id # r

\* It does so only to one that the loop has in hand.
UnlockedKept == \A c \in Clients : \A r \in Open : Unlocking(c, r) => InHand(r)

NoResume == \A c \in Clients : req[c].op # "resume" /\ req[c].pc # "reopen"

OwnHeld == NoResume /\ (Intact => LoopShut /\ UnlockedKept /\ Owned)

\* A stop signal that the loop will heed reaches it while its meeting is still ended.
Timely ==
    At("wait") /\ stopQ # <<>> /\ Tracks(Head(stopQ).id) /\ det.app = Head(stopQ).app
        => Head(stopQ).id \notin Open

\* What the step leaves open the loop has in hand, if it was not already open in other hands.
Keeps == \A r \in Open' : r \notin Open \/ InHand(r) => InHand(r)'

SameRequests ==
    \A c \in Clients : /\ req'[c].pc = req[c].pc /\ req'[c].id = req[c].id
                       /\ req'[c].stale = req[c].stale /\ req'[c].op = req[c].op

\* A step of the loop that opens no meeting and keeps following the one it follows.
LEMMA KeepsStill ==
    ASSUME Open' \subseteq Open, UNCHANGED det,
           tick.pc \notin {"boot", "reattach", "off", "endRow"}
    PROVE  Keeps
  BY DEF Keeps, InHand, Tracks, Tracking

LEMMA DrainStopOwns ==
    ASSUME Types, Timely, DrainStop
    PROVE  Keeps /\ UNCHANGED <<table, manual>> /\ tick'.pc = "auto" /\ SameRequests
<1>1. /\ tick.pc = "wait" /\ UNCHANGED <<table, manual>> /\ tick'.pc = "auto"
      /\ req' = [c \in Clients |-> [req[c] EXCEPT !.aged = req[c].pc # "idle"]]
  BY DEF DrainStop, At, Goto, Types, LoopTypes
<1>2. SameRequests
  <2>. SUFFICES ASSUME NEW c \in Clients
                PROVE  /\ req'[c].pc = req[c].pc /\ req'[c].id = req[c].id
                       /\ req'[c].stale = req[c].stale /\ req'[c].op = req[c].op
    BY DEF SameRequests
  <2>1. req'[c] = [req[c] EXCEPT !.aged = req[c].pc # "idle"]
    BY <1>1
  <2>2. req[c] \in [op : AllOps \cup {"none"}, pc : Places, id : Ids \cup {NoId},
                    stale : Ids \cup {NoId}, aged : BOOLEAN]
    BY DEF Types, ReqTypes
  <2>. QED
    BY <2>1, <2>2
<1>3. det' = det \/ (det' = Idle /\ stopQ # <<>> /\ Tracks(Head(stopQ).id) /\ det.app = Head(stopQ).app)
  BY DEF DrainStop
<1>4. Open' = Open
  BY <1>1, OpenSame
<1>5. CASE det' = det
  BY <1>1, <1>2, <1>4, <1>5, KeepsStill
<1>6. CASE stopQ # <<>> /\ Tracks(Head(stopQ).id) /\ det.app = Head(stopQ).app
  <2>1. Head(stopQ).id \notin Open /\ det.id = Head(stopQ).id
    BY <1>1, <1>6 DEF Timely, At, Tracks
  <2>. QED
    BY <1>1, <1>2, <1>4, <2>1 DEF Keeps, InHand, Tracks
<1>. QED
  BY <1>1, <1>2, <1>3, <1>5, <1>6

\* The state machine goes on with the meeting, or is to end it.
LEMMA AfterOwns ==
    ASSUME Types, NEW r \in Open, Tracks(r), NEW m, NEW p, NEW id, After(m, p, id),
           (m.st \in {"Active", "Ending"} /\ m.id = r) \/ (p = "endRow" /\ id = r)
    PROVE  InHand(r)'
<1>1. det' = m /\ tick'.pc = p /\ tick'.id = id
  BY DEF After, Types, LoopTypes
<1>. QED
  BY <1>1 DEF InHand, Tracks, Tracking

LEMMA InCallOwns ==
    ASSUME Types, NEW r \in Open, Tracks(r), NEW app \in Apps, InCall(app)
    PROVE  InHand(r)'
<1>1. /\ det \in [st : {"Idle", "Confirming", "Active", "Ending"}, id : Ids \cup {NoId},
                  app : Names, seen : BOOLEAN]
      /\ det.id = r /\ det.st \in {"Active", "Ending"}
  BY DEF Types, LoopTypes, Tracks, Tracking
<1>2. PICK m \in {[det EXCEPT !.app = app], [det EXCEPT !.seen = TRUE],
                  [det EXCEPT !.st = "Active", !.app = app, !.seen = FALSE]} : After(m, "sync", NoId)
  BY <1>1 DEF InCall
<1>3. m.st \in {"Active", "Ending"} /\ m.id = r
  BY <1>1, <1>2
<1>. QED
  BY <1>2, <1>3, AfterOwns

LEMMA NoCallOwns ==
    ASSUME Types, NEW r \in Open, Tracks(r), NEW gone \in BOOLEAN, NEW late \in BOOLEAN,
           NEW alive \in BOOLEAN, NoCall(gone, late, alive)
    PROVE  InHand(r)'
<1>1. /\ det \in [st : {"Idle", "Confirming", "Active", "Ending"}, id : Ids \cup {NoId},
                  app : Names, seen : BOOLEAN]
      /\ det.id = r /\ det.st \in {"Active", "Ending"} /\ r # NoId
  BY DEF Types, LoopTypes, TableTypes, Tracks, Tracking, Open, Ids, NoId
<1>2. \/ After(Idle, "endRow", det.id)
      \/ \E m \in {det, [det EXCEPT !.st = "Ending", !.seen = FALSE], [det EXCEPT !.seen = FALSE],
                   [det EXCEPT !.st = "Active", !.seen = FALSE]} : After(m, "sync", NoId)
  BY <1>1 DEF NoCall
<1>3. CASE After(Idle, "endRow", det.id)
  BY <1>1, <1>3, AfterOwns
<1>4. ASSUME NEW m \in {det, [det EXCEPT !.st = "Ending", !.seen = FALSE], [det EXCEPT !.seen = FALSE],
                        [det EXCEPT !.st = "Active", !.seen = FALSE]}, After(m, "sync", NoId)
      PROVE  InHand(r)'
  <2>1. m.st \in {"Active", "Ending"} /\ m.id = r
    BY <1>1, <1>4
  <2>. QED
    BY <1>4, <2>1, AfterOwns
<1>. QED
  BY <1>2, <1>3, <1>4

LEMMA ScanOwns == ASSUME Types, Scan PROVE Keeps
<1>1. Open' = Open /\ tick.pc = "scan"
  BY OpenSame DEF Scan, At
<1>. SUFFICES ASSUME NEW r \in Open, Tracks(r)
              PROVE  InHand(r)'
  BY <1>1 DEF Keeps, InHand
<1>. QED
  BY InCallOwns, NoCallOwns DEF Scan


LockSame == \A r \in Open : manual = r => manual' = r

LEMMA SameHere == UNCHANGED <<manual, req>> => LockSame /\ SameRequests
  BY DEF LockSame, SameRequests

\* The steps of a pass that write neither the table nor the lock, and follow the same.
LEMMA PassOwns ==
    ASSUME Types, DrainAutoEnd \/ Suspend \/ GoScan \/ FindRecent \/ SyncFlag
    PROVE  Keeps /\ LockSame /\ SameRequests /\ LoopShut'
<1>1. tick \in [pc : Steps, id : Ids \cup {NoId}, man : BOOLEAN]
  BY DEF Types, LoopTypes
<1>2. UNCHANGED <<table, manual, req, det>> /\ tick.pc \in {"auto", "check", "find", "sync"}
  BY DEF DrainAutoEnd, Suspend, GoScan, FindRecent, SyncFlag, At
<1>3. \A p : Goto(p) => tick'.pc = p
  BY <1>1 DEF Goto
<1>. SUFFICES LoopShut'
  BY <1>2, SameHere, KeepsStill, OpenSame
<1>4. CASE DrainAutoEnd \/ Suspend \/ GoScan \/ SyncFlag
  BY <1>3, <1>4 DEF DrainAutoEnd, Suspend, GoScan, SyncFlag, NoTick, LoopShut
<1>5. CASE FindRecent
  <2>1. \/ Goto("insert")
        \/ tick' = [tick EXCEPT !.pc = "reopen", !.id = RecentFor(det.app)]
    BY <1>5 DEF FindRecent
  <2>2. tick' = [tick EXCEPT !.pc = "reopen", !.id = RecentFor(det.app)] => tick'.pc = "reopen"
    BY <1>1
  <2>. QED
    BY <1>3, <2>1, <2>2 DEF LoopShut
<1>. QED
  BY <1>4, <1>5

LEMMA StartUpOwns ==
    ASSUME Types, CloseOrphans \/ Reattach, ~DbError
    PROVE  Keeps /\ LockSame /\ SameRequests /\ LoopShut'
<1>1. UNCHANGED <<manual, req>>
  BY DEF CloseOrphans, Reattach
<1>2. CASE CloseOrphans
  <2>1. tick'.pc = "reattach"
    BY <1>2 DEF CloseOrphans, NoTick
  <2>. QED
    BY <1>1, <2>1, SameHere DEF Keeps, InHand, LoopShut
<1>3. CASE Reattach
  <2>1. tick'.pc = "wait" /\ UNCHANGED table
    BY <1>3 DEF Reattach, Goto, Types, LoopTypes
  <2>2. Open' = Open
    BY <2>1, OpenSame
  <2>3. ASSUME NEW r \in Open
        PROVE  Tracks(r)'
    <3>1. LastOpen = r
      BY LastOpenId DEF Types, TableTypes, OneOpen
    <3>2. det' = [st |-> "Active", id |-> LastOpen, app |-> rows[LastOpen].app, seen |-> FALSE]
      BY <1>3 DEF Reattach
    <3>. QED
      BY <3>1, <3>2 DEF Tracks, Tracking
  <2>. QED
    BY <1>1, <2>1, <2>2, <2>3, SameHere DEF Keeps, InHand, LoopShut
<1>. QED
  BY <1>2, <1>3

LEMMA AutoOwns ==
    ASSUME Types, LoopShut, AutoEnd \/ AutoUnlock
    PROVE  Keeps /\ LockSame /\ SameRequests /\ LoopShut'
<1>1. tick \in [pc : Steps, id : Ids \cup {NoId}, man : BOOLEAN]
  BY DEF Types, LoopTypes
<1>2. \A p : Goto(p) => tick'.pc = p /\ tick'.id = tick.id
  BY <1>1 DEF Goto
<1>3. CASE AutoEnd
  <2>1. UNCHANGED <<manual, req, det>> /\ tick.pc = "autoEnd"
    BY <1>3 DEF AutoEnd, At
  <2>2. \/ End(tick.id, "auto_end") /\ Goto("autoUnlock")
        \/ UNCHANGED table /\ Goto("check")
    BY <1>3 DEF AutoEnd
  <2>3. Open' \subseteq Open /\ LoopShut'
    BY <1>2, <2>2, EndOpen, OpenSame DEF LoopShut
  <2>. QED
    BY <2>1, <2>3, SameHere, KeepsStill
<1>4. CASE AutoUnlock
  <2>1. /\ UNCHANGED <<table, req>> /\ tick.pc = "autoUnlock" /\ tick'.pc = "autoResolve"
        /\ manual' = manual \/ (manual = tick.id /\ manual' = NoId)
        /\ det' = det \/ (det' = Idle /\ Tracks(tick.id))
    BY <1>2, <1>4 DEF AutoUnlock, At
  <2>2. Open' = Open /\ tick.id \notin Open
    BY <2>1, OpenSame DEF LoopShut
  <2>3. LockSame /\ SameRequests /\ LoopShut'
    BY <2>1, <2>2 DEF LockSame, SameRequests, LoopShut
  <2>4. Keeps
    BY <2>1, <2>2 DEF Keeps, InHand, Tracks, Tracking
  <2>. QED
    BY <2>3, <2>4
<1>. QED
  BY <1>3, <1>4

\* A meeting the loop stores, new or reopened, it follows from then on.
LEMMA StoreOwns ==
    ASSUME Types, ReopenRecent \/ InsertNew
    PROVE  Keeps /\ LockSame /\ SameRequests /\ LoopShut'
<1>1. /\ UNCHANGED <<manual, req>> /\ tick.pc \in {"reopen", "insert"}
      /\ det.st = "Active" /\ det.id = NoId /\ NoId \notin Open
      /\ tick \in [pc : Steps, id : Ids \cup {NoId}, man : BOOLEAN]
      /\ det \in [st : {"Idle", "Confirming", "Active", "Ending"}, id : Ids \cup {NoId},
                  app : Names, seen : BOOLEAN]
  BY DEF ReopenRecent, InsertNew, At, Types, LoopTypes, TableTypes, Open, Ids, NoId
<1>2. LoopShut'
  BY <1>1 DEF ReopenRecent, InsertNew, Goto, LoopShut
<1>. SUFFICES Keeps
  BY <1>1, <1>2, SameHere
<1>3. \A r \in Open : ~InHand(r)
  BY <1>1 DEF InHand, Tracks
<1>4. ASSUME NEW x, det' = [det EXCEPT !.id = x], Open' = Open \/ Open' = {x}
      PROVE  Keeps
  <2>1. det'.st = "Active" /\ det'.id = x
    BY <1>1, <1>4
  <2>. QED
    BY <1>3, <1>4, <2>1 DEF Keeps, InHand, Tracks, Tracking
<1>5. CASE UNCHANGED <<table, det>>
  BY <1>1, <1>5, KeepsStill, OpenSame
<1>6. CASE ReopenRecent
  BY <1>4, <1>5, <1>6, ReopenOpen DEF ReopenRecent
<1>7. CASE InsertNew
  BY <1>4, <1>5, <1>7, InsertOpen DEF InsertNew
<1>. QED
  BY <1>6, <1>7

LEMMA EndTrackedOwns ==
    ASSUME Types, EndTracked, ~DbError
    PROVE  Keeps /\ LockSame /\ SameRequests /\ LoopShut'
<1>1. UNCHANGED <<manual, req, det>> /\ tick.pc = "endRow" /\ End(tick.id, "none") /\ tick'.pc = "resolve"
  BY DEF EndTracked, At, Goto, Types, LoopTypes
<1>2. Open' = Open \ {tick.id}
  BY <1>1, EndOpen
<1>. QED
  BY <1>1, <1>2, SameHere DEF Keeps, InHand, Tracks, Tracking, LoopShut

LEMMA LockOwns ==
    ASSUME Types, LoopShut, LoopResolve \/ LoopClear
    PROVE  Keeps /\ LockSame /\ SameRequests /\ LoopShut'
<1>1. tick \in [pc : Steps, id : Ids \cup {NoId}, man : BOOLEAN]
  BY DEF Types, LoopTypes
<1>2. UNCHANGED <<table, req, det>> /\ tick.pc \in {"resolve", "autoResolve", "clear", "autoClear"}
  BY DEF LoopResolve, LoopClear, At
<1>3. Open' = Open
  BY <1>2, OpenSame
<1>4. Keeps
  BY <1>2, <1>3, KeepsStill
<1>5. CASE LoopResolve
  <2>1. manual' = manual
    BY <1>5 DEF LoopResolve
  <2>2. PICK p \in {"sync", "check", "clear", "autoClear"} :
           \/ Goto(p) /\ p \in {"sync", "check"}
           \/ tick' = [tick EXCEPT !.pc = p, !.id = manual] /\ manual \notin Open
    BY <1>5 DEF LoopResolve
  <2>3. LoopShut'
    BY <1>1, <1>3, <2>2 DEF Goto, LoopShut
  <2>. QED
    BY <1>2, <1>4, <2>1, <2>3, SameHere
<1>6. CASE LoopClear
  <2>1. /\ tick.pc \in {"clear", "autoClear"} /\ tick'.pc \in {"sync", "check"}
        /\ manual' = manual \/ (manual = tick.id /\ manual' = NoId)
    BY <1>1, <1>6 DEF LoopClear, At, Goto
  <2>2. tick.id \notin Open
    BY <2>1 DEF LoopShut
  <2>. QED
    BY <1>2, <1>4, <2>1, <2>2 DEF LockSame, SameRequests, LoopShut
<1>. QED
  BY <1>5, <1>6

LEMMA LoopOwns ==
    ASSUME Types, LoopShut, Timely, Loop, ~DbError
    PROVE  Keeps /\ LockSame /\ SameRequests /\ LoopShut'
<1>1. CASE DrainStop
  BY <1>1, DrainStopOwns DEF LockSame, LoopShut
<1>2. CASE Scan
  BY <1>2, ScanOwns, ScanMoves, SameHere DEF Scan, LoopShut
<1>. QED
  BY <1>1, <1>2, PassOwns, StartUpOwns, AutoOwns, StoreOwns, EndTrackedOwns, LockOwns DEF Loop

\* So what has an owner keeps one.
LEMMA OwnersKept ==
    ASSUME UnlockedKept, Owned, Keeps, LockSame, SameRequests
    PROVE  UnlockedKept' /\ Owned'
<1>1. ASSUME NEW r \in Open', NEW c \in Clients, Unlocking(c, r)'
      PROVE  InHand(r)'
  <2>1. Unlocking(c, r)
    BY <1>1 DEF SameRequests, Unlocking
  <2>. QED
    BY <2>1 DEF UnlockedKept, Keeps
<1>2. ASSUME NEW r \in Open'
      PROVE  manual' = r \/ InHand(r)' \/ \E c \in Clients : Locking(c, r)'
  <2>1. ASSUME NEW c \in Clients, Locking(c, r)
        PROVE  Locking(c, r)'
    BY <2>1 DEF SameRequests, Locking
  <2>. QED
    BY <2>1 DEF Owned, Keeps, LockSame
<1>. QED
  BY <1>1, <1>2 DEF UnlockedKept, Owned


\* One request at a time.
OneClient == \A c, d \in Clients : c = d

\* After the handler's step it holds no meeting open in other hands against its owner.
Harmless(c) ==
    \/ req[c].pc \in {"idle", "resolve", "recent", "insert", "end", "flag", "trail", "signal"}
    \/ req[c].pc \in {"clear", "trailClear"} /\ req[c].stale \notin Open
    \/ req[c].pc = "unlock" /\ req[c].id \notin Open
    \/ req[c].pc = "lock" /\ Open \subseteq {req[c].id}

LEMMA HandlerKeeps ==
    ASSUME Types, OneClient, LoopShut, NEW c \in Clients, UNCHANGED <<tick, det>>, Harmless(c)',
           Open' \subseteq Open \cup {NewId},
           \A r \in Open' : manual' = r \/ InHand(r) \/ Locking(c, r)'
    PROVE  LoopShut' /\ UnlockedKept' /\ Owned'
<1>1. \A r : InHand(r)' = InHand(r)
  BY DEF InHand, Tracks, Tracking
<1>2. LoopShut'
  <2>1. NewId \notin Ids \cup {NoId} /\ tick.id \in Ids \cup {NoId}
    BY DEF Types, TableTypes, LoopTypes, NewId, Ids, NoId
  <2>. QED
    BY <2>1 DEF LoopShut
<1>3. \A r \in Open' : ~Unlocking(c, r)'
  BY DEF Unlocking, Harmless
<1>4. UnlockedKept'
  BY <1>3 DEF UnlockedKept, OneClient
<1>5. Owned'
  BY <1>1 DEF Owned
<1>. QED
  BY <1>2, <1>4, <1>5

\* A step that opens nothing, and leaves the lock alone or takes it from a closed meeting
\* or from one the loop has in hand.
LEMMA HandlerStays ==
    ASSUME Types, OneClient, LoopShut, Owned, NEW c \in Clients, UNCHANGED <<tick, det>>,
           Harmless(c)', Open' \subseteq Open, req[c].pc # "lock",
           \A r \in Open' : manual = r => manual' = r \/ InHand(r)
    PROVE  LoopShut' /\ UnlockedKept' /\ Owned'
<1>1. ASSUME NEW r \in Open'
      PROVE  manual' = r \/ InHand(r) \/ Locking(c, r)'
  <2>1. \A d \in Clients : ~Locking(d, r)
    BY DEF OneClient, Locking
  <2>. QED
    BY <2>1 DEF Owned
<1>. QED
  BY <1>1, HandlerKeeps

LEMMA StepPlace ==
    ASSUME Types, NEW c \in Clients
    PROVE  /\ \A p : Step(c, p) => req'[c].pc = p /\ req'[c].id = req[c].id
           /\ Reply(c) => req'[c].pc = "idle"
           /\ Done(c) => req'[c].pc \in {"idle", "signal"}
           /\ \A p, r : req' = [req EXCEPT ![c].pc = p, ![c].stale = r] =>
                           req'[c].pc = p /\ req'[c].stale = r
           /\ \A p, r : req' = [req EXCEPT ![c].pc = p, ![c].id = r] =>
                           req'[c].pc = p /\ req'[c].id = r
           /\ \A p, r : req' = [req EXCEPT ![c].pc = p, ![c].id = r, ![c].stale = NoId] =>
                           req'[c].pc = p /\ req'[c].id = r
<1>1. /\ req \in [Clients -> [op : AllOps \cup {"none"}, pc : Places, id : Ids \cup {NoId},
                              stale : Ids \cup {NoId}, aged : BOOLEAN]]
      /\ req[c] \in [op : AllOps \cup {"none"}, pc : Places, id : Ids \cup {NoId},
                     stale : Ids \cup {NoId}, aged : BOOLEAN]
  BY DEF Types, ReqTypes
<1>2. \A p : Step(c, p) => req'[c].pc = p /\ req'[c].id = req[c].id
  BY <1>1 DEF Step
<1>3. Reply(c) => req'[c].pc = "idle"
  BY <1>1 DEF Reply, NoReq
<1>4. \A p, r : req' = [req EXCEPT ![c].pc = p, ![c].stale = r] => req'[c].pc = p /\ req'[c].stale = r
  BY <1>1
<1>5. \A p, r : req' = [req EXCEPT ![c].pc = p, ![c].id = r] => req'[c].pc = p /\ req'[c].id = r
  BY <1>1
<1>6. \A p, r : req' = [req EXCEPT ![c].pc = p, ![c].id = r, ![c].stale = NoId] =>
                   req'[c].pc = p /\ req'[c].id = r
  BY <1>1
<1>. QED
  BY <1>2, <1>3, <1>4, <1>5, <1>6 DEF Done

\* A handler that decides goes on to lock the one open meeting, or takes no lock.
LEMMA DecideOwns ==
    ASSUME Types, NEW c \in Clients, req[c].op # "resume", NEW act \in Open \cup {NoId},
           Decide(c, act), Open' = Open
    PROVE  Harmless(c)'
<1>1. CASE Reply(c)
  BY <1>1, StepPlace DEF Harmless
<1>2. ASSUME NEW p \in {"insert", "lock", "end"}, NEW r, p = "lock" => r \in Open,
             req' = [req EXCEPT ![c].pc = p, ![c].id = r, ![c].stale = NoId]
      PROVE  Harmless(c)'
  <2>1. req'[c].pc = p /\ req'[c].id = r
    BY <1>2, StepPlace
  <2>2. r \in Open => Open \subseteq {r}
    BY DEF Types, TableTypes, OneOpen
  <2>. QED
    BY <1>2, <2>1, <2>2 DEF Harmless
<1>3. \/ Reply(c)
      \/ \E p \in {"insert", "lock", "end"} : \E r :
            /\ p = "lock" => r \in Open
            /\ req' = [req EXCEPT ![c].pc = p, ![c].id = r, ![c].stale = NoId]
  BY DEF Decide
<1>. QED
  BY <1>1, <1>2, <1>3

LEMMA HandlerOwns ==
    ASSUME Types, OneClient, NoResume, LoopShut, UnlockedKept, Owned, NEW c \in Clients, Handler(c)
    PROVE  LoopShut' /\ UnlockedKept' /\ Owned'
<1>1. UNCHANGED <<tick, det>>
  BY HandlerMoves, HandlerApps
<1>2. req[c].op # "resume" /\ req[c].pc # "reopen"
  BY DEF NoResume
<1>3. CASE Resolve(c) \/ MostRecent(c)
  <2>1. UNCHANGED <<table, manual>> /\ req[c].pc # "lock"
    BY <1>3 DEF Resolve, MostRecent, In
  <2>2. Open' = Open /\ LastOpen \in Open \cup {NoId}
    BY <2>1, OpenSame, LastOpenId DEF Types
  <2>3. \/ \E act \in Open \cup {NoId} : Decide(c, act)
        \/ manual \notin Open /\ req' = [req EXCEPT ![c].pc = "clear", ![c].stale = manual]
        \/ Step(c, "recent") \/ Reply(c)
    BY <1>3, <2>2 DEF Resolve, MostRecent
  <2>4. Harmless(c)'
    <3>1. CASE \E act \in Open \cup {NoId} : Decide(c, act)
      BY <1>2, <2>2, <3>1, DecideOwns
    <3>2. CASE manual \notin Open /\ req' = [req EXCEPT ![c].pc = "clear", ![c].stale = manual]
      <4>1. req'[c].pc = "clear" /\ req'[c].stale = manual
        BY <3>2, StepPlace
      <4>. QED
        BY <2>2, <3>2, <4>1 DEF Harmless
    <3>3. CASE Step(c, "recent") \/ Reply(c)
      BY <3>3, StepPlace DEF Harmless
    <3>. QED
      BY <2>3, <3>1, <3>2, <3>3
  <2>. QED
    BY <1>1, <2>1, <2>2, <2>4, HandlerStays
<1>4. CASE ClearStale(c) \/ TrailClear(c)
  <2>1. /\ UNCHANGED table /\ req[c].pc \in {"clear", "trailClear"}
        /\ manual' = manual \/ manual = req[c].stale
    BY <1>4 DEF ClearStale, TrailClear, In
  <2>2. Open' = Open
    BY <2>1, OpenSame
  <2>3. Harmless(c)'
    BY <1>4, StepPlace DEF ClearStale, TrailClear, Harmless
  <2>4. ASSUME NEW r \in Open', manual = r
        PROVE  manual' = r \/ InHand(r)
    <3>1. manual' = manual \/ manual = req[c].stale
      BY <1>4 DEF ClearStale, TrailClear
    <3>. QED
      BY <2>1, <2>2, <2>4, <3>1 DEF UnlockedKept, Unlocking
  <2>. QED
    BY <1>1, <2>1, <2>2, <2>3, <2>4, HandlerStays
<1>5. CASE StopUnlock(c)
  <2>1. /\ UNCHANGED table /\ req[c].pc = "unlock" /\ Step(c, "flag")
        /\ manual' = manual \/ manual = req[c].id
    BY <1>5 DEF StopUnlock, In
  <2>2. Open' = Open
    BY <2>1, OpenSame
  <2>3. Harmless(c)'
    BY <2>1, StepPlace DEF Harmless
  <2>4. \A r \in Open' : manual = r => manual' = r \/ InHand(r)
    BY <2>1, <2>2 DEF UnlockedKept, Unlocking
  <2>. QED
    BY <1>1, <2>1, <2>2, <2>3, <2>4, HandlerStays
<1>6. CASE SetFlag(c) \/ Trail(c) \/ StopSignal(c)
  <2>1. /\ UNCHANGED <<table, manual>> /\ req[c].pc # "lock"
        /\ \/ Step(c, "trail") \/ Done(c) \/ Reply(c)
           \/ manual \notin Open /\ req' = [req EXCEPT ![c].pc = "trailClear", ![c].stale = manual]
    BY <1>6 DEF SetFlag, Trail, StopSignal, In
  <2>2. Open' = Open
    BY <2>1, OpenSame
  <2>3. Harmless(c)'
    <3>1. CASE Step(c, "trail") \/ Done(c) \/ Reply(c)
      BY <3>1, StepPlace DEF Harmless
    <3>2. CASE manual \notin Open /\ req' = [req EXCEPT ![c].pc = "trailClear", ![c].stale = manual]
      <4>1. req'[c].pc = "trailClear" /\ req'[c].stale = manual
        BY <3>2, StepPlace
      <4>. QED
        BY <2>2, <3>2, <4>1 DEF Harmless
    <3>. QED
      BY <2>1, <3>1, <3>2
  <2>. QED
    BY <1>1, <2>1, <2>2, <2>3, HandlerStays
<1>7. CASE StartInsert(c)
  <2>1. manual' = manual /\ req[c].pc = "insert"
    BY <1>7 DEF StartInsert, In
  <2>2. CASE (\E app \in Names : Insert(app, "user")) /\ req' = [req EXCEPT ![c].pc = "lock", ![c].id = NewId]
    <3>1. Open' = {NewId} /\ req'[c].pc = "lock" /\ req'[c].id = NewId
      BY <2>2, InsertOpen, StepPlace
    <3>. QED
      BY <1>1, <3>1, HandlerKeeps DEF Harmless, Locking
  <2>3. CASE Reply(c) /\ UNCHANGED table
    <3>1. Open' = Open /\ Harmless(c)'
      BY <2>3, OpenSame, StepPlace DEF Harmless
    <3>. QED
      BY <1>1, <2>1, <3>1, HandlerStays
  <2>. QED
    BY <1>7, <2>2, <2>3 DEF StartInsert
<1>8. CASE StartLock(c)
  <2>1. /\ UNCHANGED table /\ manual' = req[c].id /\ req[c].pc = "lock" /\ Step(c, "flag")
    BY <1>8 DEF StartLock, In
  <2>2. Open' = Open /\ Harmless(c)'
    BY <2>1, OpenSame, StepPlace DEF Harmless
  <2>3. \A r \in Open' : manual' = r \/ InHand(r)
    BY <2>1, <2>2 DEF UnlockedKept, Unlocking
  <2>. QED
    BY <1>1, <2>2, <2>3, HandlerKeeps
<1>9. CASE StopEnd(c)
  <2>1. manual' = manual /\ req[c].pc = "end"
    BY <1>9 DEF StopEnd, In
  <2>2. \/ End(req[c].id, "explicit_stop") /\ (Step(c, "unlock") \/ Reply(c))
        \/ Reply(c) /\ UNCHANGED table
    BY <1>9 DEF StopEnd
  <2>3. Open' \subseteq Open /\ (End(req[c].id, "explicit_stop") => req[c].id \notin Open')
    BY <2>2, EndOpen, OpenSame
  <2>4. Harmless(c)'
    BY <2>2, <2>3, StepPlace DEF Harmless
  <2>. QED
    BY <1>1, <2>1, <2>3, <2>4, HandlerStays
<1>10. ~StartReopen(c)
  BY <1>2 DEF StartReopen, In
<1>. QED
  BY <1>3, <1>4, <1>5, <1>6, <1>7, <1>8, <1>9, <1>10 DEF Handler


LEMMA CallOwns ==
    ASSUME Types, OneClient, LoopShut, Owned, NEW c \in Clients, NEW op \in Ops,
           NEW r \in Ids \cup {NoId}, Call(c, op, r)
    PROVE  LoopShut' /\ UnlockedKept' /\ Owned'
<1>1. /\ UNCHANGED <<table, manual, tick, det>> /\ req[c].pc = "idle"
      /\ req' = [req EXCEPT ![c] = [NoReq EXCEPT !.op = op, !.pc = "resolve", !.id = r]]
  BY DEF Call, In, loopVars
<1>2. PICK q : q = [NoReq EXCEPT !.op = op, !.pc = "resolve", !.id = r]
  OBVIOUS
<1>3. q.pc = "resolve"
  BY <1>2 DEF NoReq
<1>4. req'[c] = q
  BY <1>1, <1>2 DEF Types, ReqTypes
<1>5. Open' = Open /\ Harmless(c)'
  BY <1>1, <1>3, <1>4, OpenSame DEF Harmless
<1>. QED
  BY <1>1, <1>5, HandlerStays

\* No request that resumes a meeting is under way.
LEMMA ResumeStays ==
    ASSUME Types, "resume" \notin Ops, NoResume, [Next]_vars
    PROVE  NoResume'
<1>1. req \in [Clients -> [op : AllOps \cup {"none"}, pc : Places, id : Ids \cup {NoId},
                           stale : Ids \cup {NoId}, aged : BOOLEAN]]
  BY DEF Types, ReqTypes
<1>2. CASE UNCHANGED req \/ Restart
  BY <1>2 DEF NoResume, Restart, NoReq
<1>3. CASE DrainStop
  <2>. SUFFICES ASSUME NEW c \in Clients
                PROVE  req'[c].op = req[c].op /\ req'[c].pc = req[c].pc
    BY DEF NoResume
  <2>1. req'[c] = [req[c] EXCEPT !.aged = req[c].pc # "idle"]
    BY <1>3 DEF DrainStop
  <2>2. req[c] \in [op : AllOps \cup {"none"}, pc : Places, id : Ids \cup {NoId},
                    stale : Ids \cup {NoId}, aged : BOOLEAN]
    BY <1>1
  <2>. QED
    BY <2>1, <2>2
<1>4. ASSUME NEW c \in Clients, NEW op \in Ops, NEW r \in Ids \cup {NoId}, Call(c, op, r)
      PROVE  NoResume'
  <2>1. PICK q : q = [NoReq EXCEPT !.op = op, !.pc = "resolve", !.id = r]
    OBVIOUS
  <2>2. q.pc = "resolve" /\ q.op = op /\ op # "resume"
    BY <2>1 DEF NoReq
  <2>3. \A d \in Clients : req'[d] = IF d = c THEN q ELSE req[d]
    BY <1>1, <1>4, <2>1 DEF Call
  <2>. QED
    BY <2>2, <2>3 DEF NoResume
<1>5. ASSUME NEW c \in Clients, Handler(c)
      PROVE  NoResume'
  <2>1. Moved(c)
    BY <1>5, HandlerMoves
  <2>2. \A p : Step(c, p) => req'[c].pc = p /\ req'[c].op = req[c].op
    BY <1>1 DEF Step
  <2>3. Reply(c) => req'[c].pc = "idle" /\ req'[c].op = "none"
    BY <1>1 DEF Reply, NoReq
  <2>4. Done(c) => req'[c].pc \in {"idle", "signal"} /\ req'[c].op \in {req[c].op, "none"}
    BY <2>2, <2>3 DEF Done
  <2>5. ASSUME NEW p, NEW r, req' = [req EXCEPT ![c].pc = p, ![c].stale = r]
        PROVE  req'[c].pc = p /\ req'[c].op = req[c].op
    BY <1>1, <2>5
  <2>6. ASSUME NEW p, NEW r, req' = [req EXCEPT ![c].pc = p, ![c].id = r]
        PROVE  req'[c].pc = p /\ req'[c].op = req[c].op
    BY <1>1, <2>6
  <2>. SUFFICES req'[c].pc # "reopen" /\ req'[c].op \in {req[c].op, "none"}
    BY <2>1 DEF NoResume, Moved
  <2>7. ASSUME NEW act, Decide(c, act)
        PROVE  req'[c].pc # "reopen" /\ req'[c].op \in {req[c].op, "none"}
    <3>1. \/ Reply(c)
          \/ \E p \in {"insert", "lock", "end"} : \E r :
                req' = [req EXCEPT ![c].pc = p, ![c].id = r, ![c].stale = NoId]
      BY <2>7 DEF Decide, NoResume
    <3>2. ASSUME NEW p \in {"insert", "lock", "end"}, NEW r,
                 req' = [req EXCEPT ![c].pc = p, ![c].id = r, ![c].stale = NoId]
          PROVE  req'[c].pc = p /\ req'[c].op = req[c].op
      BY <1>1, <3>2
    <3>. QED
      BY <2>3, <3>1, <3>2
  <2>8. CASE Resolve(c) \/ MostRecent(c) \/ ClearStale(c)
    BY <2>2, <2>3, <2>5, <2>7, <2>8 DEF Resolve, MostRecent, ClearStale
  <2>9. CASE StartInsert(c) \/ StartLock(c) \/ StopEnd(c) \/ StopUnlock(c)
    <3>1. \/ Step(c, "flag") \/ Step(c, "unlock") \/ Reply(c)
          \/ req' = [req EXCEPT ![c].pc = "lock", ![c].id = NewId]
      BY <2>9 DEF StartInsert, StartLock, StopEnd, StopUnlock
    <3>2. CASE req' = [req EXCEPT ![c].pc = "lock", ![c].id = NewId]
      BY <2>6, <3>2
    <3>. QED
      BY <2>2, <2>3, <3>1, <3>2
  <2>10. CASE SetFlag(c) \/ Trail(c) \/ TrailClear(c) \/ StopSignal(c)
    <3>1. \/ Step(c, "trail") \/ Done(c) \/ Reply(c)
          \/ req' = [req EXCEPT ![c].pc = "trailClear", ![c].stale = manual]
      BY <2>10 DEF SetFlag, Trail, TrailClear, StopSignal
    <3>2. CASE req' = [req EXCEPT ![c].pc = "trailClear", ![c].stale = manual]
      BY <2>5, <3>2
    <3>. QED
      BY <2>2, <2>3, <2>4, <3>1, <3>2
  <2>11. ~StartReopen(c)
    BY DEF StartReopen, In, NoResume
  <2>. QED
    BY <1>5, <2>8, <2>9, <2>10, <2>11 DEF Handler
<1>6. CASE Loop \/ Shutdown \/ Age
  BY <1>2, <1>3, <1>6 DEF Loop, CloseOrphans, Reattach, DrainAutoEnd, AutoEnd, AutoUnlock, Suspend,
     GoScan, Scan, FindRecent, ReopenRecent, InsertNew, EndTracked, LoopResolve, LoopClear,
     SyncFlag, Shutdown, Age
<1>7. ASSUME NEW r \in Ids, Delete(r) \/ RequestAutoEnd(r)
      PROVE  NoResume'
  BY <1>2, <1>7 DEF Delete, RequestAutoEnd
<1>. QED
  BY <1>2, <1>4, <1>5, <1>6, <1>7 DEF Next, vars

LEMMA OwnStep ==
    ASSUME Types, OneClient, "resume" \notin Ops, Timely, OwnHeld, [Next]_vars
    PROVE  OwnHeld'
<1>1. NoResume /\ NoResume'
  BY ResumeStays DEF OwnHeld
<1>. SUFFICES ASSUME Intact'
              PROVE  LoopShut' /\ UnlockedKept' /\ Owned'
  BY <1>1 DEF OwnHeld
<1>2. Intact /\ ~DbError
  BY NextPaid, IntactEarlier, FaultShows DEF vars, Intact
<1>3. LoopShut /\ UnlockedKept /\ Owned
  BY <1>2 DEF OwnHeld
<1>4. CASE UNCHANGED vars
  BY <1>3, <1>4 DEF vars, LoopShut, UnlockedKept, Owned, InHand, Unlocking, Locking, Tracks, Tracking,
     Open, Ids
<1>5. CASE Loop
  BY <1>2, <1>3, <1>5, LoopOwns, OwnersKept
<1>6. CASE Shutdown \/ Restart
  <2>1. tick'.pc \in {"off", "boot"}
    BY <1>6 DEF Shutdown, Restart, Goto, NoTick, Types, LoopTypes
  <2>. QED
    BY <2>1 DEF LoopShut, UnlockedKept, Owned, InHand
<1>7. ASSUME UNCHANGED <<manual, tick, det, req>>, Open' \subseteq Open
      PROVE  LoopShut' /\ UnlockedKept' /\ Owned'
  <2>1. Keeps /\ LockSame /\ SameRequests
    BY <1>7 DEF Keeps, InHand, Tracks, Tracking, LockSame, SameRequests
  <2>. QED
    BY <1>3, <1>7, <2>1, OwnersKept DEF LoopShut
<1>8. CASE Age
  BY <1>7, <1>8 DEF Age, loopVars, Open, Ids
<1>9. ASSUME NEW r \in Ids, Delete(r) \/ RequestAutoEnd(r)
      PROVE  LoopShut' /\ UnlockedKept' /\ Owned'
  <2>1. UNCHANGED <<manual, tick, det, req>> /\ Open' \subseteq Open
    BY <1>9, DeleteOpen, OpenSame DEF Delete, RequestAutoEnd, loopVars
  <2>. QED
    BY <1>7, <2>1
<1>. QED
  BY <1>1, <1>3, <1>4, <1>5, <1>6, <1>8, <1>9, HandlerOwns, CallOwns DEF Next

\* Whenever no request is in flight and the loop sleeps, every open meeting is the manual
\* one or the one the loop follows, until a statement fails: whatever the order in which
\* the loop and the handlers find, insert, reopen, end and lock meetings, and whatever the
\* deletes, automatic ends, shutdowns and restarts.  One request is in flight at a time,
\* none resumes a meeting, and no stop signal is drained for a meeting reopened since.
THEOREM OpenIsOwned ==
    ASSUME OneClient, "resume" \notin Ops
    PROVE  Spec /\ []Timely => [](Intact => OpenOwned)
<1>1. Init => OwnHeld
  <2>1. Init => \A c \in Clients : req[c] = NoReq
    BY DEF Init
  <2>2. NoReq.op = "none" /\ NoReq.pc = "idle"
    BY DEF NoReq
  <2>3. Init => Open = {} /\ tick.pc = "boot"
    BY DEF Init, Open, Ids, NoTick
  <2>. QED
    BY <2>1, <2>2, <2>3 DEF OwnHeld, NoResume, LoopShut, UnlockedKept, Owned
<1>2. Types /\ Timely /\ OwnHeld /\ [Next]_vars => OwnHeld'
  BY OwnStep
<1>3. OwnHeld => (Intact => OpenOwned)
  BY DEF OwnHeld, Owned, InHand, Locking, OpenOwned, Quiet
<1>. QED
  BY <1>1, <1>2, <1>3, TypeInvariant, PTL DEF Spec
=============================================================================
