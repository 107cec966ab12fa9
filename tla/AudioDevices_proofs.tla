------------------------ MODULE AudioDevices_proofs ------------------------
(***************************************************************************)
(* Theorems about AudioDevices, for any devices, any number of openings,    *)
(* events and requests.                                                     *)
(***************************************************************************)
EXTENDS AudioDevices, LeastElement, TLAPS

Memory ==
    [pc : Places, why : Reasons, name : Devices \cup {None}, todo : SUBSET Devices,
     snap : SUBSET Devices, avail : SUBSET Devices, disc : SUBSET Devices, synced : BOOLEAN,
     last : Devices \cup {None}, missing : SUBSET Devices,
     sub : [name : Inputs \cup {None}, for : Devices \cup {None}]]

SystemTypes ==
    /\ available \subseteq Devices /\ default \in (available \cap Inputs) \cup {None}
    /\ wake \in BOOLEAN /\ drm \in BOOLEAN

AdminTypes == status \in BOOLEAN /\ follow \in BOOLEAN /\ disabled \subseteq Devices

ChoiceTypes == enabled \subseteq Devices

TableTypes ==
    /\ stream \in [Devices -> Ids \cup {0}] /\ flag \in [Devices -> Ids \cup {0}]
    /\ handle \in [Devices -> Ids \cup {0}]
    /\ on \subseteq Devices \X Ids /\ dead \subseteq Devices \X Ids /\ rec \subseteq Devices \X Ids

\* Only a device that the system lists is opened.
CallTypes ==
    /\ call \in [Callers -> [dev : Devices \cup {None}, pc : {"none", "check", "open"}]]
    /\ \A p \in Callers : call[p].pc = "open" => call[p].dev \in Devices

\* The monitor waits for a start exactly while it is in one, and knows why; it is off
\* as long as the manager is stopped.
MonTypes ==
    /\ mon \in Memory
    /\ (mon.pc = "call") <=> (call["monitor"].pc # "none")
    /\ mon.pc = "call" => mon.why # "none"
    /\ mon.pc = "call" /\ mon.why = "substitute" => call["monitor"].dev \in Inputs
    /\ ~status => mon.pc = "off"

WatcherTypes ==
    /\ watcher \in [pc : {"calm", "stopping", "paused", "restarting"}, list : SUBSET Outputs]
    /\ drmStopped \subseteq Outputs

CountTypes == events \in Nat /\ requests \in 0..MaxRequests

Types == SystemTypes /\ AdminTypes /\ ChoiceTypes /\ TableTypes /\ CallTypes /\ MonTypes
         /\ WatcherTypes /\ CountTypes

USE ConstantsAssumption

-----------------------------------------------------------------------------
(* The maps and the recordings.                                             *)

LEMMA InitTypes == Init => Types
<1>. SUFFICES ASSUME Init
              PROVE  Types
  OBVIOUS
<1>0. SystemTypes
  BY DEF Init, SystemTypes, Devices
<1>1. AdminTypes /\ ChoiceTypes /\ CountTypes
  <2>1. AdminTypes
    BY DEF Init, AdminTypes
  <2>2. ChoiceTypes
    BY DEF Init, ChoiceTypes, Devices
  <2>3. CountTypes
    BY DEF Init, CountTypes
  <2>. QED
    BY <2>1, <2>2, <2>3
<1>2. TableTypes /\ WatcherTypes
  BY DEF Init, TableTypes, WatcherTypes
<1>3. CallTypes /\ call["monitor"].pc = "none"
  BY DEF Init, CallTypes, NoCall, Callers
<1>4. mon \in Memory /\ mon.pc = "top"
  BY DEF Init, Fresh, Memory, NoSubstitute, Places, Reasons, Devices
<1>5. MonTypes
  BY <1>3, <1>4 DEF MonTypes, Init
<1>. QED
  BY <1>0, <1>1, <1>2, <1>3, <1>5 DEF Types

LEMMA StopRecordingTypes ==
    ASSUME TableTypes, NEW S \in SUBSET Devices, StopRecording(S)
    PROVE  TableTypes'
  BY DEF TableTypes, StopRecording

LEMMA CleanUpTypes ==
    ASSUME TableTypes, NEW S \in SUBSET Devices, CleanUp(S)
    PROVE  TableTypes'
<1>1. stream' \in [Devices -> Ids \cup {0}] /\ handle' \in [Devices -> Ids \cup {0}]
  BY DEF TableTypes, CleanUp
<1>2. on' \subseteq Devices \X Ids
  BY DEF TableTypes, CleanUp
<1>3. dead' \subseteq Devices \X Ids
  BY DEF TableTypes, CleanUp
<1>. QED
  BY <1>1, <1>2, <1>3 DEF TableTypes, CleanUp

\* What the end of a start leaves in the maps: an opening g of the device that is started.
LEMMA RecordTypes ==
    ASSUME TableTypes, ChoiceTypes, NEW d \in Devices,
           NEW s \in [Devices -> Ids \cup {0}], NEW f \in [Devices -> Ids \cup {0}], f[d] \in Ids,
           Record(d, s, f)
    PROVE  TableTypes' /\ ChoiceTypes'
<1>1. stream' = s /\ flag' = f /\ enabled' = enabled \cup {d}
  BY DEF Record
<1>2. handle' \in [Devices -> Ids \cup {0}] /\ rec' \subseteq Devices \X Ids
  BY DEF Record, TableTypes
<1>3. on' \subseteq Devices \X Ids
  BY DEF Record, TableTypes
<1>4. dead' \subseteq Devices \X Ids
  BY DEF Record, TableTypes
<1>. QED
  BY <1>1, <1>2, <1>3, <1>4 DEF TableTypes, ChoiceTypes

\* The opening that a start takes is a free one.
LEMMA FreshId ==
    ASSUME TableTypes, NEW d \in Devices, FreeIds(d) # {}
    PROVE  (CHOOSE g \in FreeIds(d) : \A h \in FreeIds(d) : g <= h) \in FreeIds(d)
<1>1. FreeIds(d) \subseteq Nat
  BY DEF FreeIds, Ids
<1>2. \E g \in FreeIds(d) : \A h \in FreeIds(d) : g <= h
  BY <1>1, Least
<1>. QED
  BY <1>2

-----------------------------------------------------------------------------
(* Starts of a device.                                                      *)

LEMMA GoTypes ==
    ASSUME Types, mon.pc \notin {"call", "off"}, NEW m \in Memory, m.pc # "call", Go(m), UNCHANGED status
    PROVE  CallTypes' /\ MonTypes'
  BY DEF Types, CallTypes, MonTypes, Go

LEMMA StartTypes ==
    ASSUME Types, mon.pc \notin {"call", "off"}, NEW m \in Memory, NEW d \in Devices,
           NEW why \in Reasons \ {"none"}, NEW name \in Devices \cup {None},
           why = "substitute" => d \in Inputs, Start(m, d, why, name), UNCHANGED status
    PROVE  CallTypes' /\ MonTypes'
<1>1. mon' \in Memory /\ mon'.pc = "call" /\ mon'.why = why
  BY DEF Start, Memory, Places
<1>2. "monitor" \in Callers
  BY DEF Callers
<1>3. CallTypes' /\ call'["monitor"] = [dev |-> d, pc |-> "check"]
  BY <1>2 DEF Types, CallTypes, Start
<1>. QED
  BY <1>1, <1>3 DEF Types, MonTypes

LEMMA AfterTypes ==
    ASSUME Types, mon.pc = "call", NEW ok \in BOOLEAN
    PROVE  After(ok) \in Memory /\ After(ok).pc # "call"
<1>1. mon \in Memory /\ mon.why \in Reasons \ {"none"}
  BY DEF Types, MonTypes, Memory
<1>2. call["monitor"].dev \in Devices \cup {None}
  BY DEF Types, CallTypes, Callers
<1>3. mon.why = "substitute" => call["monitor"].dev \in Inputs
  BY DEF Types, MonTypes
<1>4. CASE mon.why = "sync" \/ mon.why = "input"
  BY <1>1, <1>2, <1>4 DEF After, Memory, Places, Reasons
<1>5. CASE mon.why = "change" \/ mon.why = "output" \/ mon.why = "each"
  BY <1>1, <1>2, <1>5 DEF After, Memory, Places, Reasons
<1>6. CASE mon.why \in {"default", "again"}
  BY <1>1, <1>2, <1>6 DEF After, Memory, Places, Reasons
<1>7. CASE mon.why = "substitute"
  BY <1>1, <1>2, <1>3, <1>7 DEF After, Memory, Places, Reasons
<1>. QED
  BY <1>1, <1>4, <1>5, <1>6, <1>7 DEF Reasons

\* A caller returns from its start, or the monitor tries another device.
LEMMA ReturnTypes ==
    ASSUME Types, NEW p \in Callers, call[p].pc # "none", NEW ok \in BOOLEAN, Return(p, ok),
           UNCHANGED status
    PROVE  CallTypes' /\ MonTypes'
<1>0. "monitor" \in Callers /\ mon \in Memory
  BY DEF Callers, Types, MonTypes
<1>1. CASE p = "monitor" /\ mon.why = "default" /\ ~ok
  <2>1. /\ call' = [call EXCEPT !["monitor"] = [dev |-> mon.name, pc |-> "check"]]
        /\ mon' = [mon EXCEPT !.why = "again"]
    BY <1>1 DEF Return
  <2>2. CallTypes' /\ call'["monitor"].pc = "check"
    BY <1>0, <2>1 DEF Types, CallTypes, Memory
  <2>3. mon' \in Memory /\ mon'.pc = mon.pc /\ mon'.why = "again"
    BY <1>0, <2>1 DEF Memory, Reasons
  <2>. QED
    BY <1>1, <2>2, <2>3 DEF Types, MonTypes
<1>2. CASE p = "monitor" /\ (mon.why # "default" \/ ok)
  <2>1. call' = [call EXCEPT !["monitor"] = NoCall] /\ mon' = After(ok)
    BY <1>2 DEF Return
  <2>2. CallTypes' /\ call'["monitor"].pc = "none"
    BY <1>0, <2>1 DEF Types, CallTypes, NoCall
  <2>3. mon.pc = "call" /\ status
    BY <1>2 DEF Types, MonTypes, AdminTypes
  <2>. QED
    BY <2>1, <2>2, <2>3, AfterTypes DEF MonTypes
<1>3. CASE p # "monitor"
  <2>1. call' = [call EXCEPT ![p] = NoCall] /\ UNCHANGED mon
    BY <1>3 DEF Return
  <2>. QED
    BY <1>0, <1>3, <2>1 DEF Types, CallTypes, MonTypes, NoCall
<1>. QED
  BY <1>1, <1>2, <1>3

-----------------------------------------------------------------------------
(* Types, step by step.                                                     *)

\* A group of variables that a step leaves alone keeps its types.
LEMMA Kept ==
    ASSUME Types
    PROVE  /\ UNCHANGED system => SystemTypes'
           /\ UNCHANGED <<admin, disabled>> => AdminTypes'
           /\ UNCHANGED enabled => ChoiceTypes'
           /\ UNCHANGED table => TableTypes'
           /\ UNCHANGED <<call, mon, status>> => CallTypes' /\ MonTypes'
           /\ UNCHANGED <<watcher, drmStopped>> => WatcherTypes'
           /\ UNCHANGED <<events, requests>> => CountTypes'
<1>1. UNCHANGED system => SystemTypes'
  BY DEF Types, SystemTypes, system
<1>2. UNCHANGED <<admin, disabled>> => AdminTypes'
  BY DEF Types, AdminTypes, admin
<1>3. UNCHANGED enabled => ChoiceTypes'
  BY DEF Types, ChoiceTypes
<1>4. UNCHANGED table => TableTypes'
  BY DEF Types, TableTypes, table
<1>5. UNCHANGED <<call, mon, status>> => CallTypes' /\ MonTypes'
  BY DEF Types, CallTypes, MonTypes
<1>6. UNCHANGED <<watcher, drmStopped>> => WatcherTypes'
  BY DEF Types, WatcherTypes
<1>7. UNCHANGED <<events, requests>> => CountTypes'
  BY DEF Types, CountTypes
<1>. QED
  BY <1>1, <1>2, <1>3, <1>4, <1>5, <1>6, <1>7

\* Of the monitor's steps, what their frame settles.
LEMMA MonitorTypes ==
    ASSUME Types, UNCHANGED monFrame, TableTypes', ChoiceTypes', CallTypes', MonTypes'
    PROVE  Types'
  BY Kept DEF Types, monFrame, system, admin

\* Counting an event of the hardware or a request.
LEMMA CountedTypes ==
    ASSUME Types,
           \/ Event /\ UNCHANGED requests
           \/ UNCHANGED events /\ \E r \in {"pause", "resume", "stop", "start", "drm"} : Request(r)
           \/ UNCHANGED <<events, requests>>
    PROVE  CountTypes'
<1>1. events \in Nat /\ requests \in Nat /\ MaxRequests \in Nat /\ requests <= MaxRequests
  BY DEF Types, CountTypes
<1>2. CASE Event /\ UNCHANGED requests
  BY <1>1, <1>2 DEF Event, CountTypes
<1>3. CASE UNCHANGED events /\ \E r \in {"pause", "resume", "stop", "start", "drm"} : Request(r)
  BY <1>1, <1>3 DEF Request, CountTypes
<1>4. CASE UNCHANGED <<events, requests>>
  BY <1>4, Kept
<1>. QED
  BY <1>2, <1>3, <1>4

LEMMA OpeningTypes ==
    ASSUME Types, NEW p \in Callers, Opening(p)
    PROVE  Types'
<1>. DEFINE d == call[p].dev
<1>1. CASE StartCheck(p)
  <2>1. call[p].pc = "check"
        /\ UNCHANGED <<system, admin, disabled, watcher, drmStopped, events, requests>>
    BY <1>1 DEF StartCheck
  <2>2. SystemTypes' /\ AdminTypes' /\ WatcherTypes' /\ CountTypes' /\ UNCHANGED status
    BY <2>1, Kept DEF admin
  <2>3. CASE \E ok \in BOOLEAN : Return(p, ok) /\ UNCHANGED <<table, enabled>>
    BY <2>1, <2>2, <2>3, ReturnTypes, Kept DEF Types
  <2>4. CASE d \in available /\ Running(d) /\ Record(d, stream, flag) /\ Return(p, TRUE)
    <3>1. d \in Devices /\ flag[d] \in Ids
      BY <2>4 DEF Types, SystemTypes, TableTypes, Running
    <3>2. TableTypes' /\ ChoiceTypes'
      BY <2>4, <3>1, RecordTypes DEF Types, TableTypes
    <3>. QED
      BY <2>1, <2>2, <2>4, <3>2, ReturnTypes DEF Types
  <2>5. CASE /\ d \in available /\ call' = [call EXCEPT ![p].pc = "open"]
             /\ UNCHANGED <<table, enabled, mon>>
    <3>1. CallTypes' /\ (call'["monitor"].pc # "none" <=> call["monitor"].pc # "none")
          /\ call'["monitor"].dev = call["monitor"].dev
      BY <2>1, <2>5 DEF Types, SystemTypes, CallTypes, Callers
    <3>2. MonTypes'
      BY <2>2, <2>5, <3>1 DEF Types, MonTypes
    <3>. QED
      BY <2>2, <2>5, <3>1, <3>2, Kept DEF Types
  <2>. QED
    BY <1>1, <2>3, <2>4, <2>5 DEF StartCheck
<1>2. CASE StartOpened(p)
  <2>. DEFINE g == CHOOSE g \in FreeIds(d) : \A h \in FreeIds(d) : g <= h
              s == [stream EXCEPT ![d] = g]
              f == [flag EXCEPT ![d] = g]
  <2>1. /\ call[p].pc = "open" /\ FreeIds(d) # {} /\ Record(d, s, f) /\ Return(p, TRUE)
        /\ UNCHANGED <<system, admin, disabled, watcher, drmStopped, events, requests>>
    BY <1>2 DEF StartOpened
  <2>2. SystemTypes' /\ AdminTypes' /\ WatcherTypes' /\ CountTypes' /\ UNCHANGED status
    BY <2>1, Kept DEF admin
  <2>3. d \in Devices
    BY <2>1 DEF Types, CallTypes
  <2>4. g \in Ids
    BY <2>1, <2>3, FreshId DEF FreeIds, Types
  <2>. HIDE DEF g
  <2>5. s \in [Devices -> Ids \cup {0}] /\ f \in [Devices -> Ids \cup {0}] /\ f[d] \in Ids
    BY <2>3, <2>4 DEF Types, TableTypes
  <2>. HIDE DEF s, f
  <2>6. TableTypes' /\ ChoiceTypes'
    BY <2>1, <2>3, <2>5, RecordTypes DEF Types
  <2>. QED
    BY <2>1, <2>2, <2>6, ReturnTypes DEF Types
<1>3. CASE StartFails(p)
  <2>1. SystemTypes' /\ AdminTypes' /\ ChoiceTypes' /\ TableTypes' /\ WatcherTypes' /\ UNCHANGED status
    BY <1>3, Kept DEF StartFails, admin
  <2>2. CountTypes'
    BY <1>3, CountedTypes DEF StartFails
  <2>3. CallTypes' /\ MonTypes'
    BY <1>3, <2>1, ReturnTypes DEF StartFails
  <2>. QED
    BY <2>1, <2>2, <2>3 DEF Types
<1>. QED
  BY <1>1, <1>2, <1>3 DEF Opening

\* The memory of the monitor, field by field.
LEMMA MemoryFields ==
    ASSUME Types
    PROVE  /\ mon \in Memory
           /\ \A s \in {mon.todo, mon.snap, mon.avail, mon.disc, mon.missing} : s \subseteq Devices
           /\ mon.name \in Devices \cup {None} /\ mon.last \in Devices \cup {None}
           /\ mon.sub.name \in Inputs \cup {None} /\ mon.sub.for \in Devices \cup {None}
  BY DEF Types, MonTypes, Memory

LEMMA MonitorStep ==
    ASSUME Types, Monitor
    PROVE  Types'
<1>. USE DEF Types
<1>0. /\ mon \in Memory /\ enabled \subseteq Devices /\ available \subseteq Devices
      /\ default \in Inputs \cup {None} /\ disabled \subseteq Devices
      /\ mon.todo \subseteq Devices /\ mon.snap \subseteq Devices /\ mon.disc \subseteq Devices
      /\ mon.sub.name \in Inputs \cup {None}
      /\ Inputs \subseteq Devices /\ Outputs \subseteq Devices
  BY MemoryFields DEF SystemTypes, AdminTypes, ChoiceTypes, Devices
<1>a. {"sync", "change", "input", "output", "default", "again", "each", "substitute"}
        \subseteq Reasons \ {"none"}
  BY DEF Reasons
<1>1. CASE MonitorTop
  <2>1. mon.pc = "top" /\ UNCHANGED <<available, default, drm, admin, disabled, enabled, watcher,
                                      drmStopped, events, requests>>
    BY <1>1 DEF MonitorTop, At
  <2>2. AdminTypes' /\ ChoiceTypes' /\ WatcherTypes' /\ CountTypes' /\ UNCHANGED status
    BY <2>1, Kept DEF admin
  <2>3. wake' \in BOOLEAN /\ TableTypes'
    BY <1>0, <1>1, StopRecordingTypes, Kept DEF MonitorTop, SystemTypes
  <2>4. SystemTypes'
    BY <2>1, <2>3 DEF SystemTypes
  <2>5. \E m \in Memory : m.pc # "call" /\ Go(m)
    <3>1. [mon EXCEPT !.disc = @ \cup enabled] \in Memory
          /\ [mon EXCEPT !.disc = @ \cup enabled].pc = "top"
      BY <1>0, <2>1 DEF Memory
    <3>2. ASSUME NEW place \in {"sync", "stale"}
          PROVE  [mon EXCEPT !.pc = place, !.snap = enabled, !.avail = available] \in Memory
                 /\ [mon EXCEPT !.pc = place, !.snap = enabled, !.avail = available].pc = place
      BY <1>0 DEF Memory, Places
    <3>. QED
      BY <1>1, <3>1, <3>2 DEF MonitorTop
  <2>. QED
    BY <2>1, <2>2, <2>3, <2>4, <2>5, GoTypes
<1>2. CASE Sync
  <2>1. mon.pc = "sync" /\ UNCHANGED monFrame /\ UNCHANGED status
    BY <1>2 DEF Sync, At, monFrame, admin
  <2>2. CASE Go([mon EXCEPT !.pc = "change", !.synced = TRUE]) /\ UNCHANGED <<table, enabled>>
    <3>1. [mon EXCEPT !.pc = "change", !.synced = TRUE] \in Memory
          /\ [mon EXCEPT !.pc = "change", !.synced = TRUE].pc = "change"
      BY <1>0 DEF Memory, Places
    <3>. QED
      BY <2>1, <2>2, <3>1, GoTypes, Kept, MonitorTypes
  <2>3. CASE default # None /\ StopDevices(enabled \cap Inputs)
             /\ Start([mon EXCEPT !.synced = TRUE], default, "sync", None)
    <3>1. [mon EXCEPT !.synced = TRUE] \in Memory
      BY <1>0 DEF Memory
    <3>2. TableTypes' /\ ChoiceTypes'
      BY <1>0, <2>3, StopRecordingTypes DEF StopDevices, ChoiceTypes
    <3>3. CallTypes' /\ MonTypes'
      BY <1>0, <1>a, <2>1, <2>3, <3>1, StartTypes
    <3>. QED
      BY <2>1, <3>2, <3>3, MonitorTypes
  <2>. QED
    BY <1>2, <2>2, <2>3 DEF Sync
<1>3. CASE Change
  <2>. DEFINE m == [mon EXCEPT !.last = default]
  <2>1. mon.pc = "change" /\ UNCHANGED monFrame /\ UNCHANGED status
    BY <1>3 DEF Change, At, monFrame, admin
  <2>2. m \in Memory /\ [m EXCEPT !.pc = "input"] \in Memory
        /\ [m EXCEPT !.pc = "input"].pc = "input"
    BY <1>0 DEF Memory, Places
  <2>3. CASE Go([m EXCEPT !.pc = "input"]) /\ UNCHANGED <<table, enabled>>
    BY <2>1, <2>2, <2>3, GoTypes, Kept, MonitorTypes
  <2>4. CASE default # None /\ StopDevices(mon.snap \cap Inputs) /\ Start(m, default, "change", None)
    <3>1. TableTypes' /\ ChoiceTypes'
      BY <1>0, <2>4, StopRecordingTypes DEF StopDevices, ChoiceTypes
    <3>2. CallTypes' /\ MonTypes'
      BY <1>0, <1>a, <2>1, <2>2, <2>4, StartTypes
    <3>. QED
      BY <2>1, <3>1, <3>2, MonitorTypes
  <2>. QED
    BY <1>3, <2>3, <2>4 DEF Change
<1>4. CASE EnsureInput
  <2>1. mon.pc = "input" /\ UNCHANGED monFrame /\ UNCHANGED status /\ UNCHANGED <<table, enabled>>
    BY <1>4 DEF EnsureInput, At, monFrame, admin
  <2>2. [mon EXCEPT !.pc = "output"] \in Memory /\ [mon EXCEPT !.pc = "output"].pc = "output"
    BY <1>0 DEF Memory, Places
  <2>3. CASE Go([mon EXCEPT !.pc = "output"])
    BY <2>1, <2>2, <2>3, GoTypes, Kept, MonitorTypes
  <2>4. CASE default # None /\ Start(mon, default, "input", None)
    <3>1. CallTypes' /\ MonTypes'
      BY <1>0, <1>a, <2>1, <2>4, StartTypes
    <3>. QED
      BY <2>1, <3>1, Kept, MonitorTypes
  <2>. QED
    BY <1>4, <2>3, <2>4 DEF EnsureInput
<1>5. CASE EnsureOutput
  <2>1. mon.pc = "output" /\ UNCHANGED monFrame /\ UNCHANGED status /\ UNCHANGED <<table, enabled>>
    BY <1>5 DEF EnsureOutput, At, monFrame, admin
  <2>2. [mon EXCEPT !.pc = "stale"] \in Memory /\ [mon EXCEPT !.pc = "stale"].pc = "stale"
    BY <1>0 DEF Memory, Places
  <2>3. CASE Go([mon EXCEPT !.pc = "stale"])
    BY <2>1, <2>2, <2>3, GoTypes, Kept, MonitorTypes
  <2>4. ASSUME NEW o \in Outputs, Start(mon, o, "output", None)
        PROVE  Types'
    <3>1. CallTypes' /\ MonTypes'
      BY <1>0, <1>a, <2>1, <2>4, StartTypes
    <3>. QED
      BY <2>1, <3>1, Kept, MonitorTypes
  <2>. QED
    BY <1>5, <2>3, <2>4 DEF EnsureOutput
<1>6. CASE Stale
  <2>. DEFINE disc == (mon.disc \cup Finished) \ disabled
              m == [mon EXCEPT !.pc = "reconnect", !.disc = disc, !.todo = disc]
  <2>1. mon.pc = "stale" /\ UNCHANGED monFrame /\ UNCHANGED status /\ UNCHANGED enabled
        /\ CleanUp(Finished) /\ Go(m)
    BY <1>6 DEF Stale, At, monFrame, admin
  <2>2. Finished \subseteq Devices
    BY DEF Finished
  <2>3. m \in Memory /\ m.pc = "reconnect"
    BY <1>0, <2>2 DEF Memory, Places
  <2>. HIDE DEF m
  <2>. QED
    BY <2>1, <2>2, <2>3, GoTypes, CleanUpTypes, Kept, MonitorTypes
<1>7. CASE Reconnect
  <2>1. mon.pc = "reconnect" /\ UNCHANGED monFrame /\ UNCHANGED status /\ UNCHANGED <<table, enabled>>
    BY <1>7 DEF Reconnect, At, monFrame, admin
  <2>2. CASE Go([mon EXCEPT !.pc = "each", !.todo = mon.snap, !.snap = {}])
    <3>1. [mon EXCEPT !.pc = "each", !.todo = mon.snap, !.snap = {}] \in Memory
          /\ [mon EXCEPT !.pc = "each", !.todo = mon.snap, !.snap = {}].pc = "each"
      BY <1>0 DEF Memory, Places
    <3>. QED
      BY <2>1, <2>2, <3>1, GoTypes, Kept, MonitorTypes
  <2>3. ASSUME NEW d \in mon.todo, NEW e \in Devices, NEW why \in {"default", "again"},
               Start([mon EXCEPT !.todo = @ \ {d}], e, why, d)
        PROVE  Types'
    <3>1. [mon EXCEPT !.todo = @ \ {d}] \in Memory
      BY <1>0 DEF Memory
    <3>2. CallTypes' /\ MonTypes'
      BY <1>0, <1>a, <2>1, <2>3, <3>1, StartTypes
    <3>. QED
      BY <2>1, <3>2, Kept, MonitorTypes
  <2>4. \A d \in mon.todo : d \in Devices /\ (DefaultOf(d) # None => DefaultOf(d) \in Devices)
    BY <1>0 DEF DefaultOf
  <2>. QED
    BY <1>7, <2>2, <2>3, <2>4 DEF Reconnect
<1>8. CASE Each
  <2>1. mon.pc = "each" /\ UNCHANGED monFrame /\ UNCHANGED status
    BY <1>8 DEF Each, At, monFrame, admin
  <2>2. CASE Go([mon EXCEPT !.pc = "sweep", !.avail = {}]) /\ UNCHANGED <<table, enabled>>
    <3>1. [mon EXCEPT !.pc = "sweep", !.avail = {}] \in Memory
          /\ [mon EXCEPT !.pc = "sweep", !.avail = {}].pc = "sweep"
      BY <1>0 DEF Memory, Places
    <3>. QED
      BY <2>1, <2>2, <3>1, GoTypes, Kept, MonitorTypes
  <2>3. ASSUME NEW d \in mon.todo
        PROVE  LET m == [mon EXCEPT !.todo = @ \ {d}]
               IN  /\ m \in Memory /\ m.pc = mon.pc /\ [m EXCEPT !.disc = @ \cup {d}] \in Memory
                   /\ [m EXCEPT !.disc = @ \cup {d}].pc = mon.pc
                   /\ d \in Devices
    <3>. DEFINE m == [mon EXCEPT !.todo = @ \ {d}]
    <3>1. m \in Memory /\ m.pc = mon.pc /\ d \in Devices
      BY <1>0 DEF Memory
    <3>. HIDE DEF m
    <3>2. [m EXCEPT !.disc = @ \cup {d}] \in Memory /\ [m EXCEPT !.disc = @ \cup {d}].pc = m.pc
      BY <3>1 DEF Memory
    <3>. QED
      BY <3>1, <3>2 DEF m
  <2>4. ASSUME NEW d \in mon.todo, StopDevices({d}),
               Go([[mon EXCEPT !.todo = @ \ {d}] EXCEPT !.disc = @ \cup {d}])
        PROVE  Types'
    <3>1. TableTypes' /\ ChoiceTypes'
      BY <1>0, <2>3, <2>4, StopRecordingTypes DEF StopDevices, ChoiceTypes
    <3>. QED
      BY <2>1, <2>3, <2>4, <3>1, GoTypes, MonitorTypes
  <2>5. ASSUME NEW d \in mon.todo, UNCHANGED <<table, enabled>>,
               \/ Start([mon EXCEPT !.todo = @ \ {d}], d, "each", None)
               \/ Go([mon EXCEPT !.todo = @ \ {d}])
        PROVE  Types'
    <3>1. CallTypes' /\ MonTypes'
      BY <1>a, <2>1, <2>3, <2>5, StartTypes, GoTypes
    <3>. QED
      BY <2>1, <2>5, <3>1, Kept, MonitorTypes
  <2>. QED
    BY <1>8, <2>2, <2>4, <2>5 DEF Each
<1>9. CASE Sweep
  <2>. DEFINE pinned == (enabled \cap Inputs) \ disabled
              missing == {d \in pinned : handle[d] = 0}
              m == [mon EXCEPT !.missing = IF follow THEN {} ELSE missing, !.pc = "top"]
  <2>1. mon.pc = "sweep" /\ UNCHANGED monFrame /\ UNCHANGED status
    BY <1>9 DEF Sweep, At, monFrame, admin
  <2>2. (IF follow THEN {} ELSE missing) \in SUBSET Devices
    BY <1>0
  <2>3. m \in Memory /\ m.pc = "top"
        /\ [m EXCEPT !.sub = NoSubstitute] \in Memory /\ [m EXCEPT !.sub = NoSubstitute].pc = "top"
    BY <1>0, <2>2 DEF Memory, Places, NoSubstitute
  <2>4. CASE /\ mon.sub.name # None /\ StopDevices({mon.sub.name})
             /\ Go([m EXCEPT !.sub = NoSubstitute])
    <3>1. TableTypes' /\ ChoiceTypes'
      BY <1>0, <2>4, StopRecordingTypes DEF StopDevices, ChoiceTypes
    <3>. QED
      BY <2>1, <2>3, <2>4, <3>1, GoTypes, MonitorTypes
  <2>5. ASSUME NEW q \in Inputs, default # None, Start(m, default, "substitute", q),
               UNCHANGED <<table, enabled>>
        PROVE  Types'
    <3>1. CallTypes' /\ MonTypes'
      BY <1>0, <1>a, <2>1, <2>3, <2>5, StartTypes
    <3>. QED
      BY <2>1, <2>5, <3>1, Kept, MonitorTypes
  <2>6. CASE Go(m) /\ UNCHANGED <<table, enabled>>
    BY <2>1, <2>3, <2>6, GoTypes, Kept, MonitorTypes
  <2>. QED
    BY <1>9, <2>4, <2>5, <2>6 DEF Sweep
<1>. QED
  BY <1>1, <1>2, <1>3, <1>4, <1>5, <1>6, <1>7, <1>8, <1>9 DEF Monitor

LEMMA WatcherStep ==
    ASSUME Types, DrmWatcher
    PROVE  Types'
<1>. USE DEF Types
<1>1. CASE DrmStop
  <2>1. TableTypes'
    <3>1. {d \in Outputs : handle[d] # 0} \in SUBSET Devices
      BY DEF Devices
    <3>. QED
      BY <1>1, <3>1, CleanUpTypes DEF DrmStop
  <2>2. WatcherTypes'
    BY <1>1 DEF DrmStop, WatcherTypes
  <2>. QED
    BY <1>1, <2>1, <2>2, Kept DEF DrmStop, admin
<1>2. CASE DrmStored
  <2>1. WatcherTypes'
    BY <1>2 DEF DrmStored, WatcherTypes
  <2>. QED
    BY <1>2, <2>1, Kept DEF DrmStored, admin
<1>3. CASE DrmClear
  <2>1. WatcherTypes'
    BY <1>3 DEF DrmClear, WatcherTypes
  <2>. QED
    BY <1>3, <2>1, Kept DEF DrmClear, admin
<1>4. CASE DrmRestart
  <2>1. WatcherTypes'
    BY <1>4 DEF DrmRestart, WatcherTypes
  <2>2. call' = call \/ \E d \in Devices : call' = [call EXCEPT !["watcher"] = [dev |-> d, pc |-> "check"]]
    BY <1>4 DEF DrmRestart, WatcherTypes, Devices
  <2>3. CallTypes' /\ call'["monitor"] = call["monitor"]
    BY <2>2 DEF CallTypes, Callers
  <2>4. MonTypes'
    BY <1>4, <2>3 DEF DrmRestart, MonTypes, admin
  <2>. QED
    BY <1>4, <2>1, <2>3, <2>4, Kept DEF DrmRestart
<1>. QED
  BY <1>1, <1>2, <1>3, <1>4 DEF DrmWatcher

\* The hardware, the recorders and the requests.
LEMMA WorldTypes ==
    ASSUME Types, [Next]_vars, ~Monitor, ~DrmWatcher, \A p \in Callers : ~Opening(p)
    PROVE  Types'
<1>. USE DEF Types
<1>1. ASSUME NEW d \in Devices, NEW g \in Ids, StreamDies(d, g) \/ RecorderEnds(d, g)
      PROVE  Types'
  <2>1. TableTypes'
    BY <1>1 DEF StreamDies, RecorderEnds, TableTypes
  <2>2. CountTypes'
    BY <1>1, CountedTypes DEF StreamDies, RecorderEnds
  <2>. QED
    BY <1>1, <2>1, <2>2, Kept DEF StreamDies, RecorderEnds, admin
<1>2. ASSUME NEW d \in Inputs, Unplug(d) \/ Plug(d) \/ SwitchDefault(d)
      PROVE  Types'
  <2>1. SystemTypes'
    BY <1>2 DEF Unplug, Plug, SwitchDefault, SystemTypes, Devices
  <2>2. CountTypes'
    BY <1>2, CountedTypes DEF Unplug, Plug, SwitchDefault
  <2>. QED
    BY <1>2, <2>1, <2>2, Kept DEF Unplug, Plug, SwitchDefault, admin
<1>3. CASE Wake
  <2>1. SystemTypes'
    BY <1>3 DEF Wake, SystemTypes
  <2>2. CountTypes'
    BY <1>3, CountedTypes DEF Wake
  <2>. QED
    BY <1>3, <2>1, <2>2, Kept DEF Wake, admin
<1>4. CASE ProtectedContent
  <2>1. SystemTypes'
    BY <1>4 DEF ProtectedContent, SystemTypes
  <2>2. CountTypes'
    BY <1>4, CountedTypes DEF ProtectedContent
  <2>. QED
    BY <1>4, <2>1, <2>2, Kept DEF ProtectedContent, admin
<1>5. CASE StopAll
  <2>1. AdminTypes' /\ status' = FALSE
    BY <1>5 DEF StopAll, AdminTypes
  <2>2. TableTypes'
    BY <1>5 DEF StopAll, TableTypes
  <2>3. CallTypes' /\ call'["monitor"].pc = "none"
    BY <1>5 DEF StopAll, CallTypes, NoCall, Callers
  <2>4. mon' \in Memory /\ mon'.pc = "off"
    BY <1>5 DEF StopAll, Off, Fresh, Memory, NoSubstitute, Places, Reasons
  <2>5. MonTypes'
    BY <2>1, <2>3, <2>4 DEF MonTypes
  <2>6. CountTypes'
    BY <1>5, CountedTypes DEF StopAll
  <2>. QED
    BY <1>5, <2>1, <2>2, <2>3, <2>5, <2>6, Kept DEF StopAll
<1>6. CASE StartAll
  <2>1. AdminTypes' /\ status' = TRUE
    BY <1>6 DEF StartAll, AdminTypes
  <2>2. CallTypes' /\ call'["monitor"].pc = "none"
    BY <1>6 DEF StartAll, CallTypes, MonTypes, AdminTypes
  <2>3. mon' \in Memory /\ mon'.pc = "top"
    BY <1>6 DEF StartAll, Fresh, Memory, NoSubstitute, Places, Reasons, SystemTypes, Devices
  <2>4. MonTypes'
    BY <2>1, <2>2, <2>3 DEF MonTypes
  <2>5. CountTypes'
    BY <1>6, CountedTypes DEF StartAll
  <2>. QED
    BY <1>6, <2>1, <2>2, <2>4, <2>5, Kept DEF StartAll
<1>7. ASSUME NEW d \in Devices, Pause(d)
      PROVE  Types'
  <2>1. AdminTypes' /\ UNCHANGED status
    BY <1>7 DEF Pause, AdminTypes, admin
  <2>2. TableTypes'
    BY <1>7, StopRecordingTypes DEF Pause
  <2>3. CountTypes'
    BY <1>7, CountedTypes DEF Pause
  <2>. QED
    BY <1>7, <2>1, <2>2, <2>3, Kept DEF Pause
<1>8. ASSUME NEW d \in Devices, Resume(d)
      PROVE  Types'
  <2>1. AdminTypes' /\ UNCHANGED status
    BY <1>8 DEF Resume, AdminTypes, admin
  <2>2. CallTypes' /\ call'["monitor"] = call["monitor"]
    BY <1>8 DEF Resume, CallTypes, Callers
  <2>3. MonTypes'
    BY <1>8, <2>1, <2>2 DEF Resume, MonTypes
  <2>4. CountTypes'
    BY <1>8, CountedTypes DEF Resume
  <2>. QED
    BY <1>8, <2>1, <2>2, <2>3, <2>4, Kept DEF Resume
<1>9. CASE UNCHANGED vars
  BY <1>9, Kept DEF vars, admin
<1>. QED
  BY <1>1, <1>2, <1>3, <1>4, <1>5, <1>6, <1>7, <1>8, <1>9 DEF Next

LEMMA TypesStep == Types /\ [Next]_vars => Types'
  BY MonitorStep, WatcherStep, OpeningTypes, WorldTypes

THEOREM TypeInvariant == Spec => []Types
  BY InitTypes, TypesStep, PTL DEF Spec

\* Every variable keeps its type, the memory of the monitor and what it waits for included.
THEOREM TypeCorrect == Spec => []TypeOK
<1>1. Types => TypeOK
  BY MemoryFields DEF Types, TypeOK, SystemTypes, AdminTypes, ChoiceTypes, TableTypes, CallTypes,
    MonTypes, WatcherTypes, CountTypes, Memory
<1>. QED
  BY <1>1, TypeInvariant, PTL

-----------------------------------------------------------------------------
(* A paused device that has fallen silent stays so.                         *)

\* A caller that is opening a stream goes on with the device it has.
SameOpenings == \A p \in Callers : call'[p].pc = "open" => call'[p] = call[p]

\* A step that starts no recording and opens nothing.
LEMMA NothingNew ==
    ASSUME on' \subseteq on, rec' \subseteq rec, SameOpenings, NEW d, Silent(d)
    PROVE  Silent(d)'
  BY DEF Silent, Live, Opens, SameOpenings

\* The two ways of stopping a device.
LEMMA StopsOnly ==
    ASSUME NEW S, StopRecording(S) \/ CleanUp(S)
    PROVE  on' \subseteq on /\ rec' = rec
  BY DEF StopRecording, CleanUp

\* A start that returns, or turns to another device, opens nothing.
LEMMA ReturnOpens ==
    ASSUME Types, NEW p \in Callers, NEW ok \in BOOLEAN, Return(p, ok)
    PROVE  SameOpenings /\ call'[p].pc # "open"
<1>1. call \in [Callers -> [dev : Devices \cup {None}, pc : {"none", "check", "open"}]]
  BY DEF Types, CallTypes
<1>2. \E c \in {NoCall, [dev |-> mon.name, pc |-> "check"]} : call' = [call EXCEPT ![p] = c]
  BY DEF Return
<1>. QED
  BY <1>1, <1>2 DEF SameOpenings, NoCall

\* The tail of a start records the device it is about and no other.
LEMMA RecordsOne ==
    ASSUME Types, NEW e, NEW s, NEW f, Record(e, s, f), NEW d, d # e
    PROVE  Live(d)' \subseteq Live(d)
<1>1. on' \subseteq on \cup {<<e, f[e]>>} /\ rec' \subseteq rec \cup {<<e, f[e]>>}
  BY DEF Record
<1>. QED
  BY <1>1 DEF Live

LEMMA OpeningSilent ==
    ASSUME Types, NEW p \in Callers, Opening(p), NEW d \in disabled, Silent(d)
    PROVE  Silent(d)'
<1>. DEFINE e == call[p].dev
<1>0. call \in [Callers -> [dev : Devices \cup {None}, pc : {"none", "check", "open"}]]
  BY DEF Types, CallTypes
<1>1. CASE StartCheck(p)
  <2>2. CASE (\E ok \in BOOLEAN : Return(p, ok)) /\ UNCHANGED <<table, enabled>>
    BY <2>2, ReturnOpens, NothingNew DEF table
  <2>3. CASE e \notin disabled /\ Record(e, stream, flag) /\ Return(p, TRUE)
    <3>1. Live(d)' = {}
      BY <2>3, RecordsOne DEF Silent
    <3>2. SameOpenings
      BY <2>3, ReturnOpens
    <3>. QED
      BY <3>1, <3>2 DEF Silent, Opens, SameOpenings
  <2>4. CASE e \notin disabled /\ call' = [call EXCEPT ![p].pc = "open"] /\ UNCHANGED <<table, enabled, mon>>
    <3>1. Live(d)' = {}
      BY <2>4 DEF Silent, Live, table
    <3>2. call'[p].dev = e /\ \A q \in Callers \ {p} : call'[q] = call[q]
      BY <1>0, <2>4
    <3>. QED
      BY <2>4, <3>1, <3>2 DEF Silent, Opens
  <2>. QED
    BY <1>1, <2>2, <2>3, <2>4 DEF StartCheck
<1>2. CASE StartOpened(p)
  <2>1. PICK s, f : Record(e, s, f)
    BY <1>2 DEF StartOpened
  <2>2. Return(p, TRUE) /\ d # e
    BY <1>2 DEF StartOpened, Silent, Opens
  <2>3. Live(d)' = {}
    BY <2>1, <2>2, RecordsOne DEF Silent
  <2>4. SameOpenings
    BY <2>2, ReturnOpens
  <2>. QED
    BY <2>3, <2>4 DEF Silent, Opens, SameOpenings
<1>3. CASE StartFails(p)
  BY <1>3, ReturnOpens, NothingNew DEF StartFails, table
<1>. QED
  BY <1>1, <1>2, <1>3 DEF Opening

\* The monitor stops recordings and asks for starts; it opens nothing by itself.
LEMMA MonitorSilent ==
    ASSUME Types, Monitor
    PROVE  on' \subseteq on /\ rec' \subseteq rec /\ SameOpenings
<1>1. SameOpenings
  <2>1. \/ UNCHANGED call
        \/ \E e : call' = [call EXCEPT !["monitor"] = [dev |-> e, pc |-> "check"]]
    BY DEF Monitor, MonitorTop, Sync, Change, EnsureInput, EnsureOutput, Stale, Reconnect, Each,
      Sweep, Start, Go
  <2>. QED
    BY <2>1 DEF SameOpenings, Types, CallTypes
<1>2. UNCHANGED table \/ \E S : StopRecording(S) \/ CleanUp(S)
  <2>1. CASE MonitorTop
    BY <2>1 DEF MonitorTop
  <2>2. CASE Sync \/ Change
    BY <2>2 DEF Sync, Change, StopDevices
  <2>3. CASE EnsureInput \/ EnsureOutput \/ Reconnect
    BY <2>3 DEF EnsureInput, EnsureOutput, Reconnect
  <2>4. CASE Stale
    BY <2>4 DEF Stale
  <2>5. CASE Each
    BY <2>5 DEF Each, StopDevices
  <2>6. CASE Sweep
    BY <2>6 DEF Sweep, StopDevices
  <2>. QED
    BY <2>1, <2>2, <2>3, <2>4, <2>5, <2>6 DEF Monitor
<1>. QED
  BY <1>1, <1>2, StopsOnly DEF table

\* So is every step that is not one of a start.
LEMMA OthersSilent ==
    ASSUME Types, [Next]_vars, \A p \in Callers : ~Opening(p)
    PROVE  on' \subseteq on /\ rec' \subseteq rec /\ SameOpenings
<1>0. call \in [Callers -> [dev : Devices \cup {None}, pc : {"none", "check", "open"}]]
  BY DEF Types, CallTypes
<1>1. CASE DrmStop
  BY <1>1, StopsOnly DEF DrmStop, SameOpenings
<1>2. CASE DrmStored \/ DrmClear
  BY <1>2 DEF DrmStored, DrmClear, SameOpenings, table
<1>3. CASE DrmRestart
  BY <1>0, <1>3 DEF DrmRestart, SameOpenings, table
<1>4. ASSUME NEW d \in Devices, NEW g \in Ids, StreamDies(d, g) \/ RecorderEnds(d, g)
      PROVE  on' \subseteq on /\ rec' \subseteq rec /\ SameOpenings
  BY <1>4 DEF StreamDies, RecorderEnds, SameOpenings
<1>5. CASE Wake \/ ProtectedContent \/ StartAll \/ \E d \in Inputs : Unplug(d) \/ Plug(d) \/ SwitchDefault(d)
  BY <1>5 DEF Wake, ProtectedContent, StartAll, Unplug, Plug, SwitchDefault, SameOpenings, table
<1>6. CASE StopAll
  BY <1>0, <1>6 DEF StopAll, NoCall, SameOpenings
<1>7. ASSUME NEW d \in Devices, Pause(d)
      PROVE  on' \subseteq on /\ rec' \subseteq rec /\ SameOpenings
  BY <1>7, StopsOnly DEF Pause, SameOpenings
<1>8. ASSUME NEW d \in Devices, Resume(d)
      PROVE  on' \subseteq on /\ rec' \subseteq rec /\ SameOpenings
  BY <1>0, <1>8 DEF Resume, SameOpenings, table
<1>9. CASE UNCHANGED vars
  BY <1>9 DEF vars, table, SameOpenings
<1>. QED
  BY <1>1, <1>2, <1>3, <1>4, <1>5, <1>6, <1>7, <1>8, <1>9, MonitorSilent DEF Next, DrmWatcher

\* No pass of the monitor, no reconnection, no end of protected content and no other
\* request brings back a paused device that has fallen silent, also while other streams
\* are being opened: only an opening that began before the pause can.
THEOREM StaysSilent == Spec => PausedStaysSilent
<1>1. Types /\ [Next]_vars =>
        \A d \in disabled \cap disabled' : Silent(d) => Silent(d)'
  BY OpeningSilent, OthersSilent, NothingNew
<1>2. Types /\ [Next]_vars =>
        [\A d \in disabled \cap disabled' : Silent(d) => Silent(d)']_vars
  BY <1>1
<1>. QED
  BY <1>2, TypeInvariant, PTL DEF Spec, PausedStaysSilent

=============================================================================
