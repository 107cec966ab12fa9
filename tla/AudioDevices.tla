---------------------------- MODULE AudioDevices ----------------------------
(***************************************************************************)
(* Which microphones and speakers are recorded (screenpipe-audio).  The     *)
(* device monitor, a loop with a pass every two seconds, compares what      *)
(* should be recorded with what is (device_monitor.rs); requests pause and  *)
(* resume single devices, the watcher of protected content stops and        *)
(* restarts the outputs, and the whole manager is stopped and started       *)
(* around meetings (manager.rs).  They share the maps of DeviceManager and  *)
(* the recording handles without a common lock, and opening a stream takes  *)
(* long.                                                                    *)
(*                                                                          *)
(* Every opening of a device has an id, which stands for its AudioStream,   *)
(* its is_running flag and, once spawned, the task that records it.         *)
(***************************************************************************)
EXTENDS Naturals, FiniteSets

CONSTANTS
    Inputs, Outputs, \* the devices there may be; the output is never unplugged
    Pinned,          \* inputs in the settings (enabled_devices)
    None,            \* no device
    Modes,           \* use_system_default_audio: subset of BOOLEAN
    Requests,        \* subset of {"pause", "resume", "stop", "start", "drm"}
    MaxIds,          \* bound: openings of one device in use at once
    MaxEvents,       \* bound: events of the hardware and the system,
    MaxManualEvents, \* and the same when the system's default is not followed
    MaxRequests      \* bound: requests

Devices == Inputs \cup Outputs
Ids     == 1..MaxIds
Callers == {"monitor", "user", "watcher"}   \* who calls start_device

ASSUME ConstantsAssumption ==
    /\ Inputs \cap Outputs = {} /\ Cardinality(Outputs) <= 1 /\ None \notin Devices
    /\ Pinned \subseteq Inputs
    /\ Modes \subseteq BOOLEAN
    /\ Requests \subseteq {"pause", "resume", "stop", "start", "drm"}
    /\ MaxIds \in Nat \ {0} /\ {MaxEvents, MaxManualEvents, MaxRequests} \subseteq Nat

VARIABLES
    available, \* the devices the system lists
    default,   \* its default input
    wake,      \* stream_invalidation: NEEDS_INVALIDATION
    status,    \* AudioManagerStatus is Running
    follow,    \* use_system_default_audio
    enabled,   \* enabled_devices
    disabled,  \* user_disabled_devices
    stream, flag, \* the maps `streams` and `states` of DeviceManager: ids
    handle,    \* recording_handles
    on,        \* openings whose is_running flag is set
    dead,      \* openings whose stream is disconnected
    rec,       \* openings that are being recorded
    call,      \* the start_device each caller is in
    mon,       \* the device monitor
    watcher,   \* monitor_watcher's part for protected content
    drm,       \* protected content is in front
    drmStopped,\* drm_stopped_devices
    events, requests

table  == <<stream, flag, handle, on, dead, rec>>
system == <<available, default, wake, drm>>
admin  == <<status, follow>>
vars   == <<system, admin, enabled, disabled, table, call, mon, watcher,
            drmStopped, events, requests>>

NoCall == [dev |-> None, pc |-> "none"]
NoSubstitute == [name |-> None, for |-> None]

\* A monitor just spawned; its memory is gone when it is aborted.
Fresh == [pc |-> "top", why |-> "none", name |-> None, todo |-> {}, snap |-> {},
          avail |-> {}, disc |-> {}, synced |-> FALSE, last |-> default,
          missing |-> {}, sub |-> NoSubstitute]
Off   == [Fresh EXCEPT !.pc = "off", !.last = None]

Places == {"off", "top", "sync", "change", "input", "output", "stale",
           "reconnect", "each", "sweep", "call"}
Reasons == {"none", "sync", "change", "input", "output", "default", "again",
            "each", "substitute"}

TypeOK ==
    /\ available \subseteq Devices
    /\ default \in (available \cap Inputs) \cup {None}
    /\ {wake, status, follow, drm} \subseteq BOOLEAN
    /\ enabled \subseteq Devices /\ disabled \subseteq Devices
    /\ \A m \in {stream, flag, handle} : m \in [Devices -> Ids \cup {0}]
    /\ \A s \in {on, dead, rec} : s \subseteq Devices \X Ids
    /\ call \in [Callers -> [dev : Devices \cup {None}, pc : {"none", "check", "open"}]]
    /\ mon.pc \in Places /\ mon.why \in Reasons
    /\ \A s \in {mon.todo, mon.snap, mon.avail, mon.disc, mon.missing} : s \subseteq Devices
    /\ (mon.pc = "call") <=> (call["monitor"].pc # "none")
    /\ mon.sub.name \in Inputs \cup {None}
    /\ watcher.pc \in {"calm", "stopping", "paused", "restarting"}
    /\ watcher.list \subseteq Outputs /\ drmStopped \subseteq Outputs
    /\ events \in Nat /\ requests \in 0..MaxRequests

Init ==
    /\ available = Devices
    /\ default \in Inputs
    /\ wake = FALSE /\ drm = FALSE
    /\ status = TRUE /\ follow \in Modes
    /\ enabled = Pinned \cup Outputs /\ disabled = {}
    /\ stream = [d \in Devices |-> 0] /\ flag = stream /\ handle = stream
    /\ on = {} /\ dead = {} /\ rec = {}
    /\ call = [p \in Callers |-> NoCall]
    /\ mon = Fresh
    /\ watcher = [pc |-> "calm", list |-> {}]
    /\ drmStopped = {}
    /\ events = 0 /\ requests = 0

-----------------------------------------------------------------------------
(* The maps.                                                                *)

Running(d)   == <<d, flag[d]>> \in on
Streaming(d) == Running(d) /\ stream[d] # 0 /\ <<d, stream[d]>> \notin dead
Finished     == {d \in Devices : handle[d] # 0 /\ <<d, handle[d]>> \notin rec}
Recorded(d)  == \E g \in Ids : <<d, g>> \in rec /\ <<d, g>> \notin dead

\* The default device of d's kind.
DefaultOf(d) == IF d \in Inputs THEN default
                ELSE IF d \in available THEN d ELSE None

\* stop_device_recording: the flag is cleared first, so DeviceManager takes
\* the device for stopped already and leaves its stream in the map.
StopRecording(S) ==
    /\ on' = on \ {<<d, flag[d]>> : d \in S}
    /\ handle' = [d \in Devices |-> IF d \in S THEN 0 ELSE handle[d]]
    /\ UNCHANGED <<stream, flag, dead, rec>>

\* AudioManager::stop_device.
StopDevices(S) == StopRecording(S) /\ enabled' = enabled \ S

\* Mutation: the handle is dropped, the device is left marked running.
CleanUpHandle(S) ==
    /\ handle' = [d \in Devices |-> IF d \in S THEN 0 ELSE handle[d]]
    /\ UNCHANGED <<stream, flag, on, dead, rec>>

\* cleanup_stale_device, and the loop of stop_output_devices: here a device
\* that runs has its stream stopped and removed.
CleanUp(S) ==
    LET live == {d \in S : Running(d)} IN
    /\ on' = on \ {<<d, flag[d]>> : d \in live}
    /\ dead' = dead \cup {<<d, stream[d]>> : d \in {e \in live : stream[e] # 0}}
    /\ stream' = [d \in Devices |-> IF d \in live THEN 0 ELSE stream[d]]
    /\ handle' = [d \in Devices |-> IF d \in S THEN 0 ELSE handle[d]]
    /\ UNCHANGED <<flag, rec>>

-----------------------------------------------------------------------------
(* start_device, for each of its callers: a check, the opening of the       *)
(* stream, and the end.                                                     *)

\* What the monitor does with the outcome of the start it is in.
After(ok) ==
    LET m == [mon EXCEPT !.why = "none", !.name = None]
        dev == call["monitor"].dev
    IN CASE mon.why = "sync"    -> [m EXCEPT !.pc = "change", !.last = IF ok THEN dev ELSE @]
         [] mon.why = "change"  -> [m EXCEPT !.pc = "input"]
         [] mon.why = "input"   -> [m EXCEPT !.pc = "output", !.last = IF ok THEN dev ELSE @]
         [] mon.why = "output"  -> [m EXCEPT !.pc = "stale"]
         [] mon.why \in {"default", "again"} ->
              IF ok THEN [m EXCEPT !.pc = "reconnect", !.disc = @ \ {mon.name}]
              ELSE [m EXCEPT !.pc = "reconnect"]
         [] mon.why = "each"    -> [m EXCEPT !.pc = "each"]
         [] mon.why = "substitute" ->
              [m EXCEPT !.pc = "top",
                        !.sub = IF ok THEN [name |-> dev, for |-> mon.name] ELSE @]

\* A start that fails for the default device is tried for the device itself.
Return(p, ok) ==
    CASE p = "monitor" /\ mon.why = "default" /\ ~ok ->
            /\ call' = [call EXCEPT !["monitor"] = [dev |-> mon.name, pc |-> "check"]]
            /\ mon' = [mon EXCEPT !.why = "again"]
      [] p = "monitor" /\ (mon.why # "default" \/ ok) ->
            /\ call' = [call EXCEPT !["monitor"] = NoCall]
            /\ mon' = After(ok)
      [] OTHER -> call' = [call EXCEPT ![p] = NoCall] /\ UNCHANGED mon

\* The tail of start_device: a recording is spawned unless there is a handle.
\* Only openings that a map or a recording still refers to are kept.
Record(d, s, f) ==
    /\ stream' = s /\ flag' = f
    /\ LET fresh == handle[d] = 0
           g == f[d]
           r2 == IF fresh THEN rec \cup {<<d, g>>} ELSE rec
           live == r2 \cup {<<e, s[e]>> : e \in Devices} \cup {<<e, f[e]>> : e \in Devices}
       IN /\ rec' = r2
          /\ handle' = IF fresh THEN [handle EXCEPT ![d] = g] ELSE handle
          /\ on' = (IF fresh THEN on \cup {<<d, g>>} ELSE on) \cap live
          /\ dead' = dead \cap live
    /\ enabled' = enabled \cup {d}

\* Mutation: devices the user has paused are started.
StartCheckAny(p) ==
    /\ call[p].pc = "check"
    /\ LET d == call[p].dev IN
       \/ /\ d \in drmStopped
          /\ Return(p, TRUE) /\ UNCHANGED <<table, enabled>>
       \/ /\ d \notin drmStopped /\ d \notin available
          /\ Return(p, FALSE) /\ UNCHANGED <<table, enabled>>
       \/ /\ d \notin drmStopped /\ d \in available /\ Running(d)
          /\ Record(d, stream, flag) /\ Return(p, TRUE)
       \/ /\ d \notin drmStopped /\ d \in available /\ ~Running(d)
          /\ call' = [call EXCEPT ![p].pc = "open"]
          /\ UNCHANGED <<table, enabled, mon>>
    /\ UNCHANGED <<system, admin, disabled, watcher, drmStopped, events, requests>>

\* A device that is paused is passed over with success; one that is not
\* listed is an error; one that runs is only looked after.
StartCheck(p) ==
    /\ call[p].pc = "check"
    /\ LET d == call[p].dev
           barred == d \in drmStopped \cup disabled
       IN \/ /\ barred
             /\ Return(p, TRUE) /\ UNCHANGED <<table, enabled>>
          \/ /\ ~barred /\ d \notin available
             /\ Return(p, FALSE) /\ UNCHANGED <<table, enabled>>
          \/ /\ ~barred /\ d \in available /\ Running(d)
             /\ Record(d, stream, flag) /\ Return(p, TRUE)
          \/ /\ ~barred /\ d \in available /\ ~Running(d)
             /\ call' = [call EXCEPT ![p].pc = "open"]
             /\ UNCHANGED <<table, enabled, mon>>
    /\ UNCHANGED <<system, admin, disabled, watcher, drmStopped, events, requests>>

\* Bound: ids are used again once nothing refers to them.
FreeIds(d) == {g \in Ids : g \notin {stream[d], flag[d], handle[d]} /\ <<d, g>> \notin rec}

StartOpened(p) ==
    /\ call[p].pc = "open"
    /\ LET d == call[p].dev IN
       /\ FreeIds(d) # {}
       /\ LET g == CHOOSE g \in FreeIds(d) : \A h \in FreeIds(d) : g <= h
          IN Record(d, [stream EXCEPT ![d] = g], [flag EXCEPT ![d] = g])
    /\ Return(p, TRUE)
    /\ UNCHANGED <<system, admin, disabled, watcher, drmStopped, events, requests>>

Event == /\ events < (IF follow THEN MaxEvents ELSE MaxManualEvents)
         /\ events' = events + 1

\* AudioStream::from_device fails: always, once the device is gone.
StartFails(p) ==
    /\ call[p].pc = "open"
    /\ IF call[p].dev \in available THEN Event ELSE UNCHANGED events
    /\ Return(p, FALSE)
    /\ UNCHANGED <<system, admin, enabled, disabled, table, watcher, drmStopped, requests>>

-----------------------------------------------------------------------------
(* The hardware and the system.                                             *)

Unplug(d) ==
    /\ Event /\ d \in available \cap Inputs
    /\ available' = available \ {d}
    /\ IF d # default THEN UNCHANGED default
       ELSE IF available' \cap Inputs = {} THEN default' = None
       ELSE default' \in available' \cap Inputs
    /\ UNCHANGED <<wake, drm, admin, enabled, disabled, table, call, mon, watcher,
                   drmStopped, requests>>

Plug(d) ==
    /\ Event /\ d \in Inputs \ available
    /\ available' = available \cup {d}
    /\ default' \in {default, d} \ {None}
    /\ UNCHANGED <<wake, drm, admin, enabled, disabled, table, call, mon, watcher,
                   drmStopped, requests>>

SwitchDefault(d) ==
    /\ Event /\ d \in (available \cap Inputs) \ {default}
    /\ default' = d
    /\ UNCHANGED <<available, wake, drm, admin, enabled, disabled, table, call, mon,
                   watcher, drmStopped, requests>>

Wake ==
    /\ Event /\ ~wake /\ wake' = TRUE
    /\ UNCHANGED <<available, default, drm, admin, enabled, disabled, table, call, mon,
                   watcher, drmStopped, requests>>

\* A stream dies with its device, or is taken over by another program.
StreamDies(d, g) ==
    /\ g = stream[d] \/ <<d, g>> \in rec
    /\ <<d, g>> \notin dead
    /\ IF d \in available THEN Event ELSE UNCHANGED events
    /\ dead' = dead \cup {<<d, g>>}
    /\ UNCHANGED <<system, admin, enabled, disabled, stream, flag, handle, on, rec, call,
                   mon, watcher, drmStopped, requests>>

\* The recording task ends: its flag is cleared or its stream is dead, or it
\* meets an error of its own.
RecorderEnds(d, g) ==
    /\ <<d, g>> \in rec
    /\ IF <<d, g>> \in on \ dead THEN Event ELSE UNCHANGED events
    /\ rec' = rec \ {<<d, g>>}
    /\ IF g \in {stream[d], flag[d]} THEN UNCHANGED <<on, dead>>
       ELSE on' = on \ {<<d, g>>} /\ dead' = dead \ {<<d, g>>}
    /\ UNCHANGED <<system, admin, enabled, disabled, stream, flag, handle, call, mon,
                   watcher, drmStopped, requests>>

-----------------------------------------------------------------------------
(* Requests of the user and of the program.                                 *)

Request(r) == r \in Requests /\ requests < MaxRequests /\ requests' = requests + 1

Pause(d) ==
    /\ Request("pause")
    /\ disabled' = disabled \cup {d} /\ StopRecording({d})
    /\ UNCHANGED <<system, admin, enabled, call, mon, watcher, drmStopped, events>>

Resume(d) ==
    /\ Request("resume") /\ d \in disabled /\ call["user"] = NoCall
    /\ disabled' = disabled \ {d}
    /\ call' = [call EXCEPT !["user"] = [dev |-> d, pc |-> "check"]]
    /\ UNCHANGED <<system, admin, enabled, table, mon, watcher, drmStopped, events>>

\* stop: the monitor is aborted wherever it is, the openings of others are not.
StopAll ==
    /\ Request("stop") /\ status
    /\ status' = FALSE
    /\ mon' = Off /\ call' = [call EXCEPT !["monitor"] = NoCall]
    /\ on' = on \ {<<d, flag[d]>> : d \in Devices}
    /\ dead' = (dead \cup {<<d, stream[d]>> : d \in {e \in Devices : Running(e) /\ stream[e] # 0}})
               \cap rec
    /\ stream' = [d \in Devices |-> 0] /\ flag' = stream' /\ handle' = stream'
    /\ UNCHANGED <<system, follow, enabled, disabled, rec, watcher, drmStopped, events>>

StartAll ==
    /\ Request("start") /\ ~status
    /\ status' = TRUE /\ mon' = Fresh
    /\ UNCHANGED <<system, follow, enabled, disabled, table, call, watcher, drmStopped, events>>

-----------------------------------------------------------------------------
(* Protected content: monitor_watcher stops the outputs while it is in front *)
(* and restarts what it has stopped.                                        *)

ProtectedContent ==
    /\ drm' = ~drm
    /\ IF drm THEN UNCHANGED requests ELSE Request("drm")
    /\ UNCHANGED <<available, default, wake, admin, enabled, disabled, table, call, mon,
                   watcher, drmStopped, events>>

\* Mutation: the microphones are stopped too.
DrmStopAll ==
    LET outs == {d \in Devices : handle[d] # 0} IN
    /\ watcher.pc = "calm" /\ drm
    /\ CleanUp(outs)
    /\ watcher' = [pc |-> IF outs = {} THEN "paused" ELSE "stopping", list |-> outs]
    /\ UNCHANGED <<system, admin, enabled, disabled, call, mon, drmStopped, events, requests>>

\* stop_output_devices remembers what it has stopped after having stopped it.
DrmStop ==
    LET outs == {d \in Outputs : handle[d] # 0} IN
    /\ watcher.pc = "calm" /\ drm
    /\ CleanUp(outs)
    /\ watcher' = [pc |-> IF outs = {} THEN "paused" ELSE "stopping", list |-> outs]
    /\ UNCHANGED <<system, admin, enabled, disabled, call, mon, drmStopped, events, requests>>

DrmStored ==
    /\ watcher.pc = "stopping"
    /\ drmStopped' = watcher.list
    /\ watcher' = [pc |-> "paused", list |-> {}]
    /\ UNCHANGED <<system, admin, enabled, disabled, table, call, mon, events, requests>>

\* Mutation: the list is read and not taken.
DrmClearKeeps ==
    /\ watcher.pc = "paused" /\ ~drm
    /\ watcher' = [pc |-> "restarting", list |-> drmStopped]
    /\ UNCHANGED <<system, admin, enabled, disabled, table, call, mon, drmStopped, events,
                   requests>>

DrmClear ==
    /\ watcher.pc = "paused" /\ ~drm
    /\ watcher' = [pc |-> "restarting", list |-> drmStopped]
    /\ drmStopped' = {}
    /\ UNCHANGED <<system, admin, enabled, disabled, table, call, mon, events, requests>>

DrmRestart ==
    /\ watcher.pc = "restarting" /\ call["watcher"] = NoCall
    /\ IF watcher.list = {} THEN watcher' = [watcher EXCEPT !.pc = "calm"] /\ UNCHANGED call
       ELSE \E d \in watcher.list :
              /\ watcher' = [watcher EXCEPT !.list = @ \ {d}]
              /\ call' = [call EXCEPT !["watcher"] = [dev |-> d, pc |-> "check"]]
    /\ UNCHANGED <<system, admin, enabled, disabled, table, mon, drmStopped, events, requests>>

-----------------------------------------------------------------------------
(* The device monitor: one pass through its loop, a step between two of its  *)
(* starts of a device.  Its error backoff is left to chance.                 *)

monFrame == <<system, admin, disabled, watcher, drmStopped, events, requests>>

\* The monitor starts a device, for a reason; name is what it remembers it by.
Start(m, d, why, name) ==
    /\ mon' = [m EXCEPT !.pc = "call", !.why = why, !.name = name]
    /\ call' = [call EXCEPT !["monitor"] = [dev |-> d, pc |-> "check"]]

Go(m) == mon' = m /\ UNCHANGED call

At(place) == mon.pc = place

\* The top of the loop.  A wake-up cycles every enabled device instead.
MonitorTop ==
    /\ At("top")
    /\ \/ /\ wake
          /\ wake' = FALSE
          /\ StopRecording(enabled)
          /\ Go([mon EXCEPT !.disc = @ \cup enabled])
       \/ /\ ~wake
          /\ Go([mon EXCEPT !.pc = IF follow THEN "sync" ELSE "stale",
                            !.snap = enabled, !.avail = available])
          /\ UNCHANGED <<wake, table>>
    /\ UNCHANGED <<available, default, drm, admin, disabled, enabled, watcher, drmStopped,
                   events, requests>>

\* Once, when defaults are followed: the default input, and no other, records.
Sync ==
    /\ At("sync")
    /\ IF mon.synced \/ default = None \/ Streaming(default)
       THEN Go([mon EXCEPT !.pc = "change", !.synced = TRUE]) /\ UNCHANGED <<table, enabled>>
       ELSE /\ StopDevices(enabled \cap Inputs)
            /\ Start([mon EXCEPT !.synced = TRUE], default, "sync", None)
    /\ UNCHANGED monFrame

\* The default input has changed: the inputs of the pass are stopped.
Change ==
    /\ At("change")
    /\ LET m == [mon EXCEPT !.last = default] IN
       IF default \in {mon.last, None} \cup disabled
       THEN Go([m EXCEPT !.pc = "input"]) /\ UNCHANGED <<table, enabled>>
       ELSE StopDevices(mon.snap \cap Inputs) /\ Start(m, default, "change", None)
    /\ UNCHANGED monFrame

\* No enabled input is streaming: the default one is started.
EnsureInput ==
    /\ At("input")
    /\ IF (\E d \in enabled \cap Inputs : Streaming(d)) \/ default \in disabled \cup {None}
       THEN Go([mon EXCEPT !.pc = "output"])
       ELSE Start(mon, default, "input", None)
    /\ UNCHANGED <<monFrame, table, enabled>>

\* The same for the output, after a while when that has failed before.
EnsureOutput ==
    /\ At("output")
    /\ \/ Go([mon EXCEPT !.pc = "stale"])
       \/ \E o \in Outputs \ disabled :
             ~(o \in enabled /\ Streaming(o)) /\ Start(mon, o, "output", None)
    /\ UNCHANGED <<monFrame, table, enabled>>

\* Recordings that have ended are cleaned up and, unless the user has paused
\* them, started again with all that are disconnected.
Stale ==
    /\ At("stale")
    /\ CleanUp(Finished)
    /\ LET disc == (mon.disc \cup Finished) \ disabled IN
       Go([mon EXCEPT !.pc = "reconnect", !.disc = disc, !.todo = disc])
    /\ UNCHANGED <<monFrame, enabled>>

Reconnect ==
    /\ At("reconnect")
    /\ \/ mon.todo = {} /\ Go([mon EXCEPT !.pc = "each", !.todo = mon.snap, !.snap = {}])
       \/ \E d \in mon.todo :
            LET m == [mon EXCEPT !.todo = @ \ {d}] IN
            IF follow /\ DefaultOf(d) # None THEN Start(m, DefaultOf(d), "default", d)
            ELSE Start(m, d, "again", d)
    /\ UNCHANGED <<monFrame, table, enabled>>

\* Every device of the pass is stopped when it is gone, started otherwise.
Each ==
    /\ At("each")
    /\ \/ mon.todo = {} /\ Go([mon EXCEPT !.pc = "sweep", !.avail = {}]) /\ UNCHANGED <<table, enabled>>
       \/ \E d \in mon.todo :
            LET m == [mon EXCEPT !.todo = @ \ {d}] IN
            IF Running(d) /\ mon.avail # {} /\ d \notin mon.avail
            THEN StopDevices({d}) /\ Go([m EXCEPT !.disc = @ \cup {d}])
            ELSE /\ UNCHANGED <<table, enabled>>
                 /\ IF d \in enabled \ disabled THEN Start(m, d, "each", None) ELSE Go(m)
    /\ UNCHANGED monFrame

\* Mutation: the substitute is forgotten and goes on recording.
SweepForgets ==
    /\ At("sweep")
    /\ LET pinned == (enabled \cap Inputs) \ disabled
           missing == {d \in pinned : handle[d] = 0}
           m == [mon EXCEPT !.missing = IF follow THEN {} ELSE missing, !.pc = "top"]
           clear == mon.sub.name # None
                    /\ (handle[mon.sub.for] # 0 \/ mon.sub.for \notin pinned)
           engage(p) == /\ mon.sub.name = None /\ \A d \in Inputs : handle[d] = 0
                        /\ p \in missing \cap mon.missing
                        /\ default \notin {None, p} \cup disabled
       IN \/ ~follow /\ clear /\ Go([m EXCEPT !.sub = NoSubstitute])
          \/ ~follow /\ \E p \in Inputs : engage(p) /\ Start(m, default, "substitute", p)
          \/ (follow \/ ~(clear \/ \E p \in Inputs : engage(p))) /\ Go(m)
    /\ UNCHANGED <<monFrame, table, enabled>>

\* Manual mode only: while no input records and an enabled one has been
\* missing for the grace time (two passes), the default input substitutes it,
\* until it is back or is no longer enabled.
Sweep ==
    /\ At("sweep")
    /\ LET pinned == (enabled \cap Inputs) \ disabled
           missing == {d \in pinned : handle[d] = 0}
           m == [mon EXCEPT !.missing = IF follow THEN {} ELSE missing, !.pc = "top"]
           clear == mon.sub.name # None
                    /\ (handle[mon.sub.for] # 0 \/ mon.sub.for \notin pinned)
           engage(p) == /\ mon.sub.name = None /\ \A d \in Inputs : handle[d] = 0
                        /\ p \in missing \cap mon.missing
                        /\ default \notin {None, p} \cup disabled
       IN \/ ~follow /\ clear /\ StopDevices({mon.sub.name}) /\ Go([m EXCEPT !.sub = NoSubstitute])
          \/ /\ ~follow /\ \E p \in Inputs : engage(p) /\ Start(m, default, "substitute", p)
             /\ UNCHANGED <<table, enabled>>
          \/ /\ follow \/ ~(clear \/ \E p \in Inputs : engage(p))
             /\ Go(m) /\ UNCHANGED <<table, enabled>>
    /\ UNCHANGED monFrame

-----------------------------------------------------------------------------
Monitor == \/ MonitorTop \/ Sync \/ Change \/ EnsureInput \/ EnsureOutput
           \/ Stale \/ Reconnect \/ Each \/ Sweep
Opening(p) == StartCheck(p) \/ StartOpened(p) \/ StartFails(p)
DrmWatcher == DrmStop \/ DrmStored \/ DrmClear \/ DrmRestart

Next ==
    \/ Monitor \/ DrmWatcher
    \/ \E p \in Callers : Opening(p)
    \/ \E d \in Devices, g \in Ids : StreamDies(d, g) \/ RecorderEnds(d, g)
    \/ \E d \in Inputs : Unplug(d) \/ Plug(d) \/ SwitchDefault(d)
    \/ Wake \/ ProtectedContent \/ StopAll \/ StartAll
    \/ \E d \in Devices : Pause(d) \/ Resume(d)

Spec == Init /\ [][Next]_vars

\* The monitor and the watcher are loops that sleep between passes; an opening
\* ends; a recorder polls its flag, and a stream whose device is gone times out.
Fairness ==
    /\ WF_vars(Monitor) /\ WF_vars(DrmWatcher)
    /\ \A p \in Callers : WF_vars(Opening(p))
    /\ \A d \in Devices, g \in Ids :
          /\ WF_vars(<<d, g>> \notin on \ dead /\ RecorderEnds(d, g))
          /\ WF_vars(d \notin available /\ StreamDies(d, g))

FairSpec == Spec /\ Fairness

-----------------------------------------------------------------------------
(* Properties.                                                              *)

\* What is being recorded and has not been told to stop.
Live(d) == {g \in Ids : <<d, g>> \in rec \cap on}

\* What is or will be recorded of d although it is paused: a recording, or an opening
\* that was under way when the pause came.
Opens(d)  == \E p \in Callers : call[p].pc = "open" /\ call[p].dev = d
Silent(d) == Live(d) = {} /\ ~Opens(d)

\* A pause holds once it has taken hold: a paused device that neither records nor is being
\* opened stays so until it is resumed, whoever restarts devices meanwhile: the monitor,
\* the end of protected content, a resume of another (manager.rs, pause_device and
\* start_device).
PausedStaysSilent == [][\A d \in disabled \cap disabled' : Silent(d) => Silent(d)']_vars

\* When the system's default input is followed and it is not paused, an input
\* ends up being recorded for good, whatever came before: unplugged devices,
\* streams taken over, recorders that failed (device_monitor.rs, the loop).
InputRecovers ==
    <>[](follow /\ status /\ default \notin disabled \cup {None}) =>
        <>[](\E d \in Inputs : Recorded(d))

\* The output is recorded again after protected content.
OutputReturns ==
    \A o \in Outputs :
        <>[](status /\ ~drm /\ o \notin disabled) => <>[]Recorded(o)

\* A substitute does not stay: once the pinned inputs are there for good, no
\* other one is recorded (device_monitor.rs:181-193), provided the monitor never
\* counted the substitute itself among the disconnected devices.
SubstituteLeaves ==
    [](mon.disc \subseteq Pinned) =>
        (<>[](~follow /\ status /\ Pinned \subseteq available \ disabled) =>
            <>[](\A d \in Inputs \ Pinned : ~Recorded(d)))

(* What the code does not hold.                                             *)

\* A device the user has paused is not recorded, whoever restarts devices at
\* the same time (manager.rs, pause_device): the disabled set is read before
\* the stream is opened and not again.
Quiet == \A d \in disabled : Live(d) = {}

\* Every recording can still be stopped: it is the one the flag and the handle
\* of its device stand for, so no device is recorded twice either
\* (manager.rs:499-531): two openings of one device may overlap.
InReach == \A d \in Devices : Live(d) \subseteq {flag[d]} \cap {handle[d]}

\* A substitute leaves whatever has happened to it meanwhile
\* (device_monitor.rs:181-193): the sweep stops it, but not the reconnection of
\* a device that was unplugged itself.
SubstituteNeverStays ==
    <>[](~follow /\ status /\ Pinned \subseteq available \ disabled) =>
        <>[](\A d \in Inputs \ Pinned : ~Recorded(d))

\* While protected content is in front and the watcher has stopped the
\* outputs, none is recorded (monitor_watcher.rs:81-85).
OutputsYield == drm /\ watcher.pc = "paused" => \A o \in Outputs : Live(o) = {}

\* When the pinned inputs are gone for good and there is another input, some
\* input ends up being recorded (device_monitor.rs:124-131).
SubstituteComes ==
    <>[](/\ ~follow /\ status /\ Pinned \cap available = {}
         /\ default \notin disabled \cup {None}) => <>[](\E d \in Inputs : Recorded(d))
=============================================================================
