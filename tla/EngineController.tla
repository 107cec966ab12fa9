-------------------------- MODULE EngineController --------------------------
(***************************************************************************)
(* The macOS app supervising the capture engine: Engine.swift starts the   *)
(* engine process, watches it exit, respawns it within a budget, polls its *)
(* health and opens or closes its audio pipeline with the meeting state;   *)
(* ArchiveWindow.swift pauses and resumes it, Settings.swift restarts it   *)
(* or stops it around a deletion.  Every callback of the app runs whole on *)
(* the main thread, so each is one action; what interleaves is the timers, *)
(* the HTTP answers, the engine processes and the user.                    *)
(***************************************************************************)
EXTENDS Naturals, FiniteSets

CONSTANTS
    Engines,            \* slots for engine processes; a dead one is reused
    NoEngine,           \* pid == nil
    Polls,              \* health polls in flight at once: 3 s apart, 2 s + 2 s long
    MaxRestartAttempts, \* maxRestartAttempts
    AudioOn,            \* UserDefaults "capture.audio"
    Verdicts,           \* what the engine's /health may say: "ok", "degraded"
    MaxActs,            \* bound: clicks of the user
    MaxQuits, MaxKills, \* bounds: quits of the app, and kills of it
    MaxRevokes,         \* bound: losses of the screen recording grant
    MaxTimeouts,        \* bound: requests that outlast the client's 2 s
    MaxFails,           \* bound: audio starts that fail (model cannot be loaded)
    MaxTalks            \* bound: changes of the meeting state

ASSUME EngineAssumption ==
    /\ NoEngine \notin Engines
    /\ Verdicts \subseteq {"ok", "degraded"}
    /\ AudioOn \in BOOLEAN
    /\ {MaxRestartAttempts, MaxActs, MaxQuits, MaxKills, MaxRevokes,
        MaxTimeouts, MaxFails, MaxTalks} \subseteq Nat

VARIABLES
    \* EngineController
    appUp, status, pid, restartAttempts, restartWork, intentionalStop,
    procSource, healthTimer, micGateInMeeting,
    \* delayed work that stop() cannot reach, and the window's mirror of status
    lateStarts, wiping, resumeWork, timedPause, sink,
    \* requests in flight: one chain per poll, one POST of the microphone gate
    poll, post,
    \* the engine processes and their audio managers
    proc, termed, running, monitor, autoStart,
    \* the world, and the counters of its bounds
    meeting, granted, used

appVars == <<appUp, status, pid, restartAttempts, restartWork, intentionalStop,
             procSource, healthTimer, micGateInMeeting>>
laterVars == <<lateStarts, wiping, resumeWork, timedPause, sink>>
audioVars == <<running, monitor, autoStart>>
engineVars == <<proc, termed, running, monitor, autoStart>>
worldVars == <<meeting, granted, used>>
vars == <<appVars, laterVars, poll, post, engineVars, worldVars>>

Statuses == {"stopped", "starting", "recording", "paused", "error"}
Phases == {"idle", "health", "ok", "degraded", "none", "status", "active", "inactive"}
NoPost == [at |-> "none", inMeeting |-> FALSE, to |-> NoEngine, json |-> FALSE]
Bounds == [acts |-> MaxActs, quits |-> MaxQuits, kills |-> MaxKills, revokes |-> MaxRevokes,
           timeouts |-> MaxTimeouts, fails |-> MaxFails, talks |-> MaxTalks]

micGateBusy == post.at # "none"
Running(s) == s \in {"recording", "starting"}
Listening(e) == proc[e] = "serving"
MicOpen(e) == running[e] /\ monitor[e]
Use(k) == used[k] < Bounds[k] /\ used' = [used EXCEPT ![k] = @ + 1]

-----------------------------------------------------------------------------
\* The pieces the handlers share.

\* Every assignment of the published status is delivered to the window later,
\* through the main queue; only a running one has an effect there.  More than
\* two waiting deliveries count as two.
Publish(s) ==
    /\ status' = s
    /\ sink' = IF Running(s) /\ sink < 2 THEN sink + 1 ELSE sink

SetStatus(s) == Publish(s) /\ timedPause' = FALSE

SendPoll(c) == poll' = [poll EXCEPT ![c] = "health"]
IdlePolls == {c \in Polls : poll[c] = "idle"}

\* posix_spawn succeeded: the process is watched and polled at once.
Spawn(e) ==
    /\ proc[e] = "none" /\ e # pid
    /\ pid' = e /\ procSource' = e /\ healthTimer' = TRUE
    /\ SetStatus("starting")
    /\ IF IdlePolls = {} THEN UNCHANGED poll ELSE \E c \in IdlePolls : SendPoll(c)
    /\ proc' = [proc EXCEPT ![e] = "booting"]
    /\ termed' = termed \ {e}
    /\ autoStart' = [autoStart EXCEPT ![e] = IF AudioOn THEN "pending" ELSE "done"]

\* No grant or no binary, which return before the two flags are reset, or a
\* posix_spawn that failed, which comes after.
Refuse(resets) ==
    /\ SetStatus("error")
    /\ intentionalStop' = IF resets THEN FALSE ELSE intentionalStop
    /\ micGateInMeeting' = IF resets THEN "nil" ELSE micGateInMeeting
    /\ UNCHANGED <<pid, procSource, healthTimer, poll, proc, termed, autoStart>>

\* Mutation: start() without its check that no engine runs.
StartTwice ==
    /\ restartWork' = FALSE
    /\ appUp' = TRUE
    /\ UNCHANGED <<restartAttempts, post, running, monitor, meeting, granted>>
    /\ \/ ~granted /\ Refuse(FALSE)
       \/ /\ granted
          /\ \/ (\E resets \in BOOLEAN : Refuse(resets))
             \/ /\ intentionalStop' = FALSE /\ micGateInMeeting' = "nil"
                /\ \E e \in Engines : Spawn(e)

\* Mutation: every start() gets a new respawn budget.
StartAfresh ==
    /\ restartWork' = FALSE
    /\ appUp' = TRUE
    /\ restartAttempts' = 0 /\ UNCHANGED <<post, running, monitor, meeting, granted>>
    /\ \/ /\ pid # NoEngine
          /\ UNCHANGED <<status, pid, intentionalStop, procSource, healthTimer, sink,
                         timedPause, micGateInMeeting, poll, proc, termed, autoStart>>
       \/ pid = NoEngine /\ ~granted /\ Refuse(FALSE)
       \/ /\ pid = NoEngine /\ granted
          /\ \/ (\E resets \in BOOLEAN : Refuse(resets))
             \/ /\ intentionalStop' = FALSE /\ micGateInMeeting' = "nil"
                /\ \E e \in Engines : Spawn(e)

Start ==
    /\ restartWork' = FALSE
    /\ appUp' = TRUE
    /\ UNCHANGED <<restartAttempts, post, running, monitor, meeting, granted>>
    /\ \/ /\ pid # NoEngine
          /\ UNCHANGED <<status, pid, intentionalStop, procSource, healthTimer, sink,
                         timedPause, micGateInMeeting, poll, proc, termed, autoStart>>
       \/ pid = NoEngine /\ ~granted /\ Refuse(FALSE)
       \/ /\ pid = NoEngine /\ granted
          /\ \/ (\E resets \in BOOLEAN : Refuse(resets))
             \/ /\ intentionalStop' = FALSE /\ micGateInMeeting' = "nil"
                /\ \E e \in Engines : Spawn(e)

\* Mutation: stop() leaves the scheduled respawn alone.
StopKeepsRespawn(s, timed) ==
    /\ intentionalStop' = TRUE
    /\ procSource' = NoEngine /\ healthTimer' = FALSE
    /\ termed' = termed \cup ({pid} \ {NoEngine})
    /\ pid' = NoEngine
    /\ micGateInMeeting' = "nil"
    /\ Publish(s) /\ timedPause' = timed
    /\ UNCHANGED <<appUp, restartWork, restartAttempts, poll, post, proc, audioVars, meeting, granted>>

\* stop() signals the process and forgets it without waiting for its exit.  The
\* requests in flight and the gate's busy flag are left alone.
Stop(s, timed) ==
    /\ intentionalStop' = TRUE
    /\ restartWork' = FALSE
    /\ procSource' = NoEngine /\ healthTimer' = FALSE
    /\ termed' = termed \cup ({pid} \ {NoEngine})
    /\ pid' = NoEngine
    /\ micGateInMeeting' = "nil"
    /\ Publish(s) /\ timedPause' = timed
    /\ UNCHANGED <<appUp, restartAttempts, poll, post, proc, audioVars, meeting, granted>>

-----------------------------------------------------------------------------
\* The user: the shortcut and menu, the archive window, the settings panes.

Click == appUp /\ Use("acts")

TogglePause ==
    /\ Click
    /\ IF Running(status) THEN Stop("paused", FALSE) ELSE Start
    /\ UNCHANGED <<lateStarts, wiping, resumeWork>>

\* "Pause" in the window, with a duration or without one.
OnPause(timed) ==
    /\ Click
    /\ resumeWork' = timed
    /\ Stop("paused", timed)
    /\ UNCHANGED <<lateStarts, wiping>>

OnResume == Click /\ resumeWork' = FALSE /\ Start /\ UNCHANGED <<lateStarts, wiping>>

\* The last grant has landed in the onboarding window.
OnboardingDone == Click /\ granted /\ Start /\ UNCHANGED <<lateStarts, wiping, resumeWork>>

\* restart() after a settings change: its start 0.4 s later is not cancellable.
Restart ==
    /\ Click /\ Stop("stopped", FALSE)
    /\ lateStarts' = lateStarts + 1
    /\ UNCHANGED <<wiping, resumeWork>>

\* withEnginePaused: stop, delete in the background, start 0.3 s after.
WithEnginePaused ==
    /\ Click /\ Stop("stopped", FALSE)
    /\ wiping' = wiping + 1
    /\ UNCHANGED <<lateStarts, resumeWork>>

WipeDone ==
    /\ appUp /\ wiping > 0
    /\ wiping' = wiping - 1 /\ lateStarts' = lateStarts + 1
    /\ UNCHANGED <<appVars, resumeWork, timedPause, sink, poll, post, engineVars, worldVars>>

LateStart ==
    /\ appUp /\ lateStarts > 0
    /\ lateStarts' = lateStarts - 1
    /\ Start
    /\ UNCHANGED <<wiping, resumeWork, used>>

TimedResume ==
    /\ appUp /\ resumeWork
    /\ resumeWork' = FALSE
    /\ Start
    /\ UNCHANGED <<lateStarts, wiping, used>>

\* The window's subscription to the status: seeing it run cancels the timer.
DeliverStatus ==
    /\ appUp /\ sink > 0
    /\ sink' = sink - 1 /\ resumeWork' = FALSE
    /\ UNCHANGED <<appVars, lateStarts, wiping, timedPause, poll, post, engineVars, worldVars>>

-----------------------------------------------------------------------------
\* Exit of the watched process, and the respawn it schedules.

\* Mutation: the respawn budget is not consulted.
ExitNoBudget ==
    /\ appUp /\ procSource # NoEngine /\ proc[procSource] = "none"
    /\ procSource' = NoEngine /\ pid' = NoEngine /\ healthTimer' = FALSE
    /\ IF intentionalStop THEN UNCHANGED <<status, sink, timedPause, restartAttempts, restartWork>>
       ELSE IF ~granted THEN SetStatus("error") /\ UNCHANGED <<restartAttempts, restartWork>>
       ELSE /\ restartAttempts' = restartAttempts + 1
            /\ SetStatus("starting") /\ restartWork' = TRUE
    /\ UNCHANGED <<appUp, intentionalStop, micGateInMeeting, lateStarts, wiping,
                   resumeWork, poll, post, engineVars, worldVars>>

\* Mutation: only an engine that was recording is respawned.
ExitDuringBoot ==
    /\ appUp /\ procSource # NoEngine /\ proc[procSource] = "none"
    /\ procSource' = NoEngine /\ pid' = NoEngine /\ healthTimer' = FALSE
    /\ IF intentionalStop THEN UNCHANGED <<status, sink, timedPause, restartAttempts, restartWork>>
       ELSE IF ~granted THEN SetStatus("error") /\ UNCHANGED <<restartAttempts, restartWork>>
       ELSE /\ restartAttempts' = restartAttempts + 1
            /\ IF restartAttempts' <= MaxRestartAttempts
               THEN SetStatus("starting") /\ restartWork' = (status = "recording")
               ELSE SetStatus("error") /\ UNCHANGED restartWork
    /\ UNCHANGED <<appUp, intentionalStop, micGateInMeeting, lateStarts, wiping,
                   resumeWork, poll, post, engineVars, worldVars>>

ExitHandler ==
    /\ appUp /\ procSource # NoEngine /\ proc[procSource] = "none"
    /\ procSource' = NoEngine /\ pid' = NoEngine /\ healthTimer' = FALSE
    /\ IF intentionalStop THEN UNCHANGED <<status, sink, timedPause, restartAttempts, restartWork>>
       ELSE IF ~granted THEN SetStatus("error") /\ UNCHANGED <<restartAttempts, restartWork>>
       ELSE /\ restartAttempts' = restartAttempts + 1
            /\ IF restartAttempts' <= MaxRestartAttempts
               THEN SetStatus("starting") /\ restartWork' = TRUE
               ELSE SetStatus("error") /\ UNCHANGED restartWork
    /\ UNCHANGED <<appUp, intentionalStop, micGateInMeeting, lateStarts, wiping,
                   resumeWork, poll, post, engineVars, worldVars>>

RestartFires ==
    /\ appUp /\ restartWork /\ Start
    /\ UNCHANGED <<lateStarts, wiping, resumeWork, used>>

-----------------------------------------------------------------------------
\* Health polling: GET /health, then GET /meetings/status, then the gate.

PollHealth(c) ==
    /\ appUp /\ healthTimer /\ poll[c] = "idle"
    /\ SendPoll(c)
    /\ UNCHANGED <<appVars, laterVars, post, engineVars, worldVars>>

\* The engine that holds the port answers, whichever it is; nobody listening
\* or an answer later than 2 s is no answer.
AnswerGet(c) ==
    LET up == \E e \in Engines : Listening(e)
        Says(q, a) == poll[c] = q /\ poll' = [poll EXCEPT ![c] = a]
    IN  /\ \/ /\ up /\ UNCHANGED used
              /\ \/ \E v \in Verdicts : Says("health", v)
                 \/ Says("status", IF meeting THEN "active" ELSE "inactive")
           \/ /\ (~up /\ UNCHANGED used) \/ Use("timeouts")
              /\ Says("health", "none") \/ Says("status", "inactive")
        /\ UNCHANGED <<appVars, laterVars, post, engineVars, meeting, granted>>

\* Mutation: the answer is used although the engine was stopped meanwhile.
HealthReplyLate(c) ==
    /\ appUp /\ poll[c] \in {"ok", "degraded", "none"}
    /\ IF poll[c] = "none"
       THEN /\ poll' = [poll EXCEPT ![c] = "idle"]
            /\ UNCHANGED <<status, sink, timedPause, restartAttempts>>
       ELSE /\ poll' = [poll EXCEPT ![c] = "status"]
            /\ IF poll[c] = "ok"
               THEN /\ restartAttempts' = 0
                    /\ IF status = "paused" THEN UNCHANGED <<status, sink, timedPause>>
                                            ELSE SetStatus("recording")
               ELSE UNCHANGED <<status, sink, timedPause, restartAttempts>>
    /\ UNCHANGED <<appUp, pid, restartWork, intentionalStop, procSource, healthTimer,
                   micGateInMeeting, lateStarts, wiping, resumeWork, post, engineVars,
                   worldVars>>

HealthReply(c) ==
    /\ appUp /\ poll[c] \in {"ok", "degraded", "none"}
    /\ IF pid = NoEngine \/ poll[c] = "none"
       THEN /\ poll' = [poll EXCEPT ![c] = "idle"]
            /\ UNCHANGED <<status, sink, timedPause, restartAttempts>>
       ELSE /\ poll' = [poll EXCEPT ![c] = "status"]
            /\ IF poll[c] = "ok"
               THEN /\ restartAttempts' = 0
                    /\ IF status = "paused" THEN UNCHANGED <<status, sink, timedPause>>
                                            ELSE SetStatus("recording")
               ELSE UNCHANGED <<status, sink, timedPause, restartAttempts>>
    /\ UNCHANGED <<appUp, pid, restartWork, intentionalStop, procSource, healthTimer,
                   micGateInMeeting, lateStarts, wiping, resumeWork, post, engineVars,
                   worldVars>>

SyncMicGate(c) ==
    LET inMeeting == poll[c] = "active"
        wanted == IF inMeeting THEN "in" ELSE "out"
    IN  /\ appUp /\ poll[c] \in {"active", "inactive"}
        /\ poll' = [poll EXCEPT ![c] = "idle"]
        /\ post' = IF AudioOn /\ ~micGateBusy /\ micGateInMeeting # wanted
                   THEN [NoPost EXCEPT !.at = "sent", !.inMeeting = inMeeting]
                   ELSE post
        /\ UNCHANGED <<appVars, laterVars, engineVars, worldVars>>

\* Mutation: any answer, an empty one too, settles the gate.
GateReplyAny ==
    /\ appUp /\ post.at = "answered"
    /\ post' = NoPost
    /\ micGateInMeeting' = IF post.inMeeting THEN "in" ELSE "out"
    /\ UNCHANGED <<appUp, status, pid, restartAttempts, restartWork, intentionalStop,
                   procSource, healthTimer, laterVars, poll, engineVars, worldVars>>

\* Mutation: without an answer to parse the gate stays busy.
GateReplyStuck ==
    /\ appUp /\ post.at = "answered"
    /\ post' = IF post.json THEN NoPost ELSE post
    /\ micGateInMeeting' = IF ~post.json THEN micGateInMeeting
                           ELSE IF post.inMeeting THEN "in" ELSE "out"
    /\ UNCHANGED <<appUp, status, pid, restartAttempts, restartWork, intentionalStop,
                   procSource, healthTimer, laterVars, poll, engineVars, worldVars>>

\* Success has an empty body, which parses to nil; only a failure is JSON.
GateReply ==
    /\ appUp /\ post.at = "answered"
    /\ post' = NoPost
    /\ micGateInMeeting' = IF ~post.json THEN micGateInMeeting
                           ELSE IF post.inMeeting THEN "in" ELSE "out"
    /\ UNCHANGED <<appUp, status, pid, restartAttempts, restartWork, intentionalStop,
                   procSource, healthTimer, laterVars, poll, engineVars, worldVars>>

-----------------------------------------------------------------------------
\* The engine processes.

Exit(e) ==
    /\ proc' = [proc EXCEPT ![e] = "none"]
    /\ running' = [running EXCEPT ![e] = FALSE]
    /\ monitor' = [monitor EXCEPT ![e] = FALSE]
    /\ autoStart' = [autoStart EXCEPT ![e] = "done"]
    /\ UNCHANGED <<appVars, laterVars, poll, post, termed, worldVars>>

\* An engine that finds its port taken gives up at once.
Boot(e) ==
    /\ proc[e] = "booting"
    /\ IF \E o \in Engines : Listening(o)
       THEN Exit(e)
       ELSE /\ proc' = [proc EXCEPT ![e] = "serving"]
            /\ UNCHANGED <<appVars, laterVars, poll, post, termed, audioVars, worldVars>>

Crash(e) == proc[e] # "none" /\ e \notin termed /\ Exit(e)
\* The engine has no handler for SIGTERM: the signal ends it at once.
Terminate(e) == proc[e] # "none" /\ e \in termed /\ Exit(e)

\* AudioManager::start returns at once when it is running; otherwise it marks
\* itself running, loads the model under its handles' locks, and then starts
\* the device monitor that opens the microphone.
StartingAudio(e) == autoStart[e] = "loading" \/ (post.at = "loading" /\ post.to = e)

\* Ten seconds after boot the engine starts its audio by itself.
AutoStart(e) ==
    /\ Listening(e) /\ autoStart[e] = "pending"
    /\ autoStart' = [autoStart EXCEPT ![e] = IF running[e] THEN "done" ELSE "loading"]
    /\ running' = [running EXCEPT ![e] = TRUE]
    /\ UNCHANGED <<appVars, laterVars, poll, post, proc, termed, monitor, worldVars>>

AutoLoaded(e) ==
    /\ Listening(e) /\ autoStart[e] = "loading"
    /\ autoStart' = [autoStart EXCEPT ![e] = "done"]
    /\ \/ monitor' = [monitor EXCEPT ![e] = TRUE] /\ UNCHANGED used
       \/ Use("fails") /\ UNCHANGED monitor
    /\ UNCHANGED <<appVars, laterVars, poll, post, proc, termed, running, meeting, granted>>

\* POST /audio/start and /audio/stop.  stop marks the manager stopped and ends
\* the device monitor first, then waits for the locks a start may hold.
TakePost(e) ==
    /\ post.at = "sent" /\ Listening(e)
    /\ IF running[e] = post.inMeeting
       THEN /\ post' = [post EXCEPT !.at = "answered"]
            /\ UNCHANGED <<running, monitor>>
       ELSE /\ running' = [running EXCEPT ![e] = post.inMeeting]
            /\ monitor' = [monitor EXCEPT ![e] = @ /\ post.inMeeting]
            /\ post' = [post EXCEPT !.at = IF post.inMeeting THEN "loading" ELSE "stopping",
                                    !.to = e]
    /\ UNCHANGED <<appVars, laterVars, poll, proc, termed, autoStart, worldVars>>

FinishPost(e) ==
    /\ post.to = e /\ Listening(e) /\ autoStart[e] # "loading"
    /\ \/ /\ post.at = "stopping"
          /\ post' = [post EXCEPT !.at = "answered"]
          /\ UNCHANGED <<monitor, used>>
       \/ /\ post.at = "loading"
          /\ post' = [post EXCEPT !.at = "answered"]
          /\ monitor' = [monitor EXCEPT ![e] = TRUE]
          /\ UNCHANGED used
       \/ /\ post.at = "loading" /\ Use("fails")
          /\ post' = [post EXCEPT !.at = "answered", !.json = TRUE]
          /\ UNCHANGED monitor
    /\ UNCHANGED <<appVars, laterVars, poll, proc, termed, running, autoStart, meeting, granted>>

\* Nobody listens, or the engine died on it: the request fails.
RefusePost ==
    /\ \/ post.at = "sent" /\ \A e \in Engines : ~Listening(e)
       \/ post.at \in {"loading", "stopping"} /\ ~Listening(post.to)
    /\ post' = [post EXCEPT !.at = "answered"]
    /\ UNCHANGED <<appVars, laterVars, poll, engineVars, worldVars>>

\* The client gives up after 2 s and closes the connection; the server drops the
\* handler of a closed connection where it stands.
TimeOutPost ==
    /\ post.at \in {"sent", "loading", "stopping"} /\ Use("timeouts")
    /\ post' = [post EXCEPT !.at = "answered"]
    /\ UNCHANGED <<appVars, laterVars, poll, engineVars, meeting, granted>>

-----------------------------------------------------------------------------
\* The app's own life, and the world.

\* Without the grants, or before the onboarding is complete, the app comes up
\* without an engine.
Launch ==
    /\ ~appUp /\ UNCHANGED <<lateStarts, wiping, resumeWork, used>>
    /\ \/ granted /\ Start
       \/ /\ appUp' = TRUE
          /\ UNCHANGED <<status, pid, restartAttempts, restartWork, intentionalStop, procSource,
                         healthTimer, micGateInMeeting, timedPause, sink, poll, post,
                         engineVars, meeting, granted>>

\* applicationWillTerminate stops the engine; a kill of the app does not.
Gone ==
    /\ appUp /\ appUp' = FALSE /\ status' = "stopped" /\ pid' = NoEngine
    /\ restartAttempts' = 0 /\ restartWork' = FALSE /\ intentionalStop' = FALSE
    /\ procSource' = NoEngine /\ healthTimer' = FALSE /\ micGateInMeeting' = "nil"
    /\ lateStarts' = 0 /\ wiping' = 0 /\ resumeWork' = FALSE /\ timedPause' = FALSE /\ sink' = 0
    /\ poll' = [c \in Polls |-> "idle"] /\ post' = NoPost
    /\ UNCHANGED <<proc, audioVars, meeting, granted>>

Quit == Gone /\ Use("quits") /\ termed' = termed \cup ({pid} \ {NoEngine})
Kill == Gone /\ Use("kills") /\ UNCHANGED termed

Talk ==
    /\ AudioOn /\ Use("talks") /\ meeting' = ~meeting
    /\ UNCHANGED <<appVars, laterVars, poll, post, engineVars, granted>>

Revoke ==
    /\ granted /\ Use("revokes") /\ granted' = FALSE
    /\ UNCHANGED <<appVars, laterVars, poll, post, engineVars, meeting>>

Grant ==
    /\ ~granted /\ granted' = TRUE
    /\ UNCHANGED <<appVars, laterVars, poll, post, engineVars, meeting, used>>

-----------------------------------------------------------------------------
Init ==
    /\ appUp = FALSE /\ status = "stopped" /\ pid = NoEngine
    /\ restartAttempts = 0 /\ restartWork = FALSE /\ intentionalStop = FALSE
    /\ procSource = NoEngine /\ healthTimer = FALSE /\ micGateInMeeting = "nil"
    /\ lateStarts = 0 /\ wiping = 0 /\ resumeWork = FALSE /\ timedPause = FALSE /\ sink = 0
    /\ poll = [c \in Polls |-> "idle"] /\ post = NoPost
    /\ proc = [e \in Engines |-> "none"] /\ termed = {}
    /\ running = [e \in Engines |-> FALSE] /\ monitor = [e \in Engines |-> FALSE]
    /\ autoStart = [e \in Engines |-> "done"]
    /\ meeting = FALSE /\ granted \in BOOLEAN
    /\ used = [k \in DOMAIN Bounds |-> 0]

User == TogglePause \/ (\E timed \in BOOLEAN : OnPause(timed)) \/ OnResume \/ Restart
        \/ WithEnginePaused \/ OnboardingDone
Main == WipeDone \/ LateStart \/ TimedResume \/ DeliverStatus \/ ExitHandler \/ RestartFires
        \/ GateReply \/ \E c \in Polls : PollHealth(c) \/ HealthReply(c) \/ SyncMicGate(c)
Http == RefusePost \/ TimeOutPost \/ (\E c \in Polls : AnswerGet(c)) \/ \E e \in Engines : TakePost(e) \/ FinishPost(e)
Process == \E e \in Engines : Boot(e) \/ Crash(e) \/ Terminate(e) \/ AutoStart(e) \/ AutoLoaded(e)
World == Launch \/ Quit \/ Kill \/ Talk \/ Revoke \/ Grant

Next == User \/ Main \/ Http \/ Process \/ World

Spec == Init /\ [][Next]_vars

\* The main queue runs what is due, timers fire, the kernel delivers SIGTERM, and
\* the engine boots, answers and finishes loading; clicks, crashes, meetings and
\* the app's own end are never promised.
Fairness ==
    /\ WF_vars(WipeDone) /\ WF_vars(LateStart) /\ WF_vars(TimedResume)
    /\ WF_vars(DeliverStatus) /\ WF_vars(ExitHandler) /\ WF_vars(RestartFires)
    /\ WF_vars(GateReply) /\ WF_vars(RefusePost)
    /\ \A c \in Polls : WF_vars(PollHealth(c)) /\ WF_vars(AnswerGet(c))
                        /\ WF_vars(HealthReply(c)) /\ WF_vars(SyncMicGate(c))
    /\ \A e \in Engines : WF_vars(TakePost(e)) /\ WF_vars(FinishPost(e)) /\ WF_vars(Boot(e))
                          /\ WF_vars(Terminate(e)) /\ WF_vars(AutoStart(e))
                          /\ WF_vars(AutoLoaded(e))

FairSpec == Spec /\ Fairness

-----------------------------------------------------------------------------
\* Properties.

\* Every variable keeps its type; beyond the respawn budget the count of exits
\* grows only by what the user starts.
TypeOK ==
    /\ appUp \in BOOLEAN /\ status \in Statuses /\ pid \in Engines \cup {NoEngine}
    /\ restartAttempts \in 0 .. MaxRestartAttempts + 1 + MaxActs
    /\ restartWork \in BOOLEAN /\ intentionalStop \in BOOLEAN
    /\ procSource \in Engines \cup {NoEngine} /\ healthTimer \in BOOLEAN
    /\ micGateInMeeting \in {"nil", "in", "out"}
    /\ lateStarts \in Nat /\ wiping \in Nat /\ resumeWork \in BOOLEAN
    /\ timedPause \in BOOLEAN /\ sink \in 0 .. 2
    /\ poll \in [Polls -> Phases]
    /\ post \in [at : {"none", "sent", "loading", "stopping", "answered"}, inMeeting : BOOLEAN,
                  to : Engines \cup {NoEngine}, json : BOOLEAN]
    /\ proc \in [Engines -> {"none", "booting", "serving"}] /\ termed \subseteq Engines
    /\ running \in [Engines -> BOOLEAN] /\ monitor \in [Engines -> BOOLEAN]
    /\ autoStart \in [Engines -> {"pending", "loading", "done"}]
    /\ meeting \in BOOLEAN /\ granted \in BOOLEAN
    /\ used \in [DOMAIN Bounds -> Nat]

\* As long as the app has not been killed, an engine it has not told to stop is
\* the one it tracks, watches and polls: there are never two such engines.
OneEngine ==
    \A e \in Engines : proc[e] # "none" /\ e \notin termed /\ used.kills = 0
                         => e = pid /\ e = procSource /\ healthTimer

\* A crashed engine's respawn is pending only while the app shows "starting" and
\* has no engine: whatever stops capture also withdraws the respawn.
RespawnOnlyAfterCrash ==
    restartWork => pid = NoEngine /\ status = "starting" /\ ~intentionalStop

\* What the app shows is so: no engine is left running behind "paused" or
\* "stopped", and "recording" is only shown of an engine it still holds.
StatusHonest ==
    /\ status \in {"paused", "stopped"} => pid = NoEngine
    /\ status = "recording" => pid # NoEngine

\* An engine that goes away by itself is running again, or the app says that it
\* is not, or the user has stopped it.
CrashNoticed ==
    (appUp /\ pid # NoEngine /\ procSource = pid /\ proc[pid] = "none")
        ~> (\/ status \in {"error", "paused", "stopped"}
            \/ pid # NoEngine /\ proc[pid] # "none")

\* An engine that never reports healthy again is not respawned for ever.
RespawnEnds == []<>(status = "recording") \/ <>[](~restartWork)

\* Outside meetings a live engine's microphone ends up closed, and stays closed,
\* although the engine opens it by itself after boot.
Serving(m) == appUp /\ pid # NoEngine /\ proc[pid] = "serving" /\ pid \notin termed /\ meeting = m
MicReleased == <>[]Serving(FALSE) => <>[](\A e \in Engines : ~MicOpen(e))

\* In a meeting that lasts, the microphone ends up open.
MicOpens ==
    <>[]Serving(TRUE) /\ [](used.timeouts = 0 /\ used.fails = 0)
        => <>[](pid # NoEngine /\ MicOpen(pid))

\* The same when a request of the app may have taken longer than 2 s.
MicOpensAnyway ==
    <>[]Serving(TRUE) /\ [](used.fails = 0) => <>[](pid # NoEngine /\ MicOpen(pid))

\* No microphone is opened before there has been a meeting.
MicOnlyInMeetings == used.talks = 0 => \A e \in Engines : ~MicOpen(e)

\* The gate believes a meeting's audio is on only when it is.
GateTellsTruth == micGateInMeeting = "in" => \E e \in Engines : running[e] /\ (monitor[e] \/ StartingAudio(e))

\* A pause is left by the user or by its own timer, by nothing else.
PauseLasts ==
    [][status = "paused" /\ status' # "paused"
        => User \/ TimedResume \/ Quit \/ Kill]_vars

\* A timed pause has its timer for as long as it lasts.
TimedPauseEnds == timedPause => resumeWork

\* No engine the app has not told to stop runs while a deletion does.
WipeAlone == wiping > 0 => \A e \in Engines : proc[e] = "none"

=============================================================================
