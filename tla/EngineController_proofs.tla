---------------------- MODULE EngineController_proofs ----------------------
(***************************************************************************)
(* Theorems about EngineController, for any number of engine slots, polls,  *)
(* clicks, kills and crashes and any respawn budget.                        *)
(***************************************************************************)
EXTENDS EngineController, TLAPS

\* The tracked process is the watched one: start() sets both, stop() and the exit
\* handler clear both.  After a stop there is neither.
TrackInv ==
    /\ pid = procSource
    /\ intentionalStop => pid = NoEngine
    /\ pid # NoEngine => healthTimer

\* The starts that are scheduled and cannot be withdrawn by stop().
Scheduled == lateStarts + wiping + (IF resumeWork THEN 1 ELSE 0)

\* The respawn budget.  Every scheduled start stems from a click of its own; an
\* engine beyond the budget was started by a click; the budget of an app that is
\* not running is untouched.
BudgetInv ==
    /\ restartWork => restartAttempts <= MaxRestartAttempts
    /\ Scheduled <= used.acts
    /\ restartAttempts + (IF pid = NoEngine THEN 0 ELSE 1) + Scheduled
         <= MaxRestartAttempts + 1 + used.acts
    /\ used.acts <= MaxActs
    /\ ~appUp => restartAttempts = 0 /\ Scheduled = 0 /\ pid = NoEngine

\* The types, without the bound on restartAttempts, in the order of the variables.
AppTypes ==
    /\ appUp \in BOOLEAN /\ status \in Statuses /\ pid \in Engines \cup {NoEngine}
    /\ restartAttempts \in Nat
    /\ restartWork \in BOOLEAN /\ intentionalStop \in BOOLEAN
    /\ procSource \in Engines \cup {NoEngine} /\ healthTimer \in BOOLEAN
    /\ micGateInMeeting \in {"nil", "in", "out"}

LaterTypes ==
    /\ lateStarts \in Nat /\ wiping \in Nat /\ resumeWork \in BOOLEAN
    /\ timedPause \in BOOLEAN /\ sink \in 0 .. 2

PostTypes ==
    post \in [at : {"none", "sent", "loading", "stopping", "answered"}, inMeeting : BOOLEAN,
              to : Engines \cup {NoEngine}, json : BOOLEAN]

EngineTypes ==
    /\ proc \in [Engines -> {"none", "booting", "serving"}] /\ termed \subseteq Engines
    /\ running \in [Engines -> BOOLEAN] /\ monitor \in [Engines -> BOOLEAN]
    /\ autoStart \in [Engines -> {"pending", "loading", "done"}]

WorldTypes == meeting \in BOOLEAN /\ granted \in BOOLEAN /\ used \in [DOMAIN Bounds -> Nat]

Types ==
    AppTypes /\ LaterTypes /\ poll \in [Polls -> Phases] /\ PostTypes /\ EngineTypes /\ WorldTypes

IInv == Types /\ TrackInv /\ BudgetInv /\ OneEngine /\ StatusHonest /\ RespawnOnlyAfterCrash

USE EngineAssumption

-----------------------------------------------------------------------------
\* What the two shared pieces do, as far as the tracking is concerned: start() makes a
\* new engine the tracked one, or leaves the tracking alone.
LEMMA StartMoves ==
    ASSUME Types, Start
    PROVE  /\ restartWork' = FALSE /\ appUp' = TRUE /\ UNCHANGED restartAttempts
           /\ \/ /\ UNCHANGED <<status, pid, procSource, intentionalStop, healthTimer, proc, termed>>
                 /\ pid # NoEngine
              \/ /\ pid = NoEngine /\ status' = "error"
                 /\ intentionalStop' => intentionalStop
                 /\ UNCHANGED <<pid, procSource, healthTimer, proc, termed>>
              \/ /\ pid = NoEngine /\ status' = "starting" /\ intentionalStop' = FALSE
                 /\ pid' \in Engines /\ procSource' = pid' /\ healthTimer' = TRUE
                 /\ proc' = [proc EXCEPT ![pid'] = "booting"]
                 /\ termed' = termed \ {pid'}
  BY DEF Start, Spawn, Refuse, SetStatus, Publish, Types, AppTypes, EngineTypes

\* stop() forgets the engine it has signalled, and what was to be started again.
LEMMA StopMoves ==
    ASSUME Types, NEW s \in {"paused", "stopped"}, NEW timed \in BOOLEAN, Stop(s, timed)
    PROVE  /\ intentionalStop' = TRUE /\ restartWork' = FALSE /\ pid' = NoEngine
           /\ procSource' = NoEngine /\ status' = s
           /\ termed' = termed \cup ({pid} \ {NoEngine})
           /\ UNCHANGED <<appUp, restartAttempts, proc>>
  BY DEF Stop, Publish

-----------------------------------------------------------------------------
(* Types.                                                                   *)

\* A group of variables that a step leaves alone keeps its types.
LEMMA Kept ==
    ASSUME Types
    PROVE  /\ UNCHANGED appVars => AppTypes'
           /\ UNCHANGED laterVars => LaterTypes'
           /\ UNCHANGED poll => (poll \in [Polls -> Phases])'
           /\ UNCHANGED post => PostTypes'
           /\ UNCHANGED engineVars => EngineTypes'
           /\ UNCHANGED worldVars => WorldTypes'
<1>1. UNCHANGED appVars => AppTypes'
  BY DEF Types, AppTypes, appVars
<1>2. UNCHANGED laterVars => LaterTypes'
  BY DEF Types, LaterTypes, laterVars
<1>3. (UNCHANGED poll => (poll \in [Polls -> Phases])') /\ (UNCHANGED post => PostTypes')
  BY DEF Types, PostTypes
<1>4. UNCHANGED engineVars => EngineTypes'
  BY DEF Types, EngineTypes, engineVars
<1>5. UNCHANGED worldVars => WorldTypes'
  BY DEF Types, WorldTypes, worldVars
<1>. QED
  BY <1>1, <1>2, <1>3, <1>4, <1>5

\* The counters of the bounds only count up.
LEMMA UseTypes ==
    ASSUME Types, NEW k \in DOMAIN Bounds, Use(k)
    PROVE  used' \in [DOMAIN Bounds -> Nat]
  BY DEF Use, Types, WorldTypes, Bounds

LEMMA SetStatusTypes ==
    ASSUME Types, NEW s \in Statuses, SetStatus(s)
    PROVE  status' \in Statuses /\ sink' \in 0 .. 2 /\ timedPause' \in BOOLEAN
<1>1. sink \in 0 .. 2
  BY DEF Types, LaterTypes
<1>2. sink' \in 0 .. 2
  BY <1>1 DEF SetStatus, Publish
<1>. QED
  BY <1>2 DEF SetStatus, Publish

\* What start() and stop() leave to the callback that calls them.
Later == lateStarts \in Nat /\ wiping \in Nat /\ resumeWork \in BOOLEAN
         /\ used \in [DOMAIN Bounds -> Nat]

LEMMA StartTypes ==
    ASSUME Types, Start, Later'
    PROVE  Types'
<1>0. "error" \in Statuses /\ "starting" \in Statuses
  BY DEF Statuses
<1>1. UNCHANGED <<restartAttempts, post, running, monitor, meeting, granted>> /\ appUp' = TRUE /\ restartWork' = FALSE
  BY DEF Start
<1>2. PostTypes' /\ WorldTypes'
  BY <1>1, Kept DEF Types, WorldTypes, Later
<1>3. ASSUME NEW resets \in BOOLEAN, Refuse(resets)
      PROVE  AppTypes' /\ LaterTypes' /\ poll' \in [Polls -> Phases] /\ EngineTypes'
  <2>1. SetStatus("error") /\ status' \in Statuses /\ sink' \in 0 .. 2 /\ timedPause' \in BOOLEAN
    BY <1>0, <1>3, SetStatusTypes DEF Refuse
  <2>2. AppTypes'
    BY <1>1, <1>3, <2>1 DEF Refuse, Types, AppTypes
  <2>3. LaterTypes'
    BY <2>1 DEF LaterTypes, Later
  <2>4. poll' \in [Polls -> Phases] /\ EngineTypes'
    BY <1>1, <1>3 DEF Refuse, Types, EngineTypes
  <2>. QED
    BY <2>2, <2>3, <2>4
<1>4. ASSUME NEW e \in Engines, Spawn(e), intentionalStop' = FALSE, micGateInMeeting' = "nil"
      PROVE  AppTypes' /\ LaterTypes' /\ poll' \in [Polls -> Phases] /\ EngineTypes'
  <2>1. SetStatus("starting") /\ status' \in Statuses /\ sink' \in 0 .. 2 /\ timedPause' \in BOOLEAN
    BY <1>0, <1>4, SetStatusTypes DEF Spawn
  <2>2. AppTypes'
    BY <1>1, <1>4, <2>1 DEF Spawn, Types, AppTypes
  <2>3. LaterTypes'
    BY <2>1 DEF LaterTypes, Later
  <2>4. poll' \in [Polls -> Phases]
    BY <1>4 DEF Spawn, SendPoll, IdlePolls, Phases, Types
  <2>5. EngineTypes'
    BY <1>1, <1>4 DEF Spawn, Types, EngineTypes
  <2>. QED
    BY <2>2, <2>3, <2>4, <2>5
<1>5. CASE UNCHANGED <<status, pid, intentionalStop, procSource, healthTimer, sink, timedPause,
                       micGateInMeeting, poll, proc, termed, autoStart>>
  <2>1. AppTypes'
    BY <1>1, <1>5 DEF Types, AppTypes
  <2>2. LaterTypes'
    BY <1>5 DEF Types, LaterTypes, Later
  <2>3. poll' \in [Polls -> Phases] /\ EngineTypes'
    BY <1>1, <1>5 DEF Types, EngineTypes
  <2>. QED
    BY <1>2, <2>1, <2>2, <2>3 DEF Types
<1>6. \/ UNCHANGED <<status, pid, intentionalStop, procSource, healthTimer, sink, timedPause,
                     micGateInMeeting, poll, proc, termed, autoStart>>
      \/ \E resets \in BOOLEAN : Refuse(resets)
      \/ intentionalStop' = FALSE /\ micGateInMeeting' = "nil" /\ \E e \in Engines : Spawn(e)
  BY DEF Start
<1>. QED
  BY <1>2, <1>3, <1>4, <1>5, <1>6 DEF Types

LEMMA StopTypes ==
    ASSUME Types, NEW s \in {"paused", "stopped"}, NEW timed \in BOOLEAN, Stop(s, timed), Later'
    PROVE  Types'
<1>1. status' \in Statuses /\ sink' \in 0 .. 2 /\ timedPause' \in BOOLEAN
  BY DEF Stop, Publish, Statuses, Types, LaterTypes
<1>2. AppTypes'
  BY <1>1 DEF Stop, Types, AppTypes
<1>3. LaterTypes'
  BY <1>1 DEF LaterTypes, Later
<1>4. poll' \in [Polls -> Phases] /\ PostTypes' /\ WorldTypes'
  BY Kept DEF Stop, Types, WorldTypes, Later
<1>5. EngineTypes'
  BY DEF Stop, Types, EngineTypes, audioVars, AppTypes
<1>. QED
  BY <1>2, <1>3, <1>4, <1>5 DEF Types

LEMMA TypesStep ==
    ASSUME Types, [Next]_vars
    PROVE  Types'
<1>0. Click => used' \in [DOMAIN Bounds -> Nat]
  BY UseTypes DEF Click, Bounds
<1>a. lateStarts \in Nat /\ wiping \in Nat /\ resumeWork \in BOOLEAN /\ used \in [DOMAIN Bounds -> Nat]
  BY DEF Types, LaterTypes, WorldTypes
<1>b. "error" \in Statuses /\ "starting" \in Statuses /\ "recording" \in Statuses /\ "stopped" \in Statuses
  BY DEF Statuses
<1>c. \A c \in Polls, x \in Phases : [poll EXCEPT ![c] = x] \in [Polls -> Phases]
  BY DEF Types
<1>. USE DEF Types
<1>1. CASE User
  <2>1. CASE TogglePause
    <3>1. Later'
      BY <1>0, <1>a, <2>1 DEF TogglePause, Later
    <3>2. CASE Stop("paused", FALSE)
      BY <3>1, <3>2, StopTypes
    <3>. QED
      BY <2>1, <3>1, <3>2, StartTypes DEF TogglePause
  <2>2. ASSUME NEW timed \in BOOLEAN, OnPause(timed)
        PROVE  Types'
    <3>1. Later'
      BY <1>0, <1>a, <2>2 DEF OnPause, Later
    <3>. QED
      BY <2>2, <3>1, StopTypes DEF OnPause
  <2>3. CASE OnResume \/ OnboardingDone
    <3>1. Later'
      BY <1>0, <1>a, <2>3 DEF OnResume, OnboardingDone, Later
    <3>. QED
      BY <2>3, <3>1, StartTypes DEF OnResume, OnboardingDone
  <2>4. CASE Restart \/ WithEnginePaused
    <3>1. Later'
      <4>1. CASE Restart
        BY <1>0, <1>a, <4>1 DEF Restart, Later
      <4>2. CASE WithEnginePaused
        BY <1>0, <1>a, <4>2 DEF WithEnginePaused, Later
      <4>. QED
        BY <2>4, <4>1, <4>2
    <3>2. Stop("stopped", FALSE)
      BY <2>4 DEF Restart, WithEnginePaused
    <3>. QED
      BY <3>1, <3>2, StopTypes
  <2>. QED
    BY <1>1, <2>1, <2>2, <2>3, <2>4 DEF User
<1>2. CASE Main
  <2>1. CASE LateStart \/ TimedResume \/ RestartFires
    <3>1. CASE LateStart
      <4>1. Later'
        BY <1>a, <3>1 DEF LateStart, Later
      <4>. QED
        BY <3>1, <4>1, StartTypes DEF LateStart
    <3>2. CASE TimedResume \/ RestartFires
      <4>1. Later'
        BY <1>a, <3>2 DEF TimedResume, RestartFires, Later
      <4>. QED
        BY <3>2, <4>1, StartTypes DEF TimedResume, RestartFires
    <3>. QED
      BY <2>1, <3>1, <3>2
  <2>2. CASE WipeDone
    <3>1. LaterTypes'
      BY <2>2 DEF WipeDone, LaterTypes
    <3>. QED
      BY <2>2, <3>1, Kept DEF WipeDone
  <2>3. CASE DeliverStatus
    <3>1. LaterTypes'
      <4>1. sink \in 0 .. 2 /\ sink > 0
        BY <2>3 DEF DeliverStatus, LaterTypes
      <4>2. sink' \in 0 .. 2
        BY <2>3, <4>1 DEF DeliverStatus
      <4>. QED
        BY <2>3, <4>2 DEF DeliverStatus, LaterTypes
    <3>. QED
      BY <2>3, <3>1, Kept DEF DeliverStatus
  <2>4. CASE ExitHandler
    <3>1. \/ UNCHANGED <<status, sink, timedPause>>
          \/ SetStatus("error") \/ SetStatus("starting")
      BY <2>4 DEF ExitHandler
    <3>2. status' \in Statuses /\ sink' \in 0 .. 2 /\ timedPause' \in BOOLEAN
      BY <1>b, <3>1, SetStatusTypes DEF AppTypes, LaterTypes
    <3>3. /\ restartAttempts' \in {restartAttempts, restartAttempts + 1}
          /\ restartWork' \in {restartWork, TRUE}
          /\ pid' = NoEngine /\ procSource' = NoEngine /\ healthTimer' = FALSE
          /\ UNCHANGED <<appUp, intentionalStop, micGateInMeeting>>
      BY <2>4 DEF ExitHandler
    <3>4. AppTypes'
      <4>1. restartAttempts' \in Nat
        BY <3>3 DEF AppTypes
      <4>2. restartWork' \in BOOLEAN
        BY <3>3 DEF AppTypes
      <4>. QED
        BY <3>2, <3>3, <4>1, <4>2 DEF AppTypes
    <3>5. LaterTypes'
      BY <2>4, <3>2 DEF ExitHandler, LaterTypes
    <3>. QED
      BY <2>4, <3>4, <3>5, Kept DEF ExitHandler
  <2>5. ASSUME NEW c \in Polls, HealthReply(c)
        PROVE  Types'
    <3>1. UNCHANGED <<status, sink, timedPause>> \/ SetStatus("recording")
      BY <2>5 DEF HealthReply
    <3>2. status' \in Statuses /\ sink' \in 0 .. 2 /\ timedPause' \in BOOLEAN
      BY <1>b, <3>1, SetStatusTypes DEF AppTypes, LaterTypes
    <3>3. /\ restartAttempts' \in {0, restartAttempts}
          /\ UNCHANGED <<appUp, pid, restartWork, intentionalStop, procSource, healthTimer,
                         micGateInMeeting>>
      BY <2>5 DEF HealthReply
    <3>4. AppTypes'
      BY <3>2, <3>3 DEF AppTypes
    <3>5. LaterTypes'
      BY <2>5, <3>2 DEF HealthReply, LaterTypes
    <3>6. poll' \in [Polls -> Phases]
      BY <1>c, <2>5 DEF HealthReply, Phases
    <3>. QED
      BY <2>5, <3>4, <3>5, <3>6, Kept DEF HealthReply
  <2>6. ASSUME NEW c \in Polls, PollHealth(c)
        PROVE  Types'
    <3>1. poll' \in [Polls -> Phases]
      BY <1>c, <2>6 DEF PollHealth, SendPoll, Phases
    <3>. QED
      BY <2>6, <3>1, Kept DEF PollHealth
  <2>7. ASSUME NEW c \in Polls, SyncMicGate(c)
        PROVE  Types'
    <3>1. poll' \in [Polls -> Phases]
      BY <1>c, <2>7 DEF SyncMicGate, Phases
    <3>2. PostTypes'
      <4>1. ASSUME NEW b \in BOOLEAN, post' = [NoPost EXCEPT !.at = "sent", !.inMeeting = b]
            PROVE  PostTypes'
        BY <4>1 DEF PostTypes, NoPost
      <4>2. \/ post' = post
            \/ post' = [NoPost EXCEPT !.at = "sent", !.inMeeting = (poll[c] = "active")]
        BY <2>7 DEF SyncMicGate
      <4>3. (poll[c] = "active") \in BOOLEAN
        OBVIOUS
      <4>. QED
        BY <4>1, <4>2, <4>3, Kept
    <3>. QED
      BY <2>7, <3>1, <3>2, Kept DEF SyncMicGate
  <2>8. CASE GateReply
    <3>1. PostTypes'
      BY <2>8 DEF GateReply, NoPost, PostTypes
    <3>2. AppTypes'
      BY <2>8 DEF GateReply, AppTypes
    <3>. QED
      BY <2>8, <3>1, <3>2, Kept DEF GateReply
  <2>. QED
    BY <1>2, <2>1, <2>2, <2>3, <2>4, <2>5, <2>6, <2>7, <2>8 DEF Main
<1>3. CASE Http
  <2>1. CASE RefusePost
    <3>1. PostTypes'
      BY <2>1 DEF RefusePost, PostTypes
    <3>. QED
      BY <2>1, <3>1, Kept DEF RefusePost
  <2>2. CASE TimeOutPost
    <3>1. PostTypes'
      BY <2>2 DEF TimeOutPost, PostTypes
    <3>2. WorldTypes'
      BY <2>2, UseTypes DEF TimeOutPost, WorldTypes, Bounds
    <3>. QED
      BY <2>2, <3>1, <3>2, Kept DEF TimeOutPost
  <2>3. ASSUME NEW c \in Polls, AnswerGet(c)
        PROVE  Types'
    <3>1. \E x \in Phases : poll' = [poll EXCEPT ![c] = x]
      BY <2>3 DEF AnswerGet, Phases
    <3>2. WorldTypes'
      BY <1>a, <2>3, UseTypes DEF AnswerGet, WorldTypes, Bounds
    <3>. QED
      BY <1>c, <2>3, <3>1, <3>2, Kept DEF AnswerGet
  <2>4. ASSUME NEW e \in Engines, TakePost(e)
        PROVE  Types'
    <3>1. PostTypes'
      <4>1. \/ post' = [post EXCEPT !.at = "answered"]
            \/ post' = [post EXCEPT !.at = "loading", !.to = e]
            \/ post' = [post EXCEPT !.at = "stopping", !.to = e]
        BY <2>4 DEF TakePost
      <4>. QED
        BY <4>1 DEF PostTypes
    <3>2. EngineTypes'
      <4>1. post.inMeeting \in BOOLEAN
        BY DEF PostTypes
      <4>. QED
        BY <2>4, <4>1 DEF TakePost, EngineTypes
    <3>. QED
      BY <2>4, <3>1, <3>2, Kept DEF TakePost
  <2>5. ASSUME NEW e \in Engines, FinishPost(e)
        PROVE  Types'
    <3>1. PostTypes'
      BY <2>5 DEF FinishPost, PostTypes
    <3>2. EngineTypes'
      BY <2>5 DEF FinishPost, EngineTypes
    <3>3. WorldTypes'
      BY <1>a, <2>5, UseTypes DEF FinishPost, WorldTypes, Bounds
    <3>. QED
      BY <2>5, <3>1, <3>2, <3>3, Kept DEF FinishPost
  <2>. QED
    BY <1>3, <2>1, <2>2, <2>3, <2>4, <2>5 DEF Http
<1>4. CASE Process
  <2>1. ASSUME NEW e \in Engines, Exit(e)
        PROVE  Types'
    <3>1. EngineTypes'
      BY <2>1 DEF Exit, EngineTypes
    <3>. QED
      BY <2>1, <3>1, Kept DEF Exit
  <2>2. ASSUME NEW e \in Engines, Boot(e)
        PROVE  Types'
    <3>1. CASE /\ proc' = [proc EXCEPT ![e] = "serving"]
               /\ UNCHANGED <<appVars, laterVars, poll, post, termed, audioVars, worldVars>>
      <4>1. EngineTypes'
        BY <3>1 DEF EngineTypes, audioVars
      <4>. QED
        BY <3>1, <4>1, Kept
    <3>. QED
      BY <2>1, <2>2, <3>1 DEF Boot
  <2>3. ASSUME NEW e \in Engines, AutoStart(e)
        PROVE  Types'
    <3>1. EngineTypes'
      BY <2>3 DEF AutoStart, EngineTypes
    <3>. QED
      BY <2>3, <3>1, Kept DEF AutoStart
  <2>4. ASSUME NEW e \in Engines, AutoLoaded(e)
        PROVE  Types'
    <3>1. WorldTypes'
      BY <1>a, <2>4, UseTypes DEF AutoLoaded, WorldTypes, Bounds
    <3>2. EngineTypes'
      BY <2>4 DEF AutoLoaded, EngineTypes
    <3>. QED
      BY <2>4, <3>1, <3>2, Kept DEF AutoLoaded
  <2>. QED
    BY <1>4, <2>1, <2>2, <2>3, <2>4 DEF Process, Crash, Terminate
<1>5. CASE World
  <2>1. CASE Launch
    <3>1. CASE Start
      BY <1>a, <2>1, <3>1, StartTypes DEF Launch, Later
    <3>2. CASE ~Start
      <4>1. AppTypes'
        BY <2>1, <3>2 DEF Launch, AppTypes
      <4>2. LaterTypes'
        BY <2>1, <3>2 DEF Launch, LaterTypes
      <4>3. WorldTypes'
        BY <2>1, <3>2 DEF Launch, WorldTypes
      <4>. QED
        BY <2>1, <3>2, <4>1, <4>2, <4>3, Kept DEF Launch
    <3>. QED
      BY <2>1, <3>1, <3>2 DEF Launch
  <2>2. CASE Quit \/ Kill
    <3>0. Gone
      BY <2>2 DEF Quit, Kill
    <3>1. WorldTypes'
      BY <2>2, <3>0, UseTypes DEF Quit, Kill, Gone, WorldTypes, Bounds
    <3>2. poll' \in [Polls -> Phases]
      BY <3>0 DEF Gone, Phases
    <3>3. PostTypes'
      BY <3>0 DEF Gone, NoPost, PostTypes
    <3>4. EngineTypes'
      BY <2>2, <3>0 DEF Quit, Kill, Gone, EngineTypes, audioVars, AppTypes
    <3>5. AppTypes'
      BY <1>b, <3>0 DEF Gone, AppTypes
    <3>6. LaterTypes'
      <4>1. lateStarts' \in Nat /\ wiping' \in Nat /\ sink' \in 0 .. 2
        BY <3>0 DEF Gone
      <4>2. resumeWork' \in BOOLEAN /\ timedPause' \in BOOLEAN
        BY <3>0 DEF Gone
      <4>. QED
        BY <4>1, <4>2 DEF LaterTypes
    <3>. QED
      BY <3>1, <3>2, <3>3, <3>4, <3>5, <3>6
  <2>3. CASE Talk \/ Revoke \/ Grant
    <3>1. WorldTypes'
      BY <1>a, <2>3, UseTypes DEF Talk, Revoke, Grant, WorldTypes, Bounds
    <3>. QED
      BY <2>3, <3>1, Kept DEF Talk, Revoke, Grant
  <2>. QED
    BY <1>5, <2>1, <2>2, <2>3 DEF World
<1>6. CASE UNCHANGED vars
  BY <1>6, Kept DEF vars
<1>. QED
  BY <1>1, <1>2, <1>3, <1>4, <1>5, <1>6 DEF Next

-----------------------------------------------------------------------------
(* The tracked engine, the shown status and the respawn.                    *)

Honest == TrackInv /\ OneEngine /\ StatusHonest /\ RespawnOnlyAfterCrash

\* What these four speak of, apart from the processes and the count of kills.
shown == <<status, pid, procSource, intentionalStop, healthTimer, restartWork>>

\* Killing the app excuses what it leaves behind, and nothing takes that back.
LEMMA KillsStay ==
    ASSUME Types, [Next]_vars
    PROVE  used'.kills = 0 => used.kills = 0
<1> DEFINE Counted == used' = used \/ \E k \in DOMAIN Bounds : Use(k)
<1>1. Counted
  BY DEF Next, User, Main, Http, Process, World, TogglePause, OnPause, OnResume, Restart,
    WithEnginePaused, OnboardingDone, Click, WipeDone, LateStart, TimedResume, DeliverStatus,
    ExitHandler, RestartFires, GateReply, PollHealth, HealthReply, SyncMicGate, RefusePost,
    TimeOutPost, AnswerGet, TakePost, FinishPost, Boot, Crash, Terminate, Exit, AutoStart,
    AutoLoaded, Launch, Quit, Kill, Gone, Talk, Revoke, Grant, worldVars, vars, Bounds
<1>. QED
  BY <1>1 DEF Use, Types, WorldTypes, Bounds

\* An engine that starts becomes the tracked one; it starts only when there is none.
LEMMA StartHonest ==
    ASSUME Types, Honest, Start, used'.kills = 0 => used.kills = 0
    PROVE  Honest'
<1>1. TrackInv'
  <2>1. CASE UNCHANGED <<pid, procSource, intentionalStop, healthTimer>>
    BY <2>1 DEF Honest, TrackInv
  <2>2. CASE /\ pid = NoEngine
             /\ intentionalStop' => intentionalStop
             /\ UNCHANGED <<pid, procSource, healthTimer>>
    BY <2>2 DEF Honest, TrackInv
  <2>3. CASE intentionalStop' = FALSE /\ procSource' = pid' /\ healthTimer' = TRUE
    BY <2>3 DEF TrackInv
  <2>. QED
    BY <2>1, <2>2, <2>3, StartMoves
<1>2. StatusHonest' /\ RespawnOnlyAfterCrash'
  BY StartMoves DEF Honest, StatusHonest, RespawnOnlyAfterCrash
<1>3. OneEngine'
  <2>. SUFFICES ASSUME NEW e \in Engines, proc'[e] # "none", e \notin termed', used'.kills = 0
                PROVE  e = pid' /\ e = procSource' /\ healthTimer'
    BY DEF OneEngine
  <2>1. CASE UNCHANGED <<pid, procSource, healthTimer, proc, termed>>
    BY <2>1 DEF Honest, OneEngine
  <2>2. CASE /\ pid = NoEngine /\ pid' \in Engines /\ procSource' = pid' /\ healthTimer' = TRUE
             /\ proc' = [proc EXCEPT ![pid'] = "booting"] /\ termed' = termed \ {pid'}
    <3>1. e # pid' => proc[e] # "none" /\ e \notin termed
      BY <2>2 DEF Types, EngineTypes
    <3>2. QED
      BY <2>2, <3>1 DEF Honest, OneEngine
  <2>. QED
    BY <2>1, <2>2, StartMoves
<1>. QED
  BY <1>1, <1>2, <1>3 DEF Honest

\* An engine that is stopped has been told so: it is not one of those that count.
LEMMA StopHonest ==
    ASSUME Types, Honest, NEW s \in {"paused", "stopped"}, NEW timed \in BOOLEAN, Stop(s, timed),
           used'.kills = 0 => used.kills = 0
    PROVE  Honest'
<1>1. TrackInv' /\ StatusHonest' /\ RespawnOnlyAfterCrash'
  BY StopMoves DEF TrackInv, StatusHonest, RespawnOnlyAfterCrash
<1>2. OneEngine'
  BY StopMoves DEF OneEngine, Honest
<1>. QED
  BY <1>1, <1>2 DEF Honest

\* A step that shows, tracks and signals nothing new, and starts no process.
LEMMA OtherHonest ==
    ASSUME Honest, UNCHANGED <<shown, termed>>, used'.kills = 0 => used.kills = 0,
           \A e \in Engines : proc'[e] # "none" => proc[e] # "none"
    PROVE  Honest'
<1>1. TrackInv' /\ StatusHonest' /\ RespawnOnlyAfterCrash'
  BY DEF Honest, TrackInv, StatusHonest, RespawnOnlyAfterCrash, shown
<1>2. OneEngine'
  BY DEF OneEngine, Honest, shown
<1>. QED
  BY <1>1, <1>2 DEF Honest

LEMMA HonestStep ==
    ASSUME Types, Honest, [Next]_vars
    PROVE  Honest'
<1>. USE KillsStay
<1>1. CASE User
  <2>1. CASE TogglePause
    BY <2>1, StartHonest, StopHonest DEF TogglePause
  <2>2. ASSUME NEW timed \in BOOLEAN, OnPause(timed)
        PROVE  Honest'
    BY <2>2, StopHonest DEF OnPause
  <2>3. CASE OnResume \/ OnboardingDone
    BY <2>3, StartHonest DEF OnResume, OnboardingDone
  <2>4. CASE Restart \/ WithEnginePaused
    BY <2>4, StopHonest DEF Restart, WithEnginePaused
  <2>. QED
    BY <1>1, <2>1, <2>2, <2>3, <2>4 DEF User
<1>2. CASE Main
  <2>1. CASE LateStart \/ TimedResume \/ RestartFires
    BY <2>1, StartHonest DEF LateStart, TimedResume, RestartFires
  <2>2. CASE ExitHandler
    <3>1. TrackInv' /\ StatusHonest' /\ RespawnOnlyAfterCrash'
      BY <2>2 DEF ExitHandler, Honest, TrackInv, StatusHonest, RespawnOnlyAfterCrash,
        SetStatus, Publish, Types, AppTypes
    <3>2. OneEngine'
      BY <2>2 DEF ExitHandler, Honest, TrackInv, OneEngine, engineVars, worldVars
    <3>. QED
      BY <3>1, <3>2 DEF Honest
  <2>3. ASSUME NEW c \in Polls, HealthReply(c)
        PROVE  Honest'
    <3>1. UNCHANGED <<pid, restartWork, intentionalStop, procSource, healthTimer, proc, termed>>
      BY <2>3 DEF HealthReply, engineVars
    <3>2. \/ status' = status
          \/ status' = "recording" /\ status # "paused" /\ pid # NoEngine
      BY <2>3 DEF HealthReply, SetStatus, Publish
    <3>3. TrackInv' /\ StatusHonest' /\ RespawnOnlyAfterCrash'
      BY <3>1, <3>2 DEF Honest, TrackInv, StatusHonest, RespawnOnlyAfterCrash
    <3>4. OneEngine'
      BY <3>1 DEF Honest, OneEngine
    <3>. QED
      BY <3>3, <3>4 DEF Honest
  <2>4. CASE WipeDone \/ DeliverStatus \/ GateReply \/ \E c \in Polls : PollHealth(c) \/ SyncMicGate(c)
    BY <2>4, OtherHonest DEF WipeDone, DeliverStatus, GateReply, PollHealth, SyncMicGate,
      shown, appVars, engineVars, laterVars
  <2>. QED
    BY <1>2, <2>1, <2>2, <2>3, <2>4 DEF Main
<1>3. CASE Http
  BY <1>3, OtherHonest DEF Http, RefusePost, TimeOutPost, AnswerGet, TakePost, FinishPost,
    shown, appVars, engineVars
<1>4. CASE Process
  <2>1. ASSUME NEW e \in Engines, Exit(e)
        PROVE  Honest'
    BY <2>1, OtherHonest DEF Exit, shown, appVars, Types, EngineTypes
  <2>2. ASSUME NEW e \in Engines, Boot(e)
        PROVE  Honest'
    BY <2>1, <2>2, OtherHonest DEF Boot, shown, appVars, Types, EngineTypes
  <2>3. ASSUME NEW e \in Engines, AutoStart(e) \/ AutoLoaded(e)
        PROVE  Honest'
    BY <2>3, OtherHonest DEF AutoStart, AutoLoaded, shown, appVars
  <2>. QED
    BY <1>4, <2>1, <2>2, <2>3 DEF Process, Crash, Terminate
<1>5. CASE World
  <2>1. CASE Launch
    BY <2>1, StartHonest, OtherHonest DEF Launch, shown, engineVars
  <2>2. CASE Quit \/ Kill
    <3>1. TrackInv' /\ StatusHonest' /\ RespawnOnlyAfterCrash'
      BY <2>2 DEF Quit, Kill, Gone, TrackInv, StatusHonest, RespawnOnlyAfterCrash
    <3>2. OneEngine'
      <4>1. CASE Quit
        BY <4>1 DEF Quit, Gone, OneEngine, Honest
      <4>2. CASE Kill
        <5>1. used'.kills # 0
          BY <4>2 DEF Kill, Use, Types, WorldTypes, Bounds
        <5>. QED
          BY <5>1 DEF OneEngine
      <4>. QED
        BY <2>2, <4>1, <4>2
    <3>. QED
      BY <3>1, <3>2 DEF Honest
  <2>3. CASE Talk \/ Revoke \/ Grant
    BY <2>3, OtherHonest DEF Talk, Revoke, Grant, shown, appVars, engineVars
  <2>. QED
    BY <1>5, <2>1, <2>2, <2>3 DEF World
<1>6. CASE UNCHANGED vars
  BY <1>6, OtherHonest DEF vars, shown, appVars, engineVars
<1>. QED
  BY <1>1, <1>2, <1>3, <1>4, <1>5, <1>6 DEF Next

-----------------------------------------------------------------------------
(* The respawn budget.                                                      *)

\* What the budget is made of.
budgetVars == <<appUp, restartWork, restartAttempts, pid, lateStarts, wiping, resumeWork>>

\* Only a click counts as one.
LEMMA UseMoves ==
    ASSUME Types, NEW k \in DOMAIN Bounds, Use(k)
    PROVE  /\ used' \in [DOMAIN Bounds -> Nat]
           /\ k # "acts" => used'.acts = used.acts
           /\ k = "acts" => used'.acts = used.acts + 1 /\ used'.acts <= MaxActs
  BY DEF Use, Types, WorldTypes, Bounds

LEMMA Counts ==
    /\ Types => Scheduled \in Nat /\ used.acts \in Nat
    /\ Types' => Scheduled' \in Nat /\ used'.acts \in Nat
<1>1. "acts" \in DOMAIN Bounds
  BY DEF Bounds
<1>2. Types => lateStarts \in Nat /\ wiping \in Nat /\ used.acts \in Nat
  BY <1>1 DEF Types, LaterTypes, WorldTypes
<1>3. Types' => lateStarts' \in Nat /\ wiping' \in Nat /\ used'.acts \in Nat
  <2>. SUFFICES ASSUME Types'
                PROVE  lateStarts' \in Nat /\ wiping' \in Nat /\ used' \in [DOMAIN Bounds -> Nat]
    BY <1>1
  <2>. QED
    BY DEF Types, LaterTypes, WorldTypes, Bounds
<1>. QED
  BY <1>2, <1>3 DEF Scheduled

\* A start that a click asked for, or that was scheduled, or that the budget allows.
LEMMA StartBudget ==
    ASSUME Types, Types', BudgetInv, Start, UNCHANGED wiping,
           used.acts <= used'.acts, used'.acts <= MaxActs,
           \/ used'.acts = used.acts + 1 /\ Scheduled' <= Scheduled
           \/ Scheduled' < Scheduled
           \/ restartWork /\ Scheduled' <= Scheduled
           \/ ~appUp /\ Scheduled' <= Scheduled
    PROVE  BudgetInv'
<1>1. Scheduled \in Nat /\ Scheduled' \in Nat /\ used.acts \in Nat /\ used'.acts \in Nat
  BY Counts
<1>2. restartAttempts' = restartAttempts /\ restartWork' = FALSE /\ appUp' = TRUE
  BY StartMoves
<1>3. restartAttempts \in Nat /\ MaxRestartAttempts \in Nat /\ MaxActs \in Nat
  BY DEF Types, AppTypes
<1>4. pid' # pid => pid = NoEngine
  BY StartMoves
<1>. DEFINE held == IF pid = NoEngine THEN 0 ELSE 1
<1>5. held' <= held + 1 /\ held \in 0 .. 1 /\ held' \in 0 .. 1
  BY <1>4
<1>6. restartAttempts + held + Scheduled <= MaxRestartAttempts + 1 + used.acts
  BY DEF BudgetInv
<1>7. Scheduled' <= used'.acts
  <2>1. Scheduled <= used.acts
    BY DEF BudgetInv
  <2>2. CASE Scheduled' <= Scheduled
    BY <1>1, <2>1, <2>2
  <2>3. CASE Scheduled' < Scheduled
    BY <1>1, <2>1, <2>3
  <2>. QED
    BY <2>2, <2>3
<1>. HIDE DEF held
<1>8. restartAttempts + held' + Scheduled' <= MaxRestartAttempts + 1 + used'.acts
  <2>1. CASE used'.acts = used.acts + 1 /\ Scheduled' <= Scheduled
    BY <2>1, <1>1, <1>3, <1>5, <1>6
  <2>2. CASE Scheduled' < Scheduled
    BY <2>2, <1>1, <1>3, <1>5, <1>6
  <2>3. CASE restartWork /\ Scheduled' <= Scheduled
    <3>1. restartAttempts <= MaxRestartAttempts
      BY <2>3 DEF BudgetInv
    <3>. QED
      BY <3>1, <1>1, <1>3, <1>5, <1>7
  <2>4. CASE ~appUp /\ Scheduled' <= Scheduled
    <3>1. restartAttempts = 0
      BY <2>4 DEF BudgetInv
    <3>. QED
      BY <3>1, <1>1, <1>3, <1>5, <1>7
  <2>. QED
    BY <2>1, <2>2, <2>3, <2>4
<1>. QED
  BY <1>2, <1>7, <1>8 DEF BudgetInv, held

\* A stop uses a click, and schedules at most one start.
LEMMA StopBudget ==
    ASSUME Types, Types', BudgetInv, NEW s \in {"paused", "stopped"}, NEW timed \in BOOLEAN,
           Stop(s, timed), Click, Scheduled' <= Scheduled + 1
    PROVE  BudgetInv'
<1>1. Scheduled \in Nat /\ Scheduled' \in Nat /\ used.acts \in Nat /\ used'.acts \in Nat
  BY Counts
<1>2. used'.acts = used.acts + 1 /\ used'.acts <= MaxActs
  BY UseMoves DEF Click, Bounds
<1>3. restartAttempts' = restartAttempts /\ restartWork' = FALSE /\ appUp' = appUp /\ pid' = NoEngine /\ appUp
  BY StopMoves DEF Click
<1>4. restartAttempts \in Nat /\ MaxRestartAttempts \in Nat /\ MaxActs \in Nat
  BY DEF Types, AppTypes
<1>. QED
  BY <1>1, <1>2, <1>3, <1>4 DEF BudgetInv

\* A step that starts and schedules nothing.
LEMMA OtherBudget ==
    ASSUME Types, BudgetInv, UNCHANGED budgetVars,
           used' = used \/ \E k \in DOMAIN Bounds \ {"acts"} : Use(k)
    PROVE  BudgetInv'
<1>1. used'.acts = used.acts
  BY UseMoves
<1>. QED
  BY <1>1 DEF BudgetInv, Scheduled, budgetVars

LEMMA BudgetStep ==
    ASSUME Types, Types', Honest, BudgetInv, [Next]_vars
    PROVE  BudgetInv'
<1>0. /\ Scheduled \in Nat /\ used.acts \in Nat /\ used.acts <= MaxActs /\ MaxActs \in Nat
      /\ Click => /\ appUp
                  /\ used'.acts = used.acts + 1 /\ used'.acts <= MaxActs
                  /\ used.acts <= used'.acts
  BY Counts, UseMoves DEF Click, Bounds, BudgetInv
<1>1. CASE User
  <2>1. CASE TogglePause
    <3>1. Scheduled' = Scheduled /\ UNCHANGED wiping /\ Click
      BY <2>1 DEF TogglePause, Scheduled
    <3>2. CASE Start
      BY <1>0, <3>1, <3>2, StartBudget
    <3>3. CASE Stop("paused", FALSE)
      <4>1. Scheduled' <= Scheduled + 1
        BY <1>0, <3>1
      <4>. QED
        BY <3>1, <3>3, <4>1, StopBudget
    <3>. QED
      BY <2>1, <3>2, <3>3 DEF TogglePause
  <2>2. ASSUME NEW timed \in BOOLEAN, OnPause(timed)
        PROVE  BudgetInv'
    <3>1. Scheduled' <= Scheduled + 1
      BY <2>2 DEF OnPause, Scheduled, Types, LaterTypes
    <3>. QED
      BY <2>2, <3>1, StopBudget DEF OnPause
  <2>3. CASE OnResume
    <3>1. Scheduled' <= Scheduled
      BY <2>3 DEF OnResume, Scheduled, Types, LaterTypes
    <3>. QED
      BY <1>0, <2>3, <3>1, StartBudget DEF OnResume
  <2>4. CASE OnboardingDone
    BY <1>0, <2>4, StartBudget DEF OnboardingDone, Scheduled
  <2>5. CASE Restart
    <3>1. Scheduled' <= Scheduled + 1
      BY <2>5 DEF Restart, Scheduled, Types, LaterTypes
    <3>. QED
      BY <2>5, <3>1, StopBudget DEF Restart
  <2>6. CASE WithEnginePaused
    <3>1. Scheduled' <= Scheduled + 1
      BY <2>6 DEF WithEnginePaused, Scheduled, Types, LaterTypes
    <3>. QED
      BY <2>6, <3>1, StopBudget DEF WithEnginePaused
  <2>. QED
    BY <1>1, <2>1, <2>2, <2>3, <2>4, <2>5, <2>6 DEF User
<1>2. CASE Main
  <2>1. CASE LateStart
    <3>1. Scheduled' < Scheduled
      BY <2>1 DEF LateStart, Scheduled, Types, LaterTypes
    <3>. QED
      BY <1>0, <2>1, <3>1, StartBudget DEF LateStart
  <2>2. CASE TimedResume
    <3>1. Scheduled' < Scheduled
      BY <2>2 DEF TimedResume, Scheduled, Types, LaterTypes
    <3>. QED
      BY <1>0, <2>2, <3>1, StartBudget DEF TimedResume
  <2>3. CASE RestartFires
    BY <1>0, <2>3, StartBudget DEF RestartFires, Scheduled
  <2>4. CASE WipeDone
    <3>1. Scheduled' = Scheduled /\ UNCHANGED <<appUp, restartWork, restartAttempts, pid, used>>
      BY <2>4 DEF WipeDone, Scheduled, Types, LaterTypes, appVars, worldVars
    <3>. QED
      BY <3>1 DEF BudgetInv
  <2>5. CASE DeliverStatus
    <3>1. Scheduled' <= Scheduled /\ appUp /\ UNCHANGED <<appUp, restartWork, restartAttempts, pid, used>>
      BY <2>5 DEF DeliverStatus, Scheduled, Types, LaterTypes, appVars, worldVars
    <3>2. Scheduled' \in Nat /\ restartAttempts \in Nat /\ MaxRestartAttempts \in Nat
      BY Counts DEF Types, AppTypes
    <3>. QED
      BY <1>0, <3>1, <3>2 DEF BudgetInv
  <2>6. CASE ExitHandler
    <3>1. /\ pid # NoEngine /\ pid' = NoEngine /\ appUp /\ ~restartWork
          /\ UNCHANGED <<appUp, used, lateStarts, wiping, resumeWork>>
      BY <2>6 DEF ExitHandler, Honest, TrackInv, RespawnOnlyAfterCrash, worldVars
    <3>2. Scheduled' = Scheduled
      BY <3>1 DEF Scheduled
    <3>3. \/ UNCHANGED <<restartAttempts, restartWork>>
          \/ /\ restartAttempts' = restartAttempts + 1
             /\ restartWork' => restartAttempts' <= MaxRestartAttempts
      BY <2>6, <3>1 DEF ExitHandler, SetStatus, Publish
    <3>4. restartAttempts \in Nat /\ MaxRestartAttempts \in Nat
      BY DEF Types, AppTypes
    <3>. QED
      BY <1>0, <3>1, <3>2, <3>3, <3>4 DEF BudgetInv
  <2>7. ASSUME NEW c \in Polls, HealthReply(c)
        PROVE  BudgetInv'
    <3>1. /\ UNCHANGED <<appUp, restartWork, pid, lateStarts, wiping, resumeWork, used>>
          /\ restartAttempts' \in {0, restartAttempts} /\ appUp
      BY <2>7 DEF HealthReply, worldVars
    <3>2. Scheduled' = Scheduled
      BY <3>1 DEF Scheduled
    <3>3. restartAttempts \in Nat /\ MaxRestartAttempts \in Nat
      BY DEF Types, AppTypes
    <3>. QED
      BY <1>0, <3>1, <3>2, <3>3 DEF BudgetInv
  <2>8. CASE GateReply \/ \E c \in Polls : PollHealth(c) \/ SyncMicGate(c)
    BY <2>8, OtherBudget DEF GateReply, PollHealth, SyncMicGate, budgetVars, appVars, laterVars,
      worldVars
  <2>. QED
    BY <1>2, <2>1, <2>2, <2>3, <2>4, <2>5, <2>6, <2>7, <2>8 DEF Main
<1>3. CASE Http
  BY <1>3, OtherBudget DEF Http, RefusePost, TimeOutPost, AnswerGet, TakePost, FinishPost,
    budgetVars, appVars, laterVars, worldVars, Bounds
<1>4. CASE Process
  BY <1>4, OtherBudget DEF Process, Boot, Crash, Terminate, Exit, AutoStart, AutoLoaded,
    budgetVars, appVars, laterVars, worldVars, Bounds
<1>5. CASE World
  <2>1. CASE Launch
    <3>1. CASE Start
      BY <1>0, <2>1, <3>1, StartBudget DEF Launch, Scheduled
    <3>2. CASE ~Start
      <4>1. /\ appUp' = TRUE
            /\ UNCHANGED <<restartWork, restartAttempts, pid, lateStarts, wiping, resumeWork, used>>
        BY <2>1, <3>2 DEF Launch
      <4>. QED
        BY <4>1 DEF BudgetInv, Scheduled
    <3>. QED
      BY <2>1, <3>1, <3>2 DEF Launch
  <2>2. CASE Quit \/ Kill
    <3>1. used'.acts = used.acts
      BY <2>2, UseMoves DEF Quit, Kill, Bounds
    <3>2. Scheduled' = 0 /\ restartWork' = FALSE /\ restartAttempts' = 0 /\ pid' = NoEngine
      BY <2>2 DEF Quit, Kill, Gone, Scheduled
    <3>3. MaxRestartAttempts \in Nat
      OBVIOUS
    <3>. QED
      BY <1>0, <3>1, <3>2, <3>3 DEF BudgetInv
  <2>3. CASE Talk \/ Revoke \/ Grant
    BY <2>3, OtherBudget DEF Talk, Revoke, Grant, budgetVars, appVars, laterVars, Bounds
  <2>. QED
    BY <1>5, <2>1, <2>2, <2>3 DEF World
<1>6. CASE UNCHANGED vars
  BY <1>6, OtherBudget DEF vars, budgetVars, appVars, laterVars, worldVars
<1>. QED
  BY <1>1, <1>2, <1>3, <1>4, <1>5, <1>6 DEF Next

-----------------------------------------------------------------------------
(* The inductive invariant, and what it gives for every behaviour.          *)

LEMMA InitIInv == Init => IInv
<1>. SUFFICES ASSUME Init
              PROVE  IInv
  OBVIOUS
<1>1. used \in [DOMAIN Bounds -> Nat] /\ used.acts = 0
  BY DEF Init, Bounds
<1>2. Types
  <2>1. AppTypes
    BY DEF Init, Statuses, AppTypes
  <2>2. LaterTypes
    <3>1. lateStarts \in Nat /\ wiping \in Nat /\ sink \in 0 .. 2
      BY DEF Init
    <3>2. resumeWork \in BOOLEAN /\ timedPause \in BOOLEAN
      BY DEF Init
    <3>. QED
      BY <3>1, <3>2 DEF LaterTypes
  <2>3. poll \in [Polls -> Phases] /\ PostTypes
    BY DEF Init, Phases, NoPost, PostTypes
  <2>4. EngineTypes /\ WorldTypes
    BY <1>1 DEF Init, EngineTypes, WorldTypes
  <2>. QED
    BY <2>1, <2>2, <2>3, <2>4 DEF Types
<1>3. Honest
  BY DEF Init, Honest, TrackInv, OneEngine, StatusHonest, RespawnOnlyAfterCrash
<1>4. BudgetInv
  BY <1>1 DEF Init, BudgetInv, Scheduled
<1>. QED
  BY <1>2, <1>3, <1>4 DEF IInv, Honest

LEMMA NextIInv == IInv /\ [Next]_vars => IInv'
<1>. SUFFICES ASSUME IInv, [Next]_vars
              PROVE  IInv'
  OBVIOUS
<1>1. Types' /\ Honest'
  BY TypesStep, HonestStep DEF IInv, Honest
<1>2. BudgetInv'
  BY <1>1, BudgetStep DEF IInv, Honest
<1>. QED
  BY <1>1, <1>2 DEF IInv, Honest

THEOREM Invariant == Spec => []IInv
  BY InitIInv, NextIInv, PTL DEF Spec

\* The app never tracks more or fewer engines than it runs: one it has not told to stop
\* is the one it holds, watches and polls, unless the app itself was killed.
THEOREM Tracked == Spec => []OneEngine
<1>1. IInv => OneEngine
  BY DEF IInv
<1>. QED
  BY <1>1, Invariant, PTL

\* The status the user sees is the state of the supervisor.
THEOREM Shown == Spec => []StatusHonest
<1>1. IInv => StatusHonest
  BY DEF IInv
<1>. QED
  BY <1>1, Invariant, PTL

\* stop() withdraws the respawn of a crashed engine, on every path.
THEOREM Withdrawn == Spec => []RespawnOnlyAfterCrash
<1>1. IInv => RespawnOnlyAfterCrash
  BY DEF IInv
<1>. QED
  BY <1>1, Invariant, PTL

\* Types, and the respawn budget: every exit counted beyond it is one of an engine that
\* the user started.
THEOREM Budget == Spec => []TypeOK
<1>1. IInv => TypeOK
  <2>. SUFFICES ASSUME IInv
                PROVE  TypeOK
    OBVIOUS
  <2>1. Types /\ BudgetInv
    BY DEF IInv
  <2>2. Scheduled \in Nat /\ used.acts \in Nat
    BY <2>1, Counts
  <2>3. MaxRestartAttempts \in Nat /\ MaxActs \in Nat /\ restartAttempts \in Nat
    BY <2>1 DEF Types, AppTypes
  <2>4. restartAttempts \in 0 .. MaxRestartAttempts + 1 + MaxActs
    BY <2>1, <2>2, <2>3 DEF BudgetInv
  <2>. QED
    BY <2>1, <2>4 DEF Types, AppTypes, LaterTypes, PostTypes, EngineTypes, WorldTypes, TypeOK
<1>. QED
  BY <1>1, Invariant, PTL

=============================================================================
