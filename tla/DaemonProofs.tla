---------------------------- MODULE DaemonProofs -----------------------------
(***************************************************************************)
(* Theorems about the daemon, for any number of browsers, requests, frames *)
(* and faults: what a switch of modes, a rollback and a shutdown leave of  *)
(* the camera, the worker and the cache, and what a browser is shown.      *)
(***************************************************************************)
EXTENDS Daemon, TLAPS

----------------------------------------------------------------------------
(* Type correctness *)

Cpc == {"off", "check", "wait", "send"}

\* What clients do keeps the types of the server.
LEMMA ClientTypes ==
    ASSUME ServerTypeOK, NEW c \in Clients,
           ClientStep(c) \/ Connect(c) \/ Sent(c) \/ SendFails(c) \/ CopyFails(c)
    PROVE  ServerTypeOK'
  <1> USE DEF ServerTypeOK, cache, To
  <1>1. CASE EndStream(c) \/ Wait(c) \/ Sent(c) \/ SendFails(c) \/ CopyFails(c)
    BY <1>1 DEF EndStream, Wait, Sent, SendFails, CopyFails
  <1>2. CASE TakeFrame(c)
    BY <1>2 DEF TakeFrame
  <1>3. CASE Connect(c)
    BY <1>3 DEF Connect
  <1> QED
    BY <1>1, <1>2, <1>3 DEF ClientStep

LEMMA ServerTypes ==
    ASSUME ServerTypeOK,
           \/ Publish \/ Clear \/ StopFlag \/ StopBroadcast \/ AcceptLoopEnds \/ AllThreadsGone
           \/ \E m \in Mode : SetMode(m)
    PROVE  ServerTypeOK'
  <1> USE DEF ServerTypeOK, cache, client
  <1>1. Broadcast => cpc' \in [Clients -> Cpc]
    BY DEF Broadcast, Cpc
  <1>2. CASE Publish \/ Clear
    <2>1. cpc' \in [Clients -> Cpc] /\ UNCHANGED <<http_running, listening, mode, last_seq, copy>>
      BY <1>1, <1>2 DEF Publish, Clear
    <2>2. valid' \in BOOLEAN /\ seq' \in Nat /\ frame' \in Nat
      <3>1. CASE Publish
        BY <3>1 DEF Publish
      <3>2. CASE Clear
        <4>1. valid' = FALSE /\ seq' = seq + 1 /\ frame' = frame
          BY <3>2 DEF Clear
        <4>2. seq' \in Nat /\ frame' \in Nat
          BY <4>1
        <4>3. valid' \in BOOLEAN
          BY <4>1, Zenon
        <4> QED
          BY <4>2, <4>3
      <3> QED
        BY <1>2, <3>1, <3>2
    <2> QED
      BY <2>1, <2>2 DEF Cpc
  <1>3. CASE StopFlag \/ AcceptLoopEnds \/ \E m \in Mode : SetMode(m)
    BY <1>3 DEF StopFlag, AcceptLoopEnds, SetMode
  <1>4. CASE StopBroadcast \/ AllThreadsGone
    BY <1>1, <1>4 DEF StopBroadcast, AllThreadsGone, Cpc
  <1> QED
    BY <1>2, <1>3, <1>4

\* camera_reopen_with_retry has not used up its attempts while it makes one; the
\* bound on tries rests on it.
TriesLeft == mpc \in {"format", "buffers", "stream"} => tries < Tries

MainTypes ==
    /\ phase \in {"boot", "run", "switch", "back", "exit"}
    /\ mpc \in {"loop", "capture", "join", "joining", "clear", "close", "open", "format",
                "buffers", "stream", "reclear", "spawn", "restore", "flag", "broadcast", "accept", "done"}
    /\ active \in Mode /\ want \in Mode /\ fmt \in Mode
    /\ tries \in 0 .. Tries
    /\ cam \in {"closed", "open", "buffers", "streaming"}
    /\ lost \in Nat /\ busy \in BOOLEAN

RestTypes ==
    /\ ServerTypeOK /\ g_running \in BOOLEAN
    /\ running \in BOOLEAN /\ stop \in BOOLEAN
    /\ wpc \in {"none", "setup", "loop", "dequeue", "encode", "queue", "clear", "end", "done"}
    /\ posts \in 0 .. MaxPosts /\ faults \in 0 .. MaxFaults

LEMMA Split == TypeOK <=> MainTypes /\ RestTypes
  BY DEF TypeOK, MainTypes, RestTypes

LEMMA FaultTypes == ASSUME RestTypes, Fault PROVE faults' \in 0 .. MaxFaults
  BY BoundAssumption DEF RestTypes, Fault

\* The main thread outside its attempts to open the camera.
LEMMA MainStepTypes ==
    ASSUME MainTypes, TriesLeft, mode \in Mode,
           \/ NoticeMode \/ LeaveLoop \/ BeginCapture \/ EndCapture \/ StopWorker \/ JoinWorker
           \/ ClearAfterJoin \/ CloseCamera \/ GiveUp \/ ClearBeforeSpawn \/ SpawnWorker \/ SpawnFails
           \/ RestoreMode \/ StopServer \/ WakeStreams \/ JoinServer
    PROVE  MainTypes' /\ TriesLeft'
  <1> USE DEF MainTypes, TriesLeft, Go, Phase, camera, Tries
  <1>1. CASE NoticeMode \/ LeaveLoop
    BY <1>1 DEF NoticeMode, LeaveLoop, FirstOfExit
  <1>2. CASE BeginCapture \/ EndCapture
    BY <1>2 DEF BeginCapture, EndCapture
  <1>3. CASE StopWorker \/ JoinWorker
    BY <1>3 DEF StopWorker, JoinWorker
  <1>4. CASE ClearAfterJoin \/ CloseCamera \/ ClearBeforeSpawn
    BY <1>4 DEF ClearAfterJoin, CloseCamera, ClearBeforeSpawn
  <1>5. CASE GiveUp \/ SpawnFails
    BY <1>5 DEF GiveUp, SpawnFails, RollBackOrExit, FirstOfExit
  <1>6. CASE SpawnWorker
    BY <1>6 DEF SpawnWorker, Target
  <1>7. CASE RestoreMode \/ StopServer \/ WakeStreams \/ JoinServer
    BY <1>7 DEF RestoreMode, StopServer, WakeStreams, JoinServer
  <1> QED
    BY <1>1, <1>2, <1>3, <1>4, <1>5, <1>6, <1>7

LEMMA OpenStepTypes ==
    ASSUME MainTypes, TriesLeft, OpenDevice \/ SetFormat \/ MapBuffers \/ StartStream
    PROVE  MainTypes' /\ TriesLeft'
  <1> USE DEF MainTypes, TriesLeft, Go, Phase, Tries
  <1>a. ASSUME AttemptFails, tries < Tries
        PROVE  /\ tries' \in 0 .. Tries /\ mpc' \in {"flag", "open"} /\ phase' \in {"exit", phase}
    BY <1>a DEF AttemptFails
  <1>1. CASE OpenDevice
    <2>1. tries < Tries /\ UNCHANGED <<active, want>>
          /\ lost' \in Nat /\ busy' \in BOOLEAN /\ fmt' \in Mode
      BY <1>1 DEF OpenDevice, Forget, Target
    <2>2. CASE Succeeds("open", "format") /\ cam' = "open"
      BY <2>1, <2>2 DEF Succeeds
    <2>3. CASE AttemptFails /\ cam' = "closed"
      BY <2>1, <2>3, <1>a
    <2> QED
      BY <1>1, <2>2, <2>3 DEF OpenDevice
  <1>2. CASE SetFormat
    <2>1. tries < Tries /\ UNCHANGED <<active, want, cam, fmt, lost, busy>>
      BY <1>2 DEF SetFormat, camera
    <2>2. CASE Succeeds("format", "buffers")
      BY <2>1, <2>2 DEF Succeeds
    <2>3. CASE AttemptFails
      BY <2>1, <2>3, <1>a
    <2> QED
      BY <1>2, <2>2, <2>3 DEF SetFormat
  <1>3. CASE MapBuffers
    <2>1. tries < Tries /\ UNCHANGED <<active, want, fmt, lost, busy>> /\ cam' \in {"open", "buffers"}
      BY <1>3 DEF MapBuffers
    <2>2. CASE Succeeds("buffers", "stream")
      BY <2>1, <2>2 DEF Succeeds
    <2>3. CASE AttemptFails
      BY <2>1, <2>3, <1>a
    <2> QED
      BY <1>3, <2>2, <2>3 DEF MapBuffers
  <1>4. CASE StartStream
    <2>1. tries < Tries /\ UNCHANGED <<want, fmt, lost, busy>> /\ cam' \in {"streaming", "closed"}
      BY <1>4 DEF StartStream
    <2>2. CASE Opened /\ UNCHANGED tries
      BY <2>1, <2>2 DEF Opened, Target
    <2>3. CASE AttemptFails /\ UNCHANGED active
      BY <2>1, <2>3, <1>a
    <2> QED
      BY <1>4, <2>2, <2>3 DEF StartStream
  <1> QED
    BY <1>1, <1>2, <1>3, <1>4

LEMMA TypeStep == ASSUME TypeOK, TriesLeft, [Next]_vars PROVE TypeOK' /\ TriesLeft'
  <1>t. MainTypes /\ RestTypes /\ ServerTypeOK /\ mode \in Mode
    BY Split DEF RestTypes, ServerTypeOK
  <1>z. MainTypes' /\ RestTypes' => TypeOK'
    BY DEF MainTypes, RestTypes, TypeOK
  <1> USE DEF main, camera, worker, bounds
  <1>s. UNCHANGED serverVars => ServerTypeOK'
    BY <1>t DEF serverVars, cache, client, ServerTypeOK
  <1>m. UNCHANGED <<main, camera>> => MainTypes' /\ TriesLeft'
    BY <1>t DEF MainTypes, TriesLeft
  <1>f. Fault => faults' \in 0 .. MaxFaults
    BY <1>t, FaultTypes
  <1>1. ASSUME NEW m \in Mode, PostMode(m) PROVE TypeOK' /\ TriesLeft'
    <2>1. ServerTypeOK'
      BY <1>1, <1>t, ServerTypes DEF PostMode
    <2>2. posts' \in 0 .. MaxPosts
      BY <1>1, <1>t, BoundAssumption DEF PostMode, RestTypes
    <2>3. RestTypes'
      BY <1>1, <1>t, <2>1, <2>2 DEF PostMode, RestTypes
    <2> QED
      BY <1>1, <1>m, <2>3, <1>z DEF PostMode
  <1>2. CASE Interrupt
    <2>1. RestTypes'
      BY <1>2, <1>s, <1>t DEF Interrupt, RestTypes
    <2> QED
      BY <1>2, <1>m, <2>1, <1>z DEF Interrupt
  <1>3. CASE NoticeMode \/ LeaveLoop \/ BeginCapture \/ EndCapture \/ StopWorker \/ JoinWorker
             \/ ClearAfterJoin \/ CloseCamera \/ GiveUp \/ ClearBeforeSpawn \/ SpawnWorker \/ SpawnFails
             \/ RestoreMode \/ StopServer \/ WakeStreams \/ JoinServer
    <2>1. MainTypes' /\ TriesLeft'
      BY <1>3, <1>t, MainStepTypes
    <2>2. ServerTypeOK'
      <3>1. \/ UNCHANGED serverVars \/ Clear \/ StopFlag \/ StopBroadcast \/ SetMode(active)
        BY <1>3 DEF NoticeMode, LeaveLoop, BeginCapture, EndCapture, StopWorker, JoinWorker,
             ClearAfterJoin, CloseCamera, GiveUp, ClearBeforeSpawn, SpawnWorker, SpawnFails,
             RestoreMode, StopServer, WakeStreams, JoinServer
      <3>2. active \in Mode
        BY <1>t DEF MainTypes
      <3> QED
        BY <1>s, <1>t, <3>1, <3>2, ServerTypes
    <2>3. /\ running' \in BOOLEAN /\ stop' \in BOOLEAN
          /\ wpc' \in {"none", "setup", "loop", "dequeue", "encode", "queue", "clear", "end", "done"}
      BY <1>3, <1>t DEF NoticeMode, LeaveLoop, BeginCapture, EndCapture, StopWorker, JoinWorker,
             ClearAfterJoin, CloseCamera, GiveUp, ClearBeforeSpawn, SpawnWorker, SpawnFails,
             RestoreMode, StopServer, WakeStreams, JoinServer, RestTypes
    <2>4. g_running' \in BOOLEAN /\ posts' \in 0 .. MaxPosts /\ faults' \in 0 .. MaxFaults
      BY <1>3, <1>t, <1>f DEF NoticeMode, LeaveLoop, BeginCapture, EndCapture, StopWorker, JoinWorker,
             ClearAfterJoin, CloseCamera, GiveUp, ClearBeforeSpawn, SpawnWorker, SpawnFails,
             RestoreMode, StopServer, WakeStreams, JoinServer, RestTypes
    <2> QED
      BY <2>1, <2>2, <2>3, <2>4, <1>z DEF RestTypes
  <1>4. CASE OpenDevice \/ SetFormat \/ MapBuffers \/ StartStream
    <2>1. MainTypes' /\ TriesLeft'
      BY <1>4, <1>t, OpenStepTypes
    <2>2. UNCHANGED <<serverVars, g_running, running, stop, wpc, posts>>
      BY <1>4 DEF OpenDevice, SetFormat, MapBuffers, StartStream
    <2>3. UNCHANGED faults \/ Fault
      BY <1>4 DEF OpenDevice, SetFormat, MapBuffers, StartStream, Succeeds
    <2>4. RestTypes'
      BY <1>f, <1>s, <1>t, <2>2, <2>3 DEF RestTypes
    <2> QED
      BY <2>1, <2>4, <1>z
  <1>5. CASE WorkerStep
    <2>1. UNCHANGED <<main, camera, g_running, posts>>
      BY <1>5 DEF WorkerStep, WorkerSetup, WorkerTest, WorkerDequeue, WorkerPublish, WorkerSkip, WorkerQueue,
                  WorkerClear, WorkerEnd
    <2>2. UNCHANGED serverVars \/ Publish \/ Clear
      BY <1>5 DEF WorkerStep, WorkerSetup, WorkerTest, WorkerDequeue, WorkerPublish, WorkerSkip, WorkerQueue,
                  WorkerClear, WorkerEnd
    <2>3. UNCHANGED faults \/ Fault
      BY <1>5 DEF WorkerStep, WorkerSetup, WorkerTest, WorkerDequeue, WorkerPublish, WorkerSkip, WorkerQueue,
                  WorkerClear, WorkerEnd
    <2>4. /\ running' \in BOOLEAN /\ stop' \in BOOLEAN
          /\ wpc' \in {"none", "setup", "loop", "dequeue", "encode", "queue", "clear", "end", "done"}
      BY <1>5, <1>t DEF WorkerStep, WorkerSetup, WorkerTest, WorkerDequeue, WorkerPublish, WorkerSkip,
                  WorkerQueue, WorkerClear, WorkerEnd, Work, RestTypes
    <2>5. ServerTypeOK'
      BY <1>s, <1>t, <2>2, ServerTypes
    <2> QED
      BY <1>f, <1>m, <1>t, <2>1, <2>3, <2>4, <2>5, <1>z DEF RestTypes
  <1>6. CASE AcceptLoopEnds /\ Daemonless
    <2>1. ServerTypeOK'
      BY <1>6, <1>t, ServerTypes
    <2> QED
      BY <1>6, <1>m, <1>t, <2>1, <1>z DEF Daemonless, RestTypes
  <1>7. ASSUME NEW c \in Clients, ClientThread(c) \/ ((Connect(c) \/ Sent(c) \/ SendFails(c)) /\ Daemonless)
        PROVE  TypeOK' /\ TriesLeft'
    <2>1. (ClientStep(c) \/ Connect(c) \/ Sent(c) \/ SendFails(c)) /\ Daemonless
      BY <1>7 DEF ClientThread
    <2>2. ServerTypeOK'
      BY <1>t, <2>1, ClientTypes
    <2> QED
      BY <1>m, <1>t, <2>1, <2>2, <1>z DEF Daemonless, RestTypes
  <1>8. ASSUME NEW c \in Clients, BrokenPipe(c) PROVE TypeOK' /\ TriesLeft'
    <2>1. ServerTypeOK'
      BY <1>8, <1>t, ServerTypes DEF BrokenPipe
    <2>2. RestTypes'
      BY <1>8, <1>t, <2>1 DEF BrokenPipe, RestTypes
    <2>3. MainTypes' /\ TriesLeft'
      BY <1>8, <1>t DEF BrokenPipe, MainTypes, TriesLeft, Phase
    <2> QED
      BY <2>2, <2>3, <1>z
  <1>10. ASSUME NEW c \in Clients, NoMemory(c) PROVE TypeOK' /\ TriesLeft'
    <2>1. ServerTypeOK'
      BY <1>10, <1>t, ClientTypes DEF NoMemory
    <2> QED
      BY <1>f, <1>m, <1>10, <1>t, <2>1, <1>z DEF NoMemory, RestTypes
  <1>9. CASE UNCHANGED vars
    BY <1>9, <1>m, <1>s, <1>t, <1>z DEF vars, RestTypes
  <1> QED
    BY <1>1, <1>2, <1>3, <1>4, <1>5, <1>6, <1>7, <1>8, <1>9, <1>10, Zenon DEF Next, MainStep

LEMMA TypeInvCorrect == Spec => [](TypeOK /\ TriesLeft)
  <1>1. Init => TypeOK /\ TriesLeft
    <2> SUFFICES ASSUME NEW m \in Mode, ServerInit(m), phase = "boot", mpc = "open", active = m,
                        want = m, tries = 0, cam = "closed", fmt = m, lost = 0, busy = FALSE,
                        running = FALSE, stop = FALSE, wpc = "none", posts = 0, faults = 0,
                        g_running = TRUE
                 PROVE  TypeOK /\ TriesLeft
      BY DEF Init
    <2>1. ServerTypeOK
      BY DEF ServerInit, ServerTypeOK
    <2>2. 0 \in 0 .. MaxPosts /\ 0 \in 0 .. MaxFaults /\ 0 \in 0 .. Tries
      BY BoundAssumption DEF Tries
    <2> QED
      BY <2>1, <2>2 DEF TypeOK, TriesLeft
  <1>2. (TypeOK /\ TriesLeft) /\ [Next]_vars => (TypeOK /\ TriesLeft)'
    BY TypeStep
  <1> QED
    BY <1>1, <1>2, PTL DEF Spec

\* Every variable keeps its type; above all, camera_reopen_with_retry stops at
\* three attempts (main.c).
THEOREM TypeCorrect == Spec => []TypeOK
  BY TypeInvCorrect, PTL
----------------------------------------------------------------------------
(* The camera, the worker and the cache, across switches *)

Alive == wpc \in {"setup", "loop", "dequeue", "encode", "queue", "clear", "end"}

\* phase says that main is in its loop, and there the camera is what it should be.
RunPlace == phase = "run" => mpc \in {"loop", "capture"}

LoopOpen == mpc \in {"loop", "capture", "restore"} => cam = "streaming" /\ fmt = active

\* What is being opened is opened for the mode that main is after.
OpensTarget ==
    /\ mpc \in {"format", "buffers", "stream", "reclear", "spawn"} => fmt = Target
    /\ mpc \in {"reclear", "spawn"} => cam = "streaming" /\ Target = "monitor"

\* While the worker lives, main is in its loop, about to enter it, or waits for
\* the worker; and it knows that there is one to wait for.
WorkerPlace ==
    Alive => /\ cam = "streaming" /\ fmt = "monitor" /\ active = "monitor"
             /\ mpc \in {"loop", "join", "joining", "restore"}
             /\ running

\* No frame of the mode before is offered while the camera is away, or in the
\* other mode.
NoStale ==
    /\ mpc \in {"close", "open", "format", "buffers", "stream", "reclear", "spawn"} => ~valid
    /\ mpc \in {"loop", "capture", "restore"} /\ active = "trigger" => ~valid

WholeInv == RunPlace /\ LoopOpen /\ OpensTarget /\ WorkerPlace /\ NoStale

\* A step that leaves main and the camera alone, and in which no worker appears.
LEMMA WholeFrame ==
    ASSUME WholeInv, UNCHANGED <<main, camera>>, UNCHANGED running \/ ~Alive', Alive' => Alive,
           ~valid' \/ UNCHANGED valid \/ Alive
    PROVE  WholeInv'
  <1>1. UNCHANGED <<phase, mpc, active, want, cam, fmt>>
    BY DEF main, camera
  <1>2. RunPlace' /\ LoopOpen' /\ OpensTarget'
    BY <1>1 DEF WholeInv, RunPlace, LoopOpen, OpensTarget, Target
  <1>3. WorkerPlace'
    BY <1>1 DEF WholeInv, WorkerPlace
  <1>4. NoStale'
    BY <1>1 DEF WholeInv, WorkerPlace, NoStale
  <1> QED
    BY <1>2, <1>3, <1>4 DEF WholeInv

\* Main goes from one place to another, with the camera as it was.
LEMMA WholeMoves ==
    ASSUME TypeOK, WholeInv,
           \/ NoticeMode \/ LeaveLoop \/ BeginCapture \/ EndCapture \/ StopWorker \/ JoinWorker
           \/ ClearAfterJoin \/ GiveUp \/ ClearBeforeSpawn \/ SpawnFails \/ RestoreMode
           \/ StopServer \/ WakeStreams \/ JoinServer
    PROVE  WholeInv'
  <1>t. active \in {"monitor", "trigger"}
    BY DEF TypeOK, Mode
  <1> USE DEF Go, Phase, camera, worker, serverVars, cache
  <1>i. RunPlace /\ LoopOpen /\ OpensTarget /\ WorkerPlace /\ NoStale
    BY DEF WholeInv
  <1>1. CASE NoticeMode \/ LeaveLoop
    <2>1. /\ mpc = "loop" /\ mpc' = FirstOfExit /\ phase' \in {"switch", "exit"}
          /\ UNCHANGED <<active, cam, fmt, wpc, running, valid>>
      BY <1>1 DEF NoticeMode, LeaveLoop
    <2>2. \/ mpc' = "join" /\ active = "monitor"
          \/ mpc' = "close" /\ active = "trigger"
      BY <1>t, <2>1 DEF FirstOfExit
    <2> QED
      BY <1>i, <2>1, <2>2 DEF WholeInv, RunPlace, LoopOpen, OpensTarget, WorkerPlace, NoStale, Alive
  <1>2. CASE BeginCapture \/ EndCapture \/ RestoreMode
    <2>1. /\ mpc \in {"loop", "capture", "restore"} /\ mpc' \in {"loop", "capture"}
          /\ mpc' = "capture" => active = "trigger"
          /\ UNCHANGED <<active, cam, fmt, wpc, running, valid>>
      BY <1>2 DEF BeginCapture, EndCapture, RestoreMode, SetMode
    <2> QED
      BY <1>i, <2>1 DEF WholeInv, RunPlace, LoopOpen, OpensTarget, WorkerPlace, NoStale, Alive
  <1>3. CASE StopWorker \/ JoinWorker
    <2>1. /\ mpc \in {"join", "joining"} /\ mpc' \in {"joining", "clear"}
          /\ mpc' = "joining" \/ ~running \/ wpc' = "none"
          /\ UNCHANGED <<phase, active, cam, fmt, valid>>
          /\ UNCHANGED <<wpc, running>> \/ wpc' = "none"
      BY <1>3 DEF StopWorker, JoinWorker
    <2> QED
      BY <1>i, <2>1 DEF WholeInv, RunPlace, LoopOpen, OpensTarget, WorkerPlace, NoStale, Alive
  <1>4. CASE ClearAfterJoin \/ ClearBeforeSpawn
    <2>1. /\ <<mpc, mpc'>> \in {<<"clear", "close">>, <<"reclear", "spawn">>} /\ ~valid'
          /\ UNCHANGED <<phase, active, want, cam, fmt, wpc, running>>
      BY <1>4 DEF ClearAfterJoin, ClearBeforeSpawn, Clear
    <2> QED
      BY <1>i, <2>1
         DEF WholeInv, RunPlace, LoopOpen, OpensTarget, WorkerPlace, NoStale, Alive, Target
  <1>5. CASE GiveUp \/ SpawnFails
    <2>1. /\ mpc \in {"open", "spawn"} /\ mpc' \in {"close", "join"} /\ phase' \in {"back", "exit"}
          /\ UNCHANGED <<active, wpc, valid>>
      BY <1>5 DEF GiveUp, SpawnFails, RollBackOrExit, FirstOfExit
    <2> QED
      BY <1>i, <2>1 DEF WholeInv, RunPlace, LoopOpen, OpensTarget, WorkerPlace, NoStale, Alive
  <1>6. CASE StopServer \/ WakeStreams \/ JoinServer
    <2>1. /\ mpc \in {"flag", "broadcast", "accept"} /\ mpc' \in {"broadcast", "accept", "done"}
          /\ UNCHANGED <<phase, active, wpc, valid>>
      BY <1>6 DEF StopServer, WakeStreams, JoinServer, StopFlag, StopBroadcast
    <2> QED
      BY <1>i, <2>1 DEF WholeInv, RunPlace, LoopOpen, OpensTarget, WorkerPlace, NoStale, Alive
  <1> QED
    BY <1>1, <1>2, <1>3, <1>4, <1>5, <1>6

\* Main closes the camera, or opens it for its target.
LEMMA WholeOpens ==
    ASSUME TypeOK, WholeInv,
           CloseCamera \/ OpenDevice \/ SetFormat \/ MapBuffers \/ StartStream \/ SpawnWorker
    PROVE  WholeInv'
  <1>t. active \in {"monitor", "trigger"} /\ want \in {"monitor", "trigger"}
    BY DEF TypeOK, Mode
  <1> USE DEF Go, Phase, camera, worker, serverVars, cache
  <1>i. RunPlace /\ LoopOpen /\ OpensTarget /\ WorkerPlace /\ NoStale
    BY DEF WholeInv
  <1>o. mpc \in {"close", "open", "format", "buffers", "stream", "spawn"}
    BY DEF CloseCamera, OpenDevice, SetFormat, MapBuffers, StartStream, SpawnWorker, Succeeds
  <1>v. UNCHANGED valid /\ ~valid /\ ~Alive
    <2>1. UNCHANGED valid
      BY DEF CloseCamera, OpenDevice, SetFormat, MapBuffers, StartStream, SpawnWorker
    <2> QED
      BY <1>i, <1>o, <2>1 DEF NoStale, WorkerPlace
  <1>r. phase # "run"
    BY <1>i, <1>o DEF RunPlace
  <1>f. ASSUME mpc' \in {"flag", "open"}, phase' \in {phase, "exit"}, UNCHANGED wpc
        PROVE  WholeInv'
    BY <1>f, <1>v, <1>r DEF WholeInv, RunPlace, LoopOpen, OpensTarget, WorkerPlace, NoStale, Alive
  <1>a. ASSUME AttemptFails, UNCHANGED wpc
        PROVE  WholeInv'
    BY <1>a, <1>f DEF AttemptFails
  <1>s. ASSUME NEW p \in {"format", "buffers", "stream"}, mpc' = p, UNCHANGED <<phase, active, want, wpc>>,
               fmt' = Target
        PROVE  WholeInv'
    BY <1>s, <1>v, <1>r
       DEF WholeInv, RunPlace, LoopOpen, OpensTarget, WorkerPlace, NoStale, Alive, Target
  <1>1. CASE CloseCamera
    BY <1>1, <1>f DEF CloseCamera
  <1>2. CASE OpenDevice
    <2>1. UNCHANGED <<active, want, wpc>> /\ fmt' = Target
      BY <1>2 DEF OpenDevice, Forget
    <2> QED
      BY <1>2, <1>a, <1>s, <2>1 DEF OpenDevice, Succeeds
  <1>3. CASE SetFormat \/ MapBuffers
    <2>1. UNCHANGED <<active, want, wpc, fmt>>
      BY <1>3 DEF SetFormat, MapBuffers
    <2>2. fmt' = Target
      BY <1>3, <1>i, <2>1 DEF OpensTarget, SetFormat, MapBuffers
    <2> QED
      BY <1>3, <1>a, <1>s, <2>1, <2>2 DEF SetFormat, MapBuffers, Succeeds
  <1>4. CASE StartStream
    <2>1. UNCHANGED <<want, wpc, fmt>> /\ mpc = "stream"
      BY <1>4 DEF StartStream
    <2>2. CASE AttemptFails
      BY <1>a, <2>1, <2>2
    <2>3. CASE Opened /\ cam' = "streaming"
      <3>1. fmt' = Target
        BY <1>i, <2>1 DEF OpensTarget
      <3>2. CASE Target = "monitor"
        <4>1. mpc' \in {"spawn", "reclear"} /\ UNCHANGED <<phase, active>>
          BY <2>3, <3>2 DEF Opened
        <4> QED
          BY <1>v, <1>r, <2>1, <2>3, <3>1, <3>2, <4>1
             DEF WholeInv, RunPlace, LoopOpen, OpensTarget, WorkerPlace, NoStale, Alive, Target
      <3>3. CASE Target # "monitor"
        <4>1. active' = Target /\ mpc' \in {"loop", "restore"} /\ (mpc' = "loop" \/ UNCHANGED phase)
          BY <2>3, <3>3 DEF Opened, Target
        <4> QED
          BY <1>v, <1>r, <2>1, <2>3, <3>1, <4>1
             DEF WholeInv, RunPlace, LoopOpen, OpensTarget, WorkerPlace, NoStale, Alive
      <3> QED
        BY <3>2, <3>3
    <2> QED
      BY <1>4, <2>2, <2>3 DEF StartStream
  <1>5. CASE SpawnWorker
    <2>1. /\ cam' = "streaming" /\ fmt' = Target /\ Target = "monitor" /\ running'
          /\ active' = Target /\ mpc' \in {"loop", "restore"} /\ (mpc' = "loop" \/ UNCHANGED phase)
      BY <1>5, <1>i DEF SpawnWorker, OpensTarget, Target
    <2> QED
      BY <1>v, <1>r, <2>1
         DEF WholeInv, RunPlace, LoopOpen, OpensTarget, WorkerPlace, NoStale, Alive
  <1> QED
    BY <1>1, <1>2, <1>3, <1>4, <1>5

LEMMA WholeStep == ASSUME TypeOK, WholeInv, [Next]_vars PROVE WholeInv'
  <1> USE DEF serverVars, cache, worker
  <1>1. ASSUME NEW m \in Mode, PostMode(m) PROVE WholeInv'
    BY <1>1, WholeFrame DEF PostMode, SetMode, Alive
  <1>2. CASE Interrupt \/ UNCHANGED vars \/ (AcceptLoopEnds /\ Daemonless)
    BY <1>2, WholeFrame DEF Interrupt, vars, AcceptLoopEnds, Daemonless, Alive
  <1>3. CASE \/ NoticeMode \/ LeaveLoop \/ BeginCapture \/ EndCapture \/ StopWorker \/ JoinWorker
             \/ ClearAfterJoin \/ GiveUp \/ ClearBeforeSpawn \/ SpawnFails \/ RestoreMode
             \/ StopServer \/ WakeStreams \/ JoinServer
    BY <1>3, WholeMoves
  <1>4. CASE CloseCamera \/ OpenDevice \/ SetFormat \/ MapBuffers \/ StartStream \/ SpawnWorker
    BY <1>4, WholeOpens
  <1>5. CASE WorkerStep
    <2>1. UNCHANGED <<main, camera>>
      BY <1>5 DEF WorkerStep, WorkerSetup, WorkerTest, WorkerDequeue, WorkerPublish, WorkerSkip, WorkerQueue,
                  WorkerClear, WorkerEnd
    <2>2. Alive /\ (UNCHANGED running \/ ~Alive')
      BY <1>5 DEF WorkerStep, WorkerSetup, WorkerTest, WorkerDequeue, WorkerPublish, WorkerSkip, WorkerQueue,
                  WorkerClear, WorkerEnd, Work, Alive
    <2> QED
      BY <2>1, <2>2, WholeFrame
  <1>6. ASSUME NEW c \in Clients, ClientThread(c) \/ ((Connect(c) \/ Sent(c) \/ SendFails(c)) /\ Daemonless)
        PROVE  WholeInv'
    <2>1. UNCHANGED <<main, camera, worker, valid>>
      BY <1>6 DEF ClientThread, ClientStep, Daemonless, EndStream, TakeFrame, Wait, Connect, Sent, SendFails
    <2> QED
      BY <2>1, WholeFrame DEF Alive
  <1>8. ASSUME NEW c \in Clients, NoMemory(c) PROVE WholeInv'
    <2>1. UNCHANGED <<main, camera, worker, valid>>
      BY <1>8 DEF NoMemory, CopyFails
    <2> QED
      BY <2>1, WholeFrame DEF Alive
  <1>7. ASSUME NEW c \in Clients, BrokenPipe(c) PROVE WholeInv'
    BY <1>7 DEF BrokenPipe, Phase, WholeInv, RunPlace, LoopOpen, OpensTarget, WorkerPlace, NoStale, Alive
  <1> QED
    BY <1>1, <1>2, <1>3, <1>4, <1>5, <1>6, <1>7, <1>8, Zenon DEF Next, MainStep

LEMMA WholeInvCorrect == Spec => []WholeInv
  <1>1. Init => WholeInv
    BY DEF Init, ServerInit, WholeInv, RunPlace, LoopOpen, OpensTarget, WorkerPlace, NoStale, Alive
  <1>2. TypeOK /\ WholeInv /\ [Next]_vars => WholeInv'
    BY WholeStep
  <1> QED
    BY <1>1, <1>2, TypeCorrect, PTL DEF Spec

\* The monitor worker never touches a camera that main has closed or opened for the
\* other mode, whatever was requested, failed and was rolled back meanwhile
\* (monitor_thread_main against camera_reopen_with_retry in main).
THEOREM CameraCorrect == Spec => []CameraHeldOpen
  <1>1. WholeInv => CameraHeldOpen
    BY DEF WholeInv, WorkerPlace, Alive, CameraHeldOpen
  <1> QED
    BY <1>1, WholeInvCorrect, PTL

\* After any sequence of switches, failures and rollbacks, main is in its loop only
\* with a camera that streams in the active mode, and in trigger mode without a
\* worker and without a stale frame (main, start_ and stop_monitor_worker).
THEOREM LoopCorrect == Spec => []LoopInOnePiece
  <1>1. TypeOK /\ WholeInv => LoopInOnePiece
    BY DEF TypeOK, WholeInv, RunPlace, LoopOpen, WorkerPlace, NoStale, Alive, LoopInOnePiece
  <1> QED
    BY <1>1, TypeCorrect, WholeInvCorrect, PTL
----------------------------------------------------------------------------
(* Frames *)

\* The frame that is offered is newer than every browser's, unless it has it.
CopyBehind ==
    /\ valid => frame > 0
    /\ \A c \in Clients : /\ copy[c] <= frame
                          /\ valid /\ copy[c] = frame => last_seq[c] = seq

\* What the steps of the daemon do to the cache and its readers.
LEMMA ServerSteps ==
    ASSUME [Next]_vars
    PROVE  \/ Publish \/ Clear \/ StopBroadcast
           \/ UNCHANGED <<cache, client>>
           \/ AllThreadsGone
           \/ \E c \in Clients : ClientStep(c) \/ Connect(c) \/ Sent(c) \/ SendFails(c) \/ CopyFails(c)
  <1> USE DEF serverVars
  <1>1. CASE WorkerStep
    BY <1>1 DEF WorkerStep, WorkerSetup, WorkerTest, WorkerDequeue, WorkerPublish, WorkerSkip, WorkerQueue,
                WorkerClear, WorkerEnd
  <1>2. CASE MainStep \/ BeginCapture \/ SpawnFails
    BY <1>2 DEF MainStep, NoticeMode, LeaveLoop, BeginCapture, EndCapture, StopWorker, JoinWorker,
                ClearAfterJoin, CloseCamera, GiveUp, ClearBeforeSpawn, SpawnWorker, SpawnFails, RestoreMode,
                StopServer, WakeStreams, JoinServer, OpenDevice, SetFormat, MapBuffers, StartStream,
                SetMode, StopFlag
  <1>3. CASE Interrupt \/ UNCHANGED vars \/ (\E m \in Mode : PostMode(m)) \/ (AcceptLoopEnds /\ Daemonless)
    BY <1>3 DEF Interrupt, vars, PostMode, SetMode, AcceptLoopEnds
  <1>4. ASSUME NEW c \in Clients,
               \/ ClientThread(c) \/ BrokenPipe(c)
               \/ (Connect(c) \/ Sent(c) \/ SendFails(c)) /\ Daemonless
               \/ NoMemory(c)
        PROVE  \/ AllThreadsGone
               \/ ClientStep(c) \/ Connect(c) \/ Sent(c) \/ SendFails(c) \/ CopyFails(c)
    BY <1>4 DEF ClientThread, BrokenPipe, NoMemory
  <1> QED
    BY <1>1, <1>2, <1>3, <1>4, Zenon DEF Next

LEMMA CopyStep == ASSUME TypeOK, CopyBehind, [Next]_vars PROVE CopyBehind'
  <1>t. /\ valid \in BOOLEAN /\ seq \in Nat /\ frame \in Nat
        /\ last_seq \in [Clients -> Nat] /\ copy \in [Clients -> Nat]
    BY DEF TypeOK, ServerTypeOK
  <1> USE DEF cache, client
  <1>1. CASE Publish
    <2>1. frame' = frame + 1 /\ UNCHANGED copy
      BY <1>1 DEF Publish
    <2>2. frame' > 0 /\ \A c \in Clients : copy'[c] <= frame' /\ copy'[c] # frame'
      BY <1>t, <2>1 DEF CopyBehind
    <2> QED
      BY <2>2 DEF CopyBehind
  <1>2. CASE Clear
    <2>1. ~valid' /\ UNCHANGED <<frame, copy>>
      BY <1>2 DEF Clear
    <2> QED
      BY <2>1 DEF CopyBehind
  <1>3. CASE StopBroadcast \/ UNCHANGED <<cache, client>> \/ AllThreadsGone
    <2>1. UNCHANGED <<valid, seq, frame, copy, last_seq>>
      BY <1>3 DEF StopBroadcast, AllThreadsGone
    <2> QED
      BY <2>1 DEF CopyBehind
  <1>4. ASSUME NEW c \in Clients, EndStream(c) \/ Wait(c) \/ Sent(c) \/ SendFails(c) \/ CopyFails(c)
        PROVE  CopyBehind'
    <2>1. UNCHANGED <<valid, seq, frame, copy, last_seq>>
      BY <1>4 DEF EndStream, Wait, Sent, SendFails, CopyFails
    <2> QED
      BY <2>1 DEF CopyBehind
  <1>5. ASSUME NEW c \in Clients, TakeFrame(c) \/ Connect(c) PROVE CopyBehind'
    <2>1. /\ UNCHANGED <<valid, seq, frame>>
          /\ \/ copy'[c] = frame /\ last_seq'[c] = seq
             \/ copy'[c] = 0
          /\ \A d \in Clients : d # c => copy'[d] = copy[d] /\ last_seq'[d] = last_seq[d]
      BY <1>5, <1>t DEF TakeFrame, Connect
    <2> QED
      BY <1>t, <2>1 DEF CopyBehind
  <1> QED
    BY <1>1, <1>2, <1>3, <1>4, <1>5, ServerSteps DEF ClientStep

LEMMA CopyCorrect == Spec => []CopyBehind
  <1>1. Init => CopyBehind
    BY DEF Init, ServerInit, CopyBehind
  <1>2. TypeOK /\ CopyBehind /\ [Next]_vars => CopyBehind'
    BY CopyStep
  <1> QED
    BY <1>1, <1>2, TypeCorrect, PTL DEF Spec

\* The only step that takes a browser from "check" to "send" is TakeFrame.
LEMMA TakeStep ==
    ASSUME TypeOK, [Next]_vars, NEW c \in Clients, cpc[c] = "check", cpc'[c] = "send"
    PROVE  TakeFrame(c)
  <1>t. cpc \in [Clients -> Cpc]
    BY DEF TypeOK, ServerTypeOK, Cpc
  <1>1. Broadcast => cpc'[c] = "check"
    BY DEF Broadcast
  <1>2. ~Publish /\ ~Clear /\ ~StopBroadcast
    BY <1>1 DEF Publish, Clear, StopBroadcast
  <1>3. ~UNCHANGED <<cache, client>> /\ ~AllThreadsGone
    BY DEF client, AllThreadsGone
  <1>4. PICK d \in Clients : ClientStep(d) \/ Connect(d) \/ Sent(d) \/ SendFails(d) \/ CopyFails(d)
    BY <1>2, <1>3, ServerSteps
  <1>5. d = c
    BY <1>4, <1>t DEF ClientStep, EndStream, TakeFrame, Wait, Connect, Sent, SendFails, CopyFails, To
  <1> QED
    BY <1>4, <1>5, <1>t DEF ClientStep, EndStream, TakeFrame, Wait, Connect, Sent, SendFails, CopyFails, To

\* No browser is shown a frame twice, or an older one after a newer one, across
\* clears and mode switches (wait_and_copy_next_jpeg).
THEOREM FramesCorrect == Spec => FramesInOrder
  <1>1. TypeOK /\ CopyBehind /\ [Next]_vars
        => [\A c \in Clients : cpc[c] = "check" /\ cpc'[c] = "send" => copy'[c] > copy[c]]_vars
    <2> SUFFICES ASSUME TypeOK, CopyBehind, [Next]_vars, NEW c \in Clients,
                        cpc[c] = "check", cpc'[c] = "send"
                 PROVE  copy'[c] > copy[c]
      OBVIOUS
    <2>1. TakeFrame(c)
      BY TakeStep
    <2>t. frame \in Nat /\ copy \in [Clients -> Nat]
      BY DEF TypeOK, ServerTypeOK
    <2>2. valid /\ seq # last_seq[c] /\ copy'[c] = frame
      BY <2>1, <2>t DEF TakeFrame, NewFrame
    <2>3. copy[c] <= frame /\ copy[c] # frame
      BY <2>2 DEF CopyBehind
    <2> QED
      BY <2>2, <2>3, <2>t
  <1> QED
    BY <1>1, TypeCorrect, CopyCorrect, PTL DEF Spec, FramesInOrder

----------------------------------------------------------------------------
(* Waking *)

LEMMA SleepStep == ASSUME TypeOK, NobodySleepsOnNews, [Next]_vars PROVE NobodySleepsOnNews'
  <1>t. cpc \in [Clients -> Cpc] /\ valid \in BOOLEAN
    BY DEF TypeOK, ServerTypeOK, Cpc
  <1> USE DEF cache, client, serverVars
  <1>1. Broadcast => \A c \in Clients : cpc'[c] # "wait"
    BY DEF Broadcast
  <1>2. CASE Publish \/ Clear \/ StopBroadcast \/ AllThreadsGone
    <2>1. \A c \in Clients : cpc'[c] # "wait"
      BY <1>1, <1>2 DEF Publish, Clear, StopBroadcast, AllThreadsGone
    <2> QED
      BY <2>1 DEF NobodySleepsOnNews
  <1>3. ASSUME UNCHANGED <<cache, client>>,
               (UNCHANGED http_running /\ (mpc = "broadcast" => mpc' = "broadcast")) \/ mpc' = "broadcast"
        PROVE  NobodySleepsOnNews'
    BY <1>3 DEF NobodySleepsOnNews, NewFrame
  <1>4. CASE StopServer
    BY <1>3, <1>4 DEF StopServer, StopFlag, Go
  <1>5. CASE \/ NoticeMode \/ LeaveLoop \/ BeginCapture \/ EndCapture \/ StopWorker \/ JoinWorker
             \/ CloseCamera \/ GiveUp \/ SpawnWorker \/ SpawnFails \/ RestoreMode
             \/ OpenDevice \/ SetFormat \/ MapBuffers \/ StartStream \/ JoinServer
    <2>1. UNCHANGED <<cache, client, http_running>> /\ mpc # "broadcast"
      BY <1>5 DEF NoticeMode, LeaveLoop, BeginCapture, EndCapture, StopWorker, JoinWorker,
                CloseCamera, GiveUp, SpawnWorker, SpawnFails, RestoreMode, Go, Succeeds,
                JoinServer, OpenDevice, SetFormat, MapBuffers, StartStream, SetMode
    <2> QED
      BY <1>3, <2>1
  <1>6. CASE ClearAfterJoin \/ ClearBeforeSpawn \/ WakeStreams
    BY <1>2, <1>6 DEF ClearAfterJoin, ClearBeforeSpawn, WakeStreams
  <1>7. CASE WorkerStep
    <2>1. Publish \/ Clear \/ UNCHANGED <<serverVars, mpc>>
      BY <1>7 DEF WorkerStep, WorkerSetup, WorkerTest, WorkerDequeue, WorkerPublish, WorkerSkip, WorkerQueue,
                  WorkerClear, WorkerEnd, main
    <2> QED
      BY <1>2, <1>3, <2>1
  <1>8. CASE Interrupt \/ UNCHANGED vars \/ (\E m \in Mode : PostMode(m)) \/ (AcceptLoopEnds /\ Daemonless)
    BY <1>3, <1>8 DEF Interrupt, vars, PostMode, SetMode, AcceptLoopEnds, Daemonless, main
  <1>9. ASSUME NEW c \in Clients, UNCHANGED mpc,
               ClientStep(c) \/ Connect(c) \/ Sent(c) \/ SendFails(c) \/ CopyFails(c)
        PROVE  NobodySleepsOnNews'
    <2>1. UNCHANGED <<http_running, valid, seq, mpc>>
      BY <1>9 DEF ClientStep, EndStream, TakeFrame, Wait, Connect, Sent, SendFails, CopyFails
    <2>2. \A d \in Clients : d # c => cpc'[d] = cpc[d] /\ last_seq'[d] = last_seq[d]
      BY <1>9, <1>t DEF ClientStep, EndStream, TakeFrame, Wait, Connect, Sent, SendFails, CopyFails, To,
                        TypeOK, ServerTypeOK
    <2>3. cpc'[c] = "wait" => http_running /\ ~NewFrame(c) /\ last_seq' = last_seq
      BY <1>9, <1>t DEF ClientStep, EndStream, TakeFrame, Wait, Connect, Sent, SendFails, CopyFails, To
    <2> QED
      BY <2>1, <2>2, <2>3 DEF NobodySleepsOnNews, NewFrame
  <1>10. ASSUME NEW c \in Clients, BrokenPipe(c) PROVE NobodySleepsOnNews'
    BY <1>2, <1>10 DEF BrokenPipe
  <1>11. ASSUME NEW c \in Clients,
                \/ ClientThread(c) \/ NoMemory(c)
                \/ (Connect(c) \/ Sent(c) \/ SendFails(c)) /\ Daemonless
         PROVE  NobodySleepsOnNews'
    BY <1>9, <1>11 DEF ClientThread, NoMemory, Daemonless, main
  <1> QED
    BY <1>4, <1>5, <1>6, <1>7, <1>8, <1>10, <1>11, Zenon DEF Next, MainStep

\* No browser sleeps while there is a frame for it, or through the end of the
\* server: whatever could make it miss a broadcast happens under the lock it holds
\* (http_server_publish_jpeg, http_server_clear_mjpeg, http_server_stop).
THEOREM WakeCorrect == Spec => []NobodySleepsOnNews
  <1>1. Init => NobodySleepsOnNews
    BY DEF Init, ServerInit, NobodySleepsOnNews
  <1>2. TypeOK /\ NobodySleepsOnNews /\ [Next]_vars => NobodySleepsOnNews'
    BY SleepStep
  <1> QED
    BY <1>1, <1>2, TypeCorrect, PTL DEF Spec
=============================================================================
