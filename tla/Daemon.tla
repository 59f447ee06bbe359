------------------------------- MODULE Daemon -------------------------------
(***************************************************************************)
(* The daemon of main.c: the main loop that follows the requested mode by  *)
(* closing and reopening the camera, starts and joins the monitor worker,  *)
(* rolls a failed switch back, and shuts everything down on a signal; the  *)
(* worker; and, from MjpegServer, the HTTP threads.                        *)
(*                                                                         *)
(* Reading sensors, and what a trigger does besides occupying the main     *)
(* loop and the camera, is left out.                                       *)
(***************************************************************************)
EXTENDS MjpegServer

CONSTANTS
    MaxPosts,    \* bound: requests for a mode in one behaviour
    MaxFrames,   \* bound: frames published
    MaxFaults    \* bound: failures of the camera, of memory or of pthread_create

ASSUME BoundAssumption == MaxPosts \in Nat /\ MaxFrames \in Nat /\ MaxFaults \in Nat

Tries == 3       \* camera_reopen_with_retry

VARIABLES
    g_running,  \* cleared by SIGINT and SIGTERM
    phase,      \* what the main thread is doing
    mpc,        \* where it is in that
    active,     \* active_mode
    want,       \* requested_mode, as the loop read it
    tries,      \* attempts made by camera_reopen_with_retry
    cam,        \* what cam.fd stands for: closed, opened, with buffers, streaming
    fmt,        \* the mode whose size and rate the camera was opened with
    lost,       \* descriptors of the camera that nothing refers to any more
    busy,       \* a lost descriptor owns the buffers of the device
    running,    \* g_monitor.running
    stop,       \* g_monitor.stop
    wpc,        \* where the monitor worker is
    posts,      \* history: requests made
    faults      \* history: failures so far

main == <<phase, mpc, active, want, tries>>
camera == <<cam, fmt, lost, busy>>
worker == <<running, stop, wpc>>
bounds == <<posts, faults>>
vars == <<serverVars, g_running, main, camera, worker, bounds>>

TypeOK ==
    /\ ServerTypeOK
    /\ g_running \in BOOLEAN
    /\ phase \in {"boot", "run", "switch", "back", "exit"}
    /\ mpc \in {"loop", "capture", "join", "joining", "clear", "close", "open", "format",
                "buffers", "stream", "reclear", "spawn", "restore", "flag", "broadcast", "accept", "done"}
    /\ active \in Mode /\ want \in Mode /\ fmt \in Mode
    /\ tries \in 0 .. Tries
    /\ cam \in {"closed", "open", "buffers", "streaming"}
    /\ lost \in Nat /\ busy \in BOOLEAN
    /\ running \in BOOLEAN /\ stop \in BOOLEAN
    /\ wpc \in {"none", "setup", "loop", "dequeue", "encode", "queue", "clear", "end", "done"}
    /\ posts \in 0 .. MaxPosts /\ faults \in 0 .. MaxFaults

\* The HTTP server has been started; the camera has not been opened yet.
Init ==
    \E m \in Mode :
        /\ ServerInit(m)
        /\ g_running = TRUE
        /\ phase = "boot" /\ mpc = "open"
        /\ active = m /\ want = m /\ tries = 0
        /\ cam = "closed" /\ fmt = m /\ lost = 0 /\ busy = FALSE
        /\ running = FALSE /\ stop = FALSE /\ wpc = "none"
        /\ posts = 0 /\ faults = 0

Fault == faults < MaxFaults /\ faults' = faults + 1

Go(from, to) == mpc = from /\ mpc' = to
Phase(p) == phase' = p

\* From the end of main's loop: the worker is joined if the mode was monitor.
FirstOfExit == IF active = "monitor" THEN "join" ELSE "close"

----------------------------------------------------------------------------
(* The outside *)

\* A thread that was given its connection earlier may still set the mode while
\* the server shuts down.
PostMode(m) ==
    /\ mpc # "done" /\ posts < MaxPosts
    /\ posts' = posts + 1
    /\ SetMode(m)
    /\ UNCHANGED <<g_running, main, camera, worker, faults>>

Interrupt ==
    /\ g_running
    /\ g_running' = FALSE
    /\ UNCHANGED <<serverVars, main, camera, worker, bounds>>

----------------------------------------------------------------------------
(* The main loop *)

\* Mutant: a request is looked at in trigger mode only.
NoticeInTrigger ==
    /\ g_running /\ mode # active /\ active = "trigger"
    /\ Go("loop", FirstOfExit)
    /\ Phase("switch")
    /\ want' = mode /\ tries' = 0
    /\ UNCHANGED <<serverVars, g_running, active, camera, worker, bounds>>

NoticeMode ==
    /\ g_running /\ mode # active
    /\ Go("loop", FirstOfExit)
    /\ Phase("switch")
    /\ want' = mode /\ tries' = 0
    /\ UNCHANGED <<serverVars, g_running, active, camera, worker, bounds>>

LeaveLoop ==
    /\ ~g_running
    /\ Go("loop", FirstOfExit)
    /\ Phase("exit")
    /\ UNCHANGED <<serverVars, g_running, active, want, tries, camera, worker, bounds>>

\* handle_trigger: camera_capture_one dequeues frames until it has one it can
\* save, or the camera fails.  The code goes through a batch of triggers before it
\* looks at the mode again; here it may look after each.
BeginCapture ==
    /\ g_running /\ mode = active /\ active = "trigger"
    /\ Go("loop", "capture")
    /\ UNCHANGED <<serverVars, g_running, phase, active, want, tries, camera, worker, bounds>>

EndCapture ==
    /\ Go("capture", "loop")
    /\ UNCHANGED <<serverVars, g_running, phase, active, want, tries, camera, worker, bounds>>

----------------------------------------------------------------------------
(* stop_monitor_worker, then http_server_clear_mjpeg *)

\* Mutant: the worker is told to stop but not waited for.
StopWithoutJoin ==
    /\ Go("join", "clear")
    /\ stop' = running
    /\ UNCHANGED <<serverVars, g_running, phase, active, want, tries, camera, running, wpc, bounds>>

\* A worker that has ended by itself is not joined.
StopWorker ==
    /\ Go("join", IF running THEN "joining" ELSE "clear")
    /\ stop' = (stop \/ running)
    /\ UNCHANGED <<serverVars, g_running, phase, active, want, tries, camera, running, wpc, bounds>>

JoinWorker ==
    /\ wpc = "done"
    /\ Go("joining", "clear")
    /\ running' = FALSE /\ stop' = FALSE /\ wpc' = "none"
    /\ UNCHANGED <<serverVars, g_running, phase, active, want, tries, camera, bounds>>

ClearAfterJoin ==
    /\ Go("clear", "close")
    /\ Clear
    /\ UNCHANGED <<g_running, phase, active, want, tries, camera, worker, bounds>>

----------------------------------------------------------------------------
(* camera_deinit, and camera_reopen_with_retry with camera_open_for_mode *)

CloseCamera ==
    /\ Go("close", IF phase = "exit" THEN "flag" ELSE "open")
    /\ cam' = "closed"
    /\ tries' = 0
    /\ UNCHANGED <<serverVars, g_running, phase, active, want, fmt, lost, busy, worker, bounds>>

Target == IF phase = "switch" THEN want ELSE active

\* camera_init clears cam first: the descriptor that a failed attempt left
\* open in it is lost, with the buffers it may own.
Forget ==
    /\ lost' = IF cam = "closed" THEN lost ELSE lost + 1
    /\ busy' = (busy \/ cam = "buffers")
    /\ fmt' = Target

\* main goes on to the worker if the mode needs one, else it is done with the
\* switch (active_mode takes the new mode) or with the start.
Opened ==
    IF Target = "monitor"
    THEN /\ mpc' = IF phase = "boot" THEN "spawn" ELSE "reclear"
         /\ UNCHANGED <<phase, active>>
    ELSE IF phase = "back"
         THEN mpc' = "restore" /\ UNCHANGED <<phase, active>>
         ELSE mpc' = "loop" /\ Phase("run") /\ active' = Target

\* An attempt failed: the next one follows, but main starts the camera only
\* once when the daemon boots.
AttemptFails ==
    /\ tries' = tries + 1
    /\ IF phase = "boot" THEN mpc' = "flag" /\ Phase("exit")
                         ELSE mpc' = "open" /\ UNCHANGED phase

Succeeds(from, to) == Go(from, to) /\ UNCHANGED <<phase, tries, faults>>

\* Mutant: one attempt more than the three.
OpenOnceMore ==
    /\ mpc = "open" /\ tries <= Tries
    /\ Forget
    /\ \/ Succeeds("open", "format") /\ cam' = "open"
       \/ AttemptFails /\ Fault /\ cam' = "closed"
    /\ UNCHANGED <<serverVars, g_running, active, want, worker, posts>>

OpenDevice ==
    /\ mpc = "open" /\ tries < Tries
    /\ Forget
    /\ \/ Succeeds("open", "format") /\ cam' = "open"
       \/ AttemptFails /\ Fault /\ cam' = "closed"
    /\ UNCHANGED <<serverVars, g_running, active, want, worker, posts>>

\* Capabilities, format and rate (whose failure is ignored).  While another
\* descriptor owns the buffers, the camera driver refuses to set a format.
SetFormat ==
    /\ mpc = "format"
    /\ \/ Succeeds("format", "buffers") /\ ~busy
       \/ AttemptFails /\ IF busy THEN UNCHANGED faults ELSE Fault
    /\ UNCHANGED <<serverVars, g_running, active, want, camera, worker, posts>>

\* A failure before VIDIOC_REQBUFS has allocated, or in what follows it.
MapBuffers ==
    /\ mpc = "buffers"
    /\ \/ Succeeds("buffers", "stream") /\ cam' = "buffers"
       \/ AttemptFails /\ Fault /\ cam' \in {"open", "buffers"}
    /\ UNCHANGED <<serverVars, g_running, active, want, fmt, lost, busy, worker, posts>>

\* camera_start; when it fails, camera_deinit follows, as after no other failure.
StartStream ==
    /\ mpc = "stream"
    /\ \/ Opened /\ cam' = "streaming" /\ UNCHANGED <<tries, faults>>
       \/ AttemptFails /\ Fault /\ cam' = "closed" /\ UNCHANGED active
    /\ UNCHANGED <<serverVars, g_running, want, fmt, lost, busy, worker, posts>>

\* A switch that failed is rolled back; if that fails too, main leaves its loop.
RollBackOrExit ==
    IF phase = "switch"
    THEN mpc' = "close" /\ Phase("back")
    ELSE Phase("exit") /\ mpc' = IF phase = "back" THEN FirstOfExit ELSE "close"

GiveUp ==
    /\ mpc = "open" /\ tries = Tries
    /\ RollBackOrExit
    /\ UNCHANGED <<serverVars, g_running, active, want, tries, camera, worker, bounds>>

----------------------------------------------------------------------------
(* start_monitor_worker, and the end of a switch *)

ClearBeforeSpawn ==
    /\ Go("reclear", "spawn")
    /\ Clear
    /\ UNCHANGED <<g_running, phase, active, want, tries, camera, worker, bounds>>

\* main never starts a worker beside a running one: the early return is no step.
SpawnWorker ==
    /\ mpc = "spawn"
    /\ running' = TRUE /\ stop' = FALSE /\ wpc' = "setup"
    /\ IF phase = "back"
       THEN mpc' = "restore" /\ UNCHANGED <<phase, active>>
       ELSE mpc' = "loop" /\ Phase("run") /\ active' = Target
    /\ UNCHANGED <<serverVars, g_running, want, tries, camera, bounds>>

SpawnFails ==
    /\ mpc = "spawn"
    /\ Fault
    /\ running' = FALSE /\ stop' = FALSE
    /\ RollBackOrExit
    /\ UNCHANGED <<serverVars, g_running, active, want, tries, camera, wpc, posts>>

\* The rolled-back mode becomes the requested one, whatever was requested since.
RestoreMode ==
    /\ Go("restore", "loop")
    /\ Phase("run")
    /\ SetMode(active)
    /\ UNCHANGED <<g_running, active, want, tries, camera, worker, bounds>>

----------------------------------------------------------------------------
(* http_server_stop, and the rest of the shutdown *)

StopServer ==
    /\ Go("flag", "broadcast")
    /\ StopFlag
    /\ UNCHANGED <<g_running, phase, active, want, tries, camera, worker, bounds>>

WakeStreams ==
    /\ Go("broadcast", "accept")
    /\ StopBroadcast
    /\ UNCHANGED <<g_running, phase, active, want, tries, camera, worker, bounds>>

JoinServer ==
    /\ ~listening
    /\ Go("accept", "done")
    /\ UNCHANGED <<serverVars, g_running, phase, active, want, tries, camera, worker, bounds>>

----------------------------------------------------------------------------
(* monitor_thread_main *)

Work(from, to) == wpc = from /\ wpc' = to

\* tjInitCompress and the two allocations.
WorkerSetup ==
    /\ \/ Work("setup", "loop") /\ UNCHANGED <<running, faults>>
       \/ Work("setup", "done") /\ running' = FALSE /\ Fault
    /\ UNCHANGED <<serverVars, g_running, main, camera, stop, posts>>

WorkerTest ==
    /\ Work("loop", IF stop THEN "clear" ELSE "dequeue")
    /\ UNCHANGED <<serverVars, g_running, main, camera, running, stop, bounds>>

\* camera_dequeue waits up to 200 ms: a frame, none, or an error.
WorkerDequeue ==
    /\ \/ Work("dequeue", "encode") /\ cam = "streaming" /\ UNCHANGED faults
       \/ Work("dequeue", "loop") /\ cam = "streaming" /\ UNCHANGED faults
       \/ Work("dequeue", "clear") /\ IF cam = "streaming" THEN Fault ELSE UNCHANGED faults
    /\ UNCHANGED <<serverVars, g_running, main, camera, running, stop, posts>>

WorkerPublish ==
    /\ Work("encode", "queue")
    /\ frame < MaxFrames
    /\ Publish
    /\ UNCHANGED <<g_running, main, camera, running, stop, bounds>>

\* A frame that cannot be encoded is given back unpublished.
WorkerSkip ==
    /\ Work("encode", "queue")
    /\ UNCHANGED <<serverVars, g_running, main, camera, running, stop, bounds>>

WorkerQueue ==
    /\ \/ Work("queue", "loop") /\ UNCHANGED faults
       \/ Work("queue", "clear") /\ Fault
    /\ UNCHANGED <<serverVars, g_running, main, camera, running, stop, posts>>

WorkerClear ==
    /\ Work("clear", "end")
    /\ Clear
    /\ UNCHANGED <<g_running, main, camera, running, stop, bounds>>

WorkerEnd ==
    /\ Work("end", "done")
    /\ running' = FALSE
    /\ UNCHANGED <<serverVars, g_running, main, camera, stop, bounds>>

----------------------------------------------------------------------------

MainStep ==
    \/ NoticeMode \/ LeaveLoop \/ EndCapture
    \/ StopWorker \/ JoinWorker \/ ClearAfterJoin \/ CloseCamera
    \/ OpenDevice \/ SetFormat \/ MapBuffers \/ StartStream \/ GiveUp \/ ClearBeforeSpawn \/ SpawnWorker
    \/ RestoreMode \/ StopServer \/ WakeStreams \/ JoinServer

WorkerStep ==
    \/ WorkerSetup \/ WorkerTest \/ WorkerDequeue \/ WorkerPublish \/ WorkerSkip
    \/ WorkerQueue \/ WorkerClear \/ WorkerEnd

Daemonless == UNCHANGED <<g_running, main, camera, worker, bounds>>

ClientThread(c) == ClientStep(c) /\ Daemonless

\* write() to a connection that the browser has closed, of the header or of a
\* frame, raises SIGPIPE, which nobody catches or ignores: the process ends at once.
BrokenPipe(c) ==
    /\ cpc[c] = "send" \/ (cpc[c] = "off" /\ listening)
    /\ AllThreadsGone
    /\ Phase("exit") /\ mpc' = "done"
    /\ wpc' = "none" /\ cam' = "closed" /\ lost' = 0 /\ busy' = FALSE
    /\ UNCHANGED <<g_running, active, want, tries, fmt, running, stop, bounds>>

\* Memory for a frame may be short.
NoMemory(c) ==
    /\ CopyFails(c)
    /\ Fault
    /\ UNCHANGED <<g_running, main, camera, worker, posts>>

Next ==
    \/ \E m \in Mode : PostMode(m)
    \/ Interrupt
    \/ MainStep \/ BeginCapture \/ SpawnFails
    \/ WorkerStep
    \/ AcceptLoopEnds /\ Daemonless
    \/ \E c \in Clients :
          \/ ClientThread(c) \/ BrokenPipe(c)
          \/ (Connect(c) \/ Sent(c) \/ SendFails(c)) /\ Daemonless
          \/ NoMemory(c)

Spec == Init /\ [][Next]_vars

\* Every thread of the daemon runs on; a capture ends (the camera delivers
\* frames or fails, both of which end camera_capture_one's loop).  Nobody owes
\* a request, a signal, a trigger or a connection, and a browser may stop reading.
FairSpec ==
    /\ Spec
    /\ WF_vars(MainStep) /\ WF_vars(WorkerStep)
    /\ WF_vars(AcceptLoopEnds /\ Daemonless)
    /\ \A c \in Clients : WF_vars(ClientThread(c))

----------------------------------------------------------------------------
(* Properties *)

\* The worker never touches a camera that main has closed, is reopening, or has
\* opened for the other mode: between camera_dequeue and camera_queue the
\* camera streams in monitor format (stop_monitor_worker joins before
\* camera_deinit, unless the worker has ended by itself).
CameraHeldOpen ==
    wpc \in {"dequeue", "encode", "queue"} => cam = "streaming" /\ fmt = "monitor"

\* Whenever main is in its loop, whatever switches failed before, the system
\* is in one piece: the camera streams in the format of active_mode, and in
\* trigger mode no worker is alive and no stale frame is offered to browsers.
LoopInOnePiece ==
    phase = "run" =>
        /\ cam = "streaming" /\ fmt = active
        /\ active = "trigger" => wpc \in {"none", "done"} /\ ~valid

\* No browser sleeps on a frame it has not been given, nor through the end of
\* the server: its wait starts under the lock that every broadcast needs.
NobodySleepsOnNews ==
    \A c \in Clients : cpc[c] = "wait" =>
        /\ ~NewFrame(c)
        /\ http_running \/ mpc = "broadcast"

\* A browser is shown each frame at most once, and never an older one after a
\* newer one, across clears and mode switches.
FramesInOrder ==
    [][\A c \in Clients : cpc[c] = "check" /\ cpc'[c] = "send" => copy'[c] > copy[c]]_vars

\* Once requests stop, the daemon ends up in the mode that is asked for, or
\* has said so by setting the request back, or has exited.
RequestSettles == <>[](mode = active \/ mpc = "done")

\* A signal always gets the daemon through its shutdown, in any phase of a
\* switch, and no stream survives it.  (A SIGINT that comes while system() waits
\* for ffmpeg is ignored by main, and so is no Interrupt.)
ShutdownCompletes ==
    ~g_running ~> mpc = "done" /\ \A c \in Clients : cpc[c] # "wait"

\* Every descriptor of the camera that was opened can still be closed: it is
\* cam.fd (docs/02-architecture-deep-dive.md: a switch that fails does not
\* leave the system half initialised).
NoDescriptorLost == lost = 0

\* Once the mode is not monitor for good, no stream stays open on a frame that
\* will not come (wait_and_copy_next_jpeg: "mode changed, caller should close
\* stream").
StreamEndsWithMode ==
    <>[](mode # "monitor") => \A c \in Clients : <>[](cpc[c] # "wait")
=============================================================================
