------------------------------ MODULE Trigger -------------------------------
(***************************************************************************)
(* The trigger pipeline: from a PIR event in the driver, through poll, a   *)
(* batched read and the filter of main's loop, to handle_trigger: alert,   *)
(* snapshot, capture from the camera's buffers, conversion, status, log.  *)
(*                                                                         *)
(* The event queue is what EventStream promises; Daemon has the switch of  *)
(* modes in detail, which is one step here.                                *)
(***************************************************************************)
EXTENDS Naturals, SequencesExt

CONSTANTS
    QSize,       \* SH_EVT_Q_SIZE
    Batch,       \* events read at once, 16 in the code
    Bufs,        \* buffers of the camera, CAMERA_DEFAULT_REQBUFS
    Skip,        \* CAPTURE_SKIP_FRAMES
    MaxMotion,   \* bound: PIR interrupts reported
    MaxPosts,    \* bound: requests for a mode
    MaxFaults,   \* bound: calls that fail
    MaxSteals,   \* bound: events that hub_test reads
    MaxSeconds   \* bound: the clock of the file names

ASSUME SizeAssumption == QSize \in Nat \ {0} /\ Batch \in Nat \ {0}
ASSUME CameraAssumption == Bufs \in Nat \ {0} /\ Skip \in Nat /\ Skip >= Bufs
ASSUME BoundAssumption ==
    /\ MaxMotion \in Nat /\ MaxPosts \in Nat
    /\ MaxFaults \in Nat /\ MaxSteals \in Nat /\ MaxSeconds \in Nat

Mode == {"monitor", "trigger"}
Kind == {"rise", "fall", "alert", "off"}
Second == 0 .. MaxSeconds
MaxSeq == 3 * MaxMotion   \* every rise may add an alert and its end

VARIABLES
    buf, event_seq, dropped, held,   \* the event stream
    events,      \* what each event is: its kind, and the update it reports
    updates,     \* how often the PIR's value was updated: its state
    tone,        \* the buzzer's stop work is pending
    mode,        \* app_state.mode, as HTTP requests leave it
    active,      \* active_mode
    mpc,         \* where the main loop is
    batch,       \* the events read and not yet looked at
    current,     \* the event that handle_trigger was called for last, or 0
    snap,        \* its snapshot: the number of the update
    path,        \* the second in its file name
    seen,        \* frames it has looked at
    free,        \* buffers queued to the camera; the first is being filled
    exposing,    \* its frame: the trigger that current was when it began
    filled,      \* the frames ready, oldest first
    frame,       \* the frame saved as yuv
    second,      \* the second that the clock showed last
    files,       \* the pictures on disk, by the second in their names: whose
                 \* they are, of which frame, and whether ffmpeg got to their end
    log,         \* events.log
    shown,       \* app_state.last_snapshot: the number of the update
    last,        \* app_state.last_capture_ok and last_image_path
    handled,     \* history: the events that handle_trigger was called for
    lost,        \* history: events discarded by a push or read by another process
    posts, faults

stream == <<buf, event_seq, dropped, held, events, lost>>
hub == <<updates, tone>>
control == <<mode, active, posts>>
pictures == <<frame, files, log, last>>
handling == <<current, handled, snap, path>>
camera == <<seen, free, exposing, filled>>
vars == <<stream, hub, control, mpc, batch, pictures, handling, camera, shown, second, faults>>

NoFile == [trigger |-> 0, frame |-> 0, whole |-> FALSE]
NoPath == MaxSeconds + 1
Main == "daemon"

Q == INSTANCE EventStream WITH Readers <- {Main}

Numbers == 0 .. MaxSeq

TypeOK ==
    /\ buf \in Seq(Numbers) /\ Len(buf) <= QSize /\ event_seq \in Numbers
    /\ held \in [{Main} -> Numbers]
    /\ events \in Seq([kind : Kind, upd : 0 .. MaxMotion]) /\ Len(events) = event_seq
    /\ updates \in 0 .. MaxMotion /\ tone \in BOOLEAN
    /\ mode \in Mode /\ active \in Mode
    /\ mpc \in {"loop", "poll", "read", "batch", "alert", "snapshot", "capture",
                "convert", "log"}
    /\ batch \in Seq(Numbers) /\ Len(batch) <= Batch
    /\ current \in Numbers /\ handled \in Seq(Numbers) /\ lost \subseteq Numbers
    /\ path \in Second /\ second \in Second
    /\ seen \in 0 .. Skip /\ free \in 0 .. Bufs
    /\ filled \in Seq(Numbers) /\ Len(filled) + free <= Bufs /\ exposing \in Numbers
    /\ frame \in Numbers /\ files \in [Second -> [trigger : Numbers, frame : Numbers, whole : BOOLEAN]]
    /\ shown \in 0 .. updates /\ snap \in 0 .. updates
    /\ log \in Seq([trigger : Numbers, snap : 0 .. MaxMotion, img : Second])
    /\ last \in [ok : BOOLEAN, path : Second \cup {NoPath}]
    /\ posts \in 0 .. MaxPosts /\ faults \in 0 .. MaxFaults

Init ==
    /\ Q!Init
    /\ events = <<>> /\ lost = {}
    /\ updates = 0 /\ tone = FALSE
    /\ mode \in Mode /\ active = mode
    /\ mpc = "loop" /\ batch = <<>>
    /\ current = 0 /\ snap = 0 /\ path = 0
    /\ seen = 0 /\ free = Bufs /\ exposing = 0 /\ filled = <<>>
    /\ frame = 0 /\ second = 0
    /\ files = [s \in Second |-> NoFile] /\ log = <<>>
    /\ shown = 0 /\ last = [ok |-> FALSE, path |-> NoPath]
    /\ handled = <<>> /\ posts = 0 /\ faults = 0

Fault == faults < MaxFaults /\ faults' = faults + 1
Go(from, to) == mpc = from /\ mpc' = to

----------------------------------------------------------------------------
(* The driver, and the other reader *)

Push(kind, upd) ==
    /\ Q!Push
    /\ events' = Append(events, [kind |-> kind, upd |-> upd])
    /\ lost' = IF Len(buf) = QSize THEN lost \cup {Head(buf)} ELSE lost

\* sh_pir_irq_thread updates the value and pushes the event (SensorHub has the
\* steps); after a debounced interrupt it may find the level it found before.
PirEvent(kind) ==
    /\ updates < MaxMotion
    /\ updates' = updates + 1
    /\ Push(kind, updates')
    /\ UNCHANGED <<tone, control, mpc, batch, pictures, handling, camera, shown, second, faults>>

\* The end of a tone is an event too.
ToneEnds ==
    /\ tone
    /\ tone' = FALSE
    /\ Push("off", updates)
    /\ UNCHANGED <<updates, control, mpc, batch, pictures, handling, camera, shown,
                   second, faults>>

\* hub_test reads from the same queue; what is lost and was not dropped, it took.
Steal ==
    /\ buf # <<>> /\ Cardinality(lost) < dropped + MaxSteals
    /\ buf' = Tail(buf) /\ lost' = lost \cup {Head(buf)}
    /\ UNCHANGED <<event_seq, dropped, held, events, hub, control, mpc, batch, pictures,
                   handling, camera, shown, second, faults>>

----------------------------------------------------------------------------
(* The camera *)

\* The camera fills the buffers queued to it, whether anyone wants a frame or
\* not, and goes on to the next frame at once.
FrameReady ==
    /\ active = "trigger" /\ free > 0
    /\ filled' = Append(filled, exposing) /\ free' = free - 1
    /\ exposing' = current
    /\ UNCHANGED <<stream, hub, control, mpc, batch, pictures, handling, seen, shown,
                   second, faults>>

----------------------------------------------------------------------------
(* The main loop *)

PostMode(m) ==
    /\ posts < MaxPosts
    /\ posts' = posts + 1 /\ mode' = m
    /\ UNCHANGED <<stream, hub, active, mpc, batch, pictures, handling, camera, shown,
                   second, faults>>

\* The camera is closed and opened again, in the new mode or, rolled back, in
\* the old one; events that are queued stay queued.
SwitchMode ==
    /\ mpc = "loop" /\ mode # active
    /\ \/ active' = mode /\ UNCHANGED <<mode, faults>>
       \/ mode' = active /\ Fault /\ UNCHANGED active
    /\ free' = Bufs /\ exposing' = current /\ filled' = <<>>
    /\ UNCHANGED <<stream, hub, posts, mpc, batch, pictures, handling, seen, shown,
                   second>>

\* refresh_app_snapshot: the status page is given the values of now.
RefreshStatus ==
    \/ shown' = updates /\ UNCHANGED faults
    \/ Fault /\ UNCHANGED shown

Pass ==
    /\ mpc = "loop" /\ mode = active
    /\ mpc' = IF active = "trigger" THEN "poll" ELSE "loop"
    /\ UNCHANGED <<stream, hub, control, batch, pictures, handling, camera, second>>

\* Mutant: in trigger mode the status is refreshed for events only.
MonitorPass == Pass /\ active = "monitor" /\ RefreshStatus

\* A pass that comes a second after the last refresh refreshes the status.
StatusPass == Pass /\ RefreshStatus

PlainPass == Pass /\ UNCHANGED <<shown, faults>>

\* Woken or timed out: what counts is whether an event is there.
Poll ==
    /\ Go("poll", IF buf # <<>> THEN "read" ELSE "loop")
    /\ UNCHANGED <<stream, hub, control, batch, pictures, handling, camera, shown, second, faults>>

\* Mutant: the end of the caller's array is not looked at.
ReadPastEnd ==
    /\ mpc = "read"
    /\ \/ Q!Take(Main) /\ UNCHANGED batch
       \/ Q!Dispose(Main) /\ batch' = Append(batch, held[Main])
    /\ UNCHANGED <<events, lost, hub, control, mpc, pictures, handling, camera, shown, second,
                   faults>>

\* read() fills the batch while there are events; if hub_test was faster, there
\* is none, and EAGAIN is taken for a batch of no events.
ReadEvent ==
    /\ mpc = "read" /\ Len(batch) < Batch
    /\ \/ Q!Take(Main) /\ UNCHANGED batch
       \/ Q!Dispose(Main) /\ batch' = Append(batch, held[Main])
    /\ UNCHANGED <<events, lost, hub, control, mpc, pictures, handling, camera, shown, second,
                   faults>>

\* After a read, whatever it returned, the status is refreshed.
ReadReturns ==
    /\ Len(batch) = Batch \/ buf = <<>>
    /\ held[Main] = 0
    /\ Go("read", "batch")
    /\ RefreshStatus
    /\ UNCHANGED <<stream, hub, control, batch, pictures, handling, camera, second>>

\* The filter of the loop: the PIR, its trigger code, its level 1.
Wanted(n) == events[n].kind = "rise"

NextEvent ==
    /\ mpc = "batch"
    /\ snap' = 0 /\ path' = 0 /\ frame' = 0 /\ seen' = 0
    /\ IF batch = <<>>
       THEN mpc' = "loop" /\ UNCHANGED <<batch, current, handled>>
       ELSE /\ batch' = Tail(batch)
            /\ IF Wanted(Head(batch))
               THEN /\ mpc' = "alert"
                    /\ current' = Head(batch)
                    /\ handled' = Append(handled, Head(batch))
               ELSE UNCHANGED <<mpc, current, handled>>
    /\ UNCHANGED <<stream, hub, control, files, log, last, free, exposing, filled, shown,
                   second, faults>>

----------------------------------------------------------------------------
(* handle_trigger *)

\* trigger_buzzer_alert: the driver restarts the tone and pushes an event, or
\* refuses; the SHT20 is refreshed, which makes no event.
Alert ==
    /\ Go("alert", "snapshot")
    /\ \/ tone' = TRUE /\ Push("alert", updates) /\ UNCHANGED faults
       \/ Fault /\ UNCHANGED <<tone, stream>>
    /\ UNCHANGED <<updates, control, batch, pictures, handling, camera, shown, second>>

\* Mutant: a failure also ends the batch.
FailBatch ==
    /\ Fault
    /\ mpc' = "batch" /\ batch' = <<>>
    /\ last' = [ok |-> FALSE, path |-> NoPath]

\* A failure is recorded; the loop goes on with the batch.
Fail ==
    /\ Fault
    /\ mpc' = "batch" /\ UNCHANGED batch
    /\ last' = [ok |-> FALSE, path |-> NoPath]

\* Any time may have passed since the clock was last read.
ReadClock ==
    /\ second' \in second .. MaxSeconds
    /\ path' = second'

\* Mutant: the values last shown are logged, as if they were current.
SnapshotShown ==
    /\ mpc = "snapshot"
    /\ mpc' = "capture" /\ snap' = shown /\ ReadClock
    /\ UNCHANGED <<shown, faults, batch, last, stream, hub, control, current, handled, frame,
                   files, log, camera>>

\* The snapshot is shown too; then make_capture_paths names the files for the
\* second.
Snapshot ==
    /\ mpc = "snapshot"
    /\ \/ /\ mpc' = "capture" /\ snap' = updates /\ ReadClock
          /\ shown' = updates /\ UNCHANGED <<faults, batch, last>>
       \/ Fail /\ UNCHANGED <<snap, path, second, shown>>
    /\ UNCHANGED <<stream, hub, control, current, handled, frame, files, log, camera>>

\* Mutant: one frame is skipped too few.
AlmostSkipped == seen + 1 >= Skip

EnoughSkipped == seen >= Skip

\* VIDIOC_QBUF: a camera that had no buffer begins its next frame now.
QueueBuffer ==
    /\ free' = free + 1
    /\ exposing' = IF free = 0 THEN current ELSE exposing

\* Mutant: a frame is skipped and its buffer kept.
SkipKeepsBuffer ==
    /\ mpc = "capture" /\ filled # <<>> /\ ~EnoughSkipped
    /\ seen' = seen + 1 /\ filled' = Tail(filled)
    /\ UNCHANGED <<free, exposing, mpc, batch, last, faults>>
    /\ UNCHANGED <<stream, hub, control, frame, files, log, handling, shown, second>>

\* camera_capture_one gives a frame back unseen; VIDIOC_QBUF may fail.
SkipFrame ==
    /\ mpc = "capture" /\ filled # <<>> /\ ~EnoughSkipped
    /\ seen' = seen + 1 /\ filled' = Tail(filled)
    /\ \/ QueueBuffer /\ UNCHANGED <<mpc, batch, last, faults>>
       \/ Fail /\ UNCHANGED <<free, exposing>>
    /\ UNCHANGED <<stream, hub, control, frame, files, log, handling, shown, second>>

\* The frame is saved as yuv and its buffer given back; either may fail.
SaveFrame ==
    /\ mpc = "capture" /\ filled # <<>> /\ EnoughSkipped
    /\ filled' = Tail(filled)
    /\ \/ QueueBuffer /\ frame' = Head(filled) /\ mpc' = "convert"
          /\ UNCHANGED <<batch, last, faults>>
       \/ Fail /\ (QueueBuffer \/ UNCHANGED <<free, exposing>>) /\ UNCHANGED frame
    /\ UNCHANGED <<stream, hub, control, files, log, handling, seen, shown, second>>

CaptureFails ==
    /\ mpc = "capture"
    /\ Fail
    /\ UNCHANGED <<stream, hub, control, frame, files, log, handling, camera, shown, second>>

\* The picture of this second, written over one that had its name.
Written(whole) ==
    [files EXCEPT ![path] = [trigger |-> current, frame |-> frame, whole |-> whole]]

\* Mutant: the exit status of ffmpeg is not looked at.
ConvertUnchecked ==
    /\ Go("convert", "log")
    /\ \/ files' = Written(TRUE) /\ UNCHANGED faults
       \/ Fault /\ (files' = Written(FALSE) \/ UNCHANGED files)
    /\ UNCHANGED <<batch, last, stream, hub, control, frame, log, handling, camera, shown, second>>

\* ffmpeg -y writes over a picture of that name; if it fails, it may have begun to.
Convert ==
    /\ mpc = "convert"
    /\ \/ files' = Written(TRUE) /\ mpc' = "log" /\ UNCHANGED <<batch, last, faults>>
       \/ Fail /\ (files' = Written(FALSE) \/ UNCHANGED files)
    /\ UNCHANGED <<stream, hub, control, frame, log, handling, camera, shown, second>>

\* update_capture_state, then append_event_log; if the log cannot be opened,
\* the line is not written.
Record ==
    /\ Go("log", "batch")
    /\ last' = [ok |-> TRUE, path |-> path]
    /\ \/ log' = Append(log, [trigger |-> current, snap |-> snap, img |-> path])
          /\ UNCHANGED faults
       \/ Fault /\ UNCHANGED log
    /\ UNCHANGED <<stream, hub, control, batch, frame, files, handling, camera, shown, second>>

----------------------------------------------------------------------------

HandleStep ==
    \/ Alert \/ Snapshot \/ SkipFrame \/ SaveFrame \/ Convert \/ Record

MainStep ==
    \/ SwitchMode \/ StatusPass \/ PlainPass \/ Poll \/ ReadEvent \/ ReadReturns
    \/ NextEvent \/ HandleStep

Next ==
    \/ \E kind \in {"rise", "fall"} : PirEvent(kind)
    \/ ToneEnds \/ Steal
    \/ FrameReady
    \/ \E m \in Mode : PostMode(m)
    \/ MainStep \/ CaptureFails

Spec == Init /\ [][Next]_vars

\* The main loop runs on, the camera exposes and delivers while it has a
\* buffer, and of the passes of the loop ever new ones come a second after the
\* last refresh.  Nobody owes motion or a request.
FairSpec ==
    /\ Spec
    /\ WF_vars(MainStep) /\ WF_vars(FrameReady) /\ SF_vars(StatusPass)

----------------------------------------------------------------------------
(* Properties *)

\* Every motion event has one fate: it is queued, or in the batch, or was given
\* to handle_trigger (once, in order), or was overwritten or read by hub_test.
\* No failure in one trigger loses another one of its batch.
EveryTriggerHasOneFate ==
    /\ \A i, j \in DOMAIN handled : i < j => handled[i] < handled[j]
    /\ \A n \in 1 .. event_seq : events[n].kind = "rise" =>
          n \in Range(handled) \cup Range(batch) \cup Range(buf) \cup {held[Main]} \cup lost

\* A picture saved for an event was exposed after handle_trigger took the event
\* up: the frames that were waiting in the camera's buffers, or were being
\* exposed, are all among those that camera_capture_one skips.
PicturesAreFresh ==
    \A s \in Second : files[s].whole => files[s].frame = files[s].trigger

\* The picture is that of the line, and whole, or one that was written over it.
Shows(picture, line) ==
    \/ picture.trigger > line.trigger
    \/ picture.trigger = line.trigger /\ picture.whole

\* The log can be followed: each line names a whole picture of its own event,
\* unless a later event of the same second has been converted to that name since
\* (ffmpeg overwrites, whole or not); and the status page names a whole picture.
LogNamesPictures ==
    /\ \A i \in DOMAIN log : Shows(files[log[i].img], log[i])
    /\ last.ok => files[last.path].whole

\* The values logged for an event are those of an instant not before the event:
\* no line combines an event with values that the event had replaced.
LogNotOlder ==
    \A i \in DOMAIN log : log[i].snap >= events[log[i].trigger].upd

Unanswered ==
    {n \in 1 .. event_seq : events[n].kind = "rise" /\ n \notin Range(handled) \cup lost}

\* While the daemon is in trigger mode, no motion event waits for ever: it is
\* answered, unless it is overwritten or read by hub_test first.  (Each failure
\* of VIDIOC_QBUF costs the camera a buffer: with MaxFaults < Bufs one is left.)
TriggersAnswered == []<>(Unanswered = {} \/ active = "monitor")

\* The page does not go on showing motion that has ended (main refreshes it
\* every second, in both modes): when the PIR has settled, so does the page.
StatusCatchesUp == []<>(shown = updates)
=============================================================================
