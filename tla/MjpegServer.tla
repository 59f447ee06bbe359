---------------------------- MODULE MjpegServer -----------------------------
(***************************************************************************)
(* The live-video half of http_server.c: the cache of the latest JPEG      *)
(* frame, and one thread per browser that waits on its condition variable  *)
(* for the next one.  Daemon uses these actions from the main loop and the *)
(* monitor worker.                                                         *)
(*                                                                         *)
(* A section under g_mjpeg.lock is one action: g_http_running and the mode *)
(* are read in it with the lock held until pthread_cond_wait gives it up,  *)
(* so that a change in between is as good as one right after.              *)
(***************************************************************************)
EXTENDS Naturals

CONSTANT Clients      \* the threads that serve GET /stream.mjpg

Mode == {"monitor", "trigger"}

VARIABLES
    http_running,  \* g_http_running
    listening,     \* the accept loop, http_thread_main, is alive
    mode,          \* app_state.mode, which POST /api/mode writes
    valid,         \* g_mjpeg.valid
    seq,           \* g_mjpeg.seq
    frame,         \* number of the frame in g_mjpeg.buf, 0 for none yet
    cpc,           \* where each client thread is
    last_seq,      \* its last_seq
    copy           \* number of the frame in its local buffer, 0 for none

cache == <<valid, seq, frame>>
client == <<cpc, last_seq, copy>>
serverVars == <<http_running, listening, mode, cache, client>>

ServerTypeOK ==
    /\ http_running \in BOOLEAN /\ listening \in BOOLEAN
    /\ mode \in Mode
    /\ valid \in BOOLEAN /\ seq \in Nat /\ frame \in Nat
    /\ cpc \in [Clients -> {"off", "check", "wait", "send"}]
    /\ last_seq \in [Clients -> Nat] /\ copy \in [Clients -> Nat]

\* http_server_start has been called with the mode of the command line.
ServerInit(m) ==
    /\ http_running = TRUE /\ listening = TRUE /\ mode = m
    /\ valid = FALSE /\ seq = 0 /\ frame = 0
    /\ cpc = [c \in Clients |-> "off"]
    /\ last_seq = [c \in Clients |-> 0]
    /\ copy = [c \in Clients |-> 0]

To(c, from, to) == cpc[c] = from /\ cpc' = [cpc EXCEPT ![c] = to]

----------------------------------------------------------------------------
(* The cache *)

\* pthread_cond_broadcast: every waiter goes on to look again.
Broadcast == cpc' = [c \in Clients |-> IF cpc[c] = "wait" THEN "check" ELSE cpc[c]]

\* Mutant: no waiter is told of the frame.
PublishQuietly ==
    /\ frame' = frame + 1
    /\ valid' = TRUE
    /\ seq' = seq + 1
    /\ UNCHANGED <<http_running, listening, mode, client>>

\* http_server_publish_jpeg
Publish ==
    /\ frame' = frame + 1
    /\ valid' = TRUE
    /\ seq' = seq + 1
    /\ Broadcast
    /\ UNCHANGED <<http_running, listening, mode, last_seq, copy>>

\* Mutant: the frame stays valid.
ClearKeepsValid ==
    /\ seq' = seq + 1
    /\ Broadcast
    /\ UNCHANGED <<http_running, listening, mode, valid, frame, last_seq, copy>>

\* http_server_clear_mjpeg
Clear ==
    /\ valid' = FALSE
    /\ seq' = seq + 1
    /\ Broadcast
    /\ UNCHANGED <<http_running, listening, mode, frame, last_seq, copy>>

----------------------------------------------------------------------------
(* handle_mjpeg_stream and wait_and_copy_next_jpeg *)

\* The header is sent; a thread whose send fails has ended before it began.
Connect(c) ==
    /\ listening
    /\ To(c, "off", "check")
    /\ last_seq' = [last_seq EXCEPT ![c] = 0]
    /\ copy' = [copy EXCEPT ![c] = 0]
    /\ UNCHANGED <<http_running, listening, mode, cache>>

\* The server stops, or the mode is not monitor any more: the stream ends.
EndStream(c) ==
    /\ ~http_running \/ mode # "monitor"
    /\ To(c, "check", "off")
    /\ UNCHANGED <<http_running, listening, mode, cache, last_seq, copy>>

NewFrame(c) == valid /\ seq # last_seq[c]

\* Mutant: the client does not remember which frame it has.
TakeForgetful(c) ==
    /\ http_running /\ mode = "monitor" /\ NewFrame(c)
    /\ To(c, "check", "send")
    /\ copy' = [copy EXCEPT ![c] = frame]
    /\ UNCHANGED <<http_running, listening, mode, cache, last_seq>>

TakeFrame(c) ==
    /\ http_running /\ mode = "monitor" /\ NewFrame(c)
    /\ To(c, "check", "send")
    /\ copy' = [copy EXCEPT ![c] = frame]
    /\ last_seq' = [last_seq EXCEPT ![c] = seq]
    /\ UNCHANGED <<http_running, listening, mode, cache>>

\* A frame larger than the local buffer: realloc may fail, which ends the stream.
CopyFails(c) ==
    /\ http_running /\ mode = "monitor" /\ NewFrame(c)
    /\ To(c, "check", "off")
    /\ UNCHANGED <<http_running, listening, mode, cache, last_seq, copy>>

Wait(c) ==
    /\ http_running /\ mode = "monitor" /\ ~NewFrame(c)
    /\ To(c, "check", "wait")
    /\ UNCHANGED <<http_running, listening, mode, cache, last_seq, copy>>

\* send_all, outside the lock: done, or failed because the connection was reset.
Sent(c) ==
    /\ To(c, "send", "check")
    /\ UNCHANGED <<http_running, listening, mode, cache, last_seq, copy>>

SendFails(c) ==
    /\ To(c, "send", "off")
    /\ UNCHANGED <<http_running, listening, mode, cache, last_seq, copy>>

\* The process is killed.
AllThreadsGone ==
    /\ listening' = FALSE
    /\ cpc' = [c \in Clients |-> "off"]
    /\ UNCHANGED <<http_running, mode, cache, last_seq, copy>>

ClientStep(c) == EndStream(c) \/ TakeFrame(c) \/ Wait(c)

----------------------------------------------------------------------------
(* POST /api/mode and http_server_stop *)

\* handle_mode changes app_state.mode and nothing else: no waiter is told.
SetMode(m) ==
    /\ mode' = m
    /\ UNCHANGED <<http_running, listening, cache, client>>

StopFlag ==
    /\ http_running' = FALSE
    /\ UNCHANGED <<listening, mode, cache, client>>

\* Mutant: http_server_stop does not broadcast.
StopQuietly ==
    /\ UNCHANGED serverVars

StopBroadcast ==
    /\ Broadcast
    /\ UNCHANGED <<http_running, listening, mode, cache, last_seq, copy>>

\* The accept loop sees the flag within 200 ms.
AcceptLoopEnds ==
    /\ ~http_running /\ listening
    /\ listening' = FALSE
    /\ UNCHANGED <<http_running, mode, cache, client>>
=============================================================================
