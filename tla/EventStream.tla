---------------------------- MODULE EventStream ----------------------------
(***************************************************************************)
(* What the event queue of the sensor hub promises its users, with no ring *)
(* buffer in it: a bounded first-in first-out stream of numbered events.   *)
(* A push into a full stream discards the oldest event, never the new one; *)
(* a reader takes the oldest event; the stream can be cleared.  EventQueue *)
(* (the driver's ring, its locks and its read loop) implements this.       *)
(***************************************************************************)
EXTENDS Naturals, Sequences

CONSTANTS
    QSize,       \* how many events the stream holds
    Readers,     \* the open files
    MaxSeq       \* bound on the events pushed in one behaviour

VARIABLES
    buf,         \* the numbers of the events that can be read, oldest first
    event_seq,   \* the number of the last event pushed
    dropped,     \* how many events were discarded by a push
    held         \* the event each reader has taken and not yet disposed of, or 0

vars == <<buf, event_seq, dropped, held>>

Init ==
    /\ buf = <<>>
    /\ event_seq = 0
    /\ dropped = 0
    /\ held = [r \in Readers |-> 0]

Push ==
    LET full == Len(buf) = QSize
        kept == IF full THEN Tail(buf) ELSE buf
    IN  /\ event_seq < MaxSeq
        /\ event_seq' = event_seq + 1
        /\ buf' = Append(kept, event_seq + 1)
        /\ dropped' = IF full THEN dropped + 1 ELSE dropped
        /\ UNCHANGED held

Take(r) ==
    /\ held[r] = 0
    /\ buf # <<>>
    /\ held' = [held EXCEPT ![r] = Head(buf)]
    /\ buf' = Tail(buf)
    /\ UNCHANGED <<event_seq, dropped>>

Dispose(r) ==
    /\ held[r] # 0
    /\ held' = [held EXCEPT ![r] = 0]
    /\ UNCHANGED <<buf, event_seq, dropped>>

Clear ==
    /\ buf' = <<>>
    /\ UNCHANGED <<event_seq, dropped, held>>

Next ==
    \/ Push
    \/ \E r \in Readers : Take(r) \/ Dispose(r)
    \/ Clear

Spec == Init /\ [][Next]_vars
=============================================================================
