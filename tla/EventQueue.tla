----------------------------- MODULE EventQueue -----------------------------
(***************************************************************************)
(* The event queue of the sensor hub (struct sh_event_queue) with every    *)
(* operation that touches it: sh_push_event, sh_q_pop, the read loop of    *)
(* sh_read with its wait_event_interruptible, sh_poll, and the ioctl       *)
(* SH_IOC_CLR_EVENTS.                                                      *)
(*                                                                         *)
(* A section under the spinlock q.lock is one action.  What the code does  *)
(* outside it is a step of its own: the wake-up after a push, the copy to  *)
(* user space after a pop, the test of q.count before and after a reader   *)
(* enters the wait queue.  An event is represented by the number, 1 or      *)
(* more, that sh_push_event gives it; 0 is a zeroed slot or variable.      *)
(***************************************************************************)
EXTENDS Naturals

CONSTANTS
    QSize,       \* SH_EVT_Q_SIZE
    Producers,   \* the sensors; each pushes its events from a context of its own
    Readers,     \* the open files on /dev/sensor_hub
    NonBlock,    \* the readers that opened with O_NONBLOCK
    MaxBatch,    \* bound: events a read() buffer has room for
    MaxSeq       \* bound: events pushed in one behaviour

ASSUME QSizeAssumption == QSize \in Nat \ {0}
ASSUME BoundAssumption == MaxSeq \in Nat /\ MaxBatch \in Nat
ASSUME ReaderAssumption == NonBlock \subseteq Readers

VARIABLES
    events,      \* the ring
    head,        \* where the next event goes
    tail,        \* where the oldest event is
    count,       \* how many events are queued
    dropped,     \* events overwritten before anyone read them
    event_seq,   \* number of the last event pushed
    ppc,         \* where each producer is in sh_push_event
    pc,          \* where each reader is in sh_read or in poll()
    room,        \* events that still fit in the buffer of its read()
    held,        \* the event popped and not yet copied to user space
    last,        \* history: the last event each reader received, 0 for none
    popped,      \* history: how many events were popped
    cleared      \* history: how many events SH_IOC_CLR_EVENTS discarded

ring == <<events, head, tail, count, dropped, event_seq>>
caller == <<pc, room, held>>
history == <<last, popped, cleared>>
vars == <<ring, ppc, caller, history>>

\* In the loop of sh_read: "first" while nothing has been copied out, "more"
\* after that.  The wait queue q.wq is the set of readers at "queued" or "asleep" (sh_read)
\* and at "poll" or "pollsleep" (poll); at "queued" and "poll" they are awake.
ReaderPc == {"idle", "first", "more", "copy", "test", "queued", "asleep", "poll", "pollsleep"}

TypeOK ==
    /\ events \in [0 .. QSize - 1 -> Nat]
    /\ head \in 0 .. QSize - 1
    /\ tail \in 0 .. QSize - 1
    /\ count \in 0 .. QSize
    /\ dropped \in Nat
    /\ event_seq \in Nat
    /\ ppc \in [Producers -> {"idle", "wake"}]
    /\ pc \in [Readers -> ReaderPc]
    /\ room \in [Readers -> Nat]
    /\ held \in [Readers -> Nat]
    /\ last \in [Readers -> Nat]
    /\ popped \in Nat
    /\ cleared \in Nat

Init ==
    /\ events = [i \in 0 .. QSize - 1 |-> 0]
    /\ head = 0 /\ tail = 0 /\ count = 0
    /\ dropped = 0 /\ event_seq = 0
    /\ ppc = [p \in Producers |-> "idle"]
    /\ pc = [r \in Readers |-> "idle"]
    /\ room = [r \in Readers |-> 0]
    /\ held = [r \in Readers |-> 0]
    /\ last = [r \in Readers |-> 0]
    /\ popped = 0 /\ cleared = 0

At(r, from, to) == pc[r] = from /\ pc' = [pc EXCEPT ![r] = to]

\* A call ends: its local variables are gone.
Return(r) ==
    /\ pc' = [pc EXCEPT ![r] = "idle"]
    /\ room' = [room EXCEPT ![r] = 0]
    /\ held' = [held EXCEPT ![r] = 0]

----------------------------------------------------------------------------
(* sh_push_event *)

\* Mutant: the index runs past the end of the ring.
NextSlotUnwrapped(i) == i + 1

NextSlot(i) == (i + 1) % QSize

\* Mutant: the overwritten event is not counted.
MakeRoomUncounted ==
    /\ tail' = IF count = QSize THEN NextSlot(tail) ELSE tail
    /\ count' = IF count = QSize THEN count ELSE count + 1
    /\ UNCHANGED dropped

\* Mutant: the newest event overwrites the oldest, which stays first in line.
MakeRoomKeepsTail ==
    /\ dropped' = IF count = QSize THEN dropped + 1 ELSE dropped
    /\ count' = IF count = QSize THEN count ELSE count + 1
    /\ UNCHANGED tail

\* A full ring gives up its oldest event.
MakeRoom ==
    IF count = QSize
    THEN tail' = NextSlot(tail) /\ dropped' = dropped + 1 /\ UNCHANGED count
    ELSE count' = count + 1 /\ UNCHANGED <<tail, dropped>>

Push(p) ==
    /\ ppc[p] = "idle"
    /\ event_seq < MaxSeq
    /\ MakeRoom
    /\ event_seq' = event_seq + 1
    /\ events' = [events EXCEPT ![head] = event_seq + 1]
    /\ head' = NextSlot(head)
    /\ ppc' = [ppc EXCEPT ![p] = "wake"]
    /\ UNCHANGED <<caller, history>>

\* wake_up_interruptible: every sleeper goes on to look at q.count again.
Woken(s) == CASE s = "asleep" -> "queued"
              [] s = "pollsleep" -> "poll"
              [] OTHER -> s

\* Mutant: the sleepers are left asleep.
WakeNobody(p) ==
    /\ ppc[p] = "wake"
    /\ ppc' = [ppc EXCEPT ![p] = "idle"]
    /\ UNCHANGED <<ring, caller, history>>

Wake(p) ==
    /\ ppc[p] = "wake"
    /\ ppc' = [ppc EXCEPT ![p] = "idle"]
    /\ pc' = [r \in Readers |-> Woken(pc[r])]
    /\ UNCHANGED <<ring, room, held, history>>

----------------------------------------------------------------------------
(* sh_read *)

\* A length of zero events, or not a whole number of them, is refused and
\* changes nothing.
BeginRead(r) ==
    /\ At(r, "idle", "first")
    /\ \E n \in 1 .. MaxBatch : room' = [room EXCEPT ![r] = n]
    /\ UNCHANGED <<ring, ppc, held, history>>

\* Mutant: the tail is not advanced.
PopKeepsTail(r) ==
    /\ count > 0
    /\ pc[r] \in {"first", "more"}
    /\ pc' = [pc EXCEPT ![r] = "copy"]
    /\ held' = [held EXCEPT ![r] = events[tail]]
    /\ count' = count - 1
    /\ popped' = popped + 1
    /\ UNCHANGED <<events, head, tail, dropped, event_seq, ppc, room, last, cleared>>

\* sh_q_pop takes the oldest event.
Pop(r) ==
    /\ count > 0
    /\ pc[r] \in {"first", "more"}
    /\ pc' = [pc EXCEPT ![r] = "copy"]
    /\ held' = [held EXCEPT ![r] = events[tail]]
    /\ tail' = NextSlot(tail)
    /\ count' = count - 1
    /\ popped' = popped + 1
    /\ UNCHANGED <<events, head, dropped, event_seq, ppc, room, last, cleared>>

\* sh_q_pop found nothing: a read that has copied something returns it, a
\* non-blocking one returns EAGAIN, the others wait.
PopEmptyReturn(r) ==
    /\ count = 0
    /\ pc[r] = "more" \/ (pc[r] = "first" /\ r \in NonBlock)
    /\ Return(r)
    /\ UNCHANGED <<ring, ppc, history>>

PopEmptyWait(r) ==
    /\ count = 0 /\ r \notin NonBlock
    /\ At(r, "first", "test")
    /\ UNCHANGED <<ring, ppc, room, held, history>>

\* copy_to_user succeeds; the loop goes on while the buffer has room.
CopyOut(r) ==
    /\ pc[r] = "copy"
    /\ last' = [last EXCEPT ![r] = held[r]]
    /\ IF room[r] <= 1
       THEN Return(r)
       ELSE /\ pc' = [pc EXCEPT ![r] = "more"]
            /\ room' = [room EXCEPT ![r] = room[r] - 1]
            /\ held' = [held EXCEPT ![r] = 0]
    /\ UNCHANGED <<ring, ppc, popped, cleared>>

\* copy_to_user fails: the popped event is gone, and no counter says so.
CopyFault(r) ==
    /\ pc[r] = "copy"
    /\ Return(r)
    /\ UNCHANGED <<ring, ppc, history>>

\* wait_event_interruptible: look at q.count with no lock, enter the wait
\* queue, look again, and only then sleep.
WaitTest(r) ==
    /\ At(r, "test", IF count > 0 THEN "first" ELSE "queued")
    /\ UNCHANGED <<ring, ppc, room, held, history>>

\* Mutant: a reader sleeps without looking again after it enters the queue.
WaitBlindly(r) ==
    /\ At(r, "queued", "asleep")
    /\ UNCHANGED <<ring, ppc, room, held, history>>

WaitRetest(r) ==
    /\ At(r, "queued", IF count > 0 THEN "first" ELSE "asleep")
    /\ UNCHANGED <<ring, ppc, room, held, history>>

\* A signal ends the wait and the read with ERESTARTSYS.
Signal(r) ==
    /\ pc[r] = "asleep"
    /\ Return(r)
    /\ UNCHANGED <<ring, ppc, history>>

----------------------------------------------------------------------------
(* poll() on the device: sh_poll enters the wait queue, then looks at q.count *)

BeginPoll(r) ==
    /\ At(r, "idle", "poll")
    /\ UNCHANGED <<ring, ppc, room, held, history>>

PollTest(r) ==
    /\ At(r, "poll", IF count > 0 THEN "idle" ELSE "pollsleep")
    /\ UNCHANGED <<ring, ppc, room, held, history>>

PollTimeout(r) ==
    /\ At(r, "pollsleep", "idle")
    /\ UNCHANGED <<ring, ppc, room, held, history>>

----------------------------------------------------------------------------
(* SH_IOC_CLR_EVENTS, from any process, under the spinlock *)

\* Mutant: the count is not reset.
ClearKeepsCount ==
    /\ head' = 0 /\ tail' = 0
    /\ cleared' = cleared + count
    /\ UNCHANGED <<events, count, dropped, event_seq, ppc, caller, last, popped>>

ClearEvents ==
    /\ head' = 0 /\ tail' = 0 /\ count' = 0
    /\ cleared' = cleared + count
    /\ UNCHANGED <<events, dropped, event_seq, ppc, caller, last, popped>>

----------------------------------------------------------------------------

ReaderStep(r) ==
    \/ Pop(r) \/ PopEmptyReturn(r) \/ PopEmptyWait(r) \/ CopyOut(r)
    \/ WaitTest(r) \/ WaitRetest(r) \/ PollTest(r)

Next ==
    \/ \E p \in Producers : Push(p) \/ Wake(p)
    \/ \E r \in Readers : \/ BeginRead(r) \/ BeginPoll(r)
                          \/ ReaderStep(r)
                          \/ CopyFault(r) \/ Signal(r) \/ PollTimeout(r)
    \/ ClearEvents

Spec == Init /\ [][Next]_vars

\* A producer that has pushed gets to its wake-up, and a reader that can run
\* runs: both are code of the driver on a preemptive kernel.  Nobody owes a
\* push, a read, a signal, a timeout or a clear.
Fairness ==
    /\ \A p \in Producers : WF_vars(Wake(p))
    /\ \A r \in Readers : WF_vars(ReaderStep(r))

FairSpec == Spec /\ Fairness

----------------------------------------------------------------------------
(* Properties *)

\* The i-th queued event, counted from the oldest.
Slot(i) == (tail + i) % QSize

\* The ring holds exactly the newest events, in the order they were pushed:
\* the queued events are numbered event_seq - count + 1 .. event_seq with no
\* gap, whatever pushes, overwrites, pops and clears came before
\* (sh_push_event, sh_q_pop, SH_IOC_CLR_EVENTS).
NewestEventsQueued ==
    \A i \in 0 .. count - 1 : events[Slot(i)] + count = event_seq + 1 + i

\* head, tail and count never disagree: head is count slots after tail.
HeadAgrees == head = Slot(count)

\* Every event pushed is accounted for exactly once: taken by a reader,
\* still queued, overwritten and counted in q.dropped, or cleared
\* (sensor_hub_core.c: q.dropped is what SH_IOC_GET_SNAPSHOT reports).
EveryEventAccounted == event_seq = popped + count + dropped + cleared

\* Each reader receives events in the order they were pushed, and no event is
\* in two hands: an event a reader holds is newer than all it received, older
\* than all that are queued, and no other reader holds it or received it last
\* (sh_q_pop under q.lock, copy_to_user outside it).
OrderedDelivery ==
    \A r \in Readers :
        /\ held[r] # 0 => held[r] > last[r]
        /\ held[r] + count <= event_seq /\ last[r] + count <= event_seq
        /\ \A s \in Readers \ {r} :
              /\ held[r] # 0 => held[r] \notin {held[s], last[s]}
              /\ last[r] # 0 => last[r] # last[s]

\* No lost wake-up: a reader asleep in read() or poll() while events are
\* queued is about to be woken by the producer of one of them
\* (sh_push_event wakes after it unlocks, wait_event tests after it enqueues).
NoLostWakeup ==
    (\E r \in Readers : pc[r] \in {"asleep", "pollsleep"}) /\ count > 0
        => \E p \in Producers : ppc[p] = "wake"

\* While the queue stays nonempty, no read() or poll() stays blocked on it,
\* however often other readers take the event that woke it.
NonemptyQueueServes ==
    \A r \in Readers : <>[](count > 0) => []<>(pc[r] = "idle")

----------------------------------------------------------------------------
(* The ring implements the bounded stream. *)

Stream == INSTANCE EventStream WITH
              buf <- [i \in 1 .. count |-> events[Slot(i - 1)]]

\* Every step of the ring is a step of the bounded first-in first-out stream,
\* or changes nothing a user of it can see.
ImplementsStream == Stream!Spec
=============================================================================
