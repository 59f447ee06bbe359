-------------------------- MODULE EventQueueProofs --------------------------
(***************************************************************************)
(* Theorems about the event queue, for every size of the ring, every set   *)
(* of producers and readers and every bound.  The safety properties of     *)
(* EventQueue are inductive together with TypeOK and HeadAgrees; each is   *)
(* proved from those before it.                                            *)
(***************************************************************************)
EXTENDS EventQueue, Integers, Sequences, TLAPS

----------------------------------------------------------------------------
(* Slots of the ring *)

\* The successor of a slot is the next one, or the first after the last.
LEMMA NextSlotWraps ==
    ASSUME NEW i \in 0 .. QSize - 1
    PROVE  /\ NextSlot(i) = IF i + 1 = QSize THEN 0 ELSE i + 1
           /\ NextSlot(i) \in 0 .. QSize - 1
  BY QSizeAssumption DEF NextSlot

\* The slot i slots after slot t.
Turn(t, i) == (t + i) % QSize

\* A slot reached by going at most one whole turn round the ring.
LEMMA TurnWraps ==
    ASSUME NEW t \in 0 .. QSize - 1, NEW i \in 0 .. QSize
    PROVE  /\ Turn(t, i) = IF t + i < QSize THEN t + i ELSE t + i - QSize
           /\ Turn(t, i) \in 0 .. QSize - 1
  BY QSizeAssumption DEF Turn

\* The two properties of the ring, in terms of Turn.
LEMMA RingInTurns ==
    /\ HeadAgrees <=> head = Turn(tail, count)
    /\ HeadAgrees' <=> head' = Turn(tail', count')
    /\ NewestEventsQueued <=>
         \A i \in 0 .. count - 1 : events[Turn(tail, i)] + count = event_seq + 1 + i
    /\ NewestEventsQueued' <=>
         \A i \in 0 .. count' - 1 : events'[Turn(tail', i)] + count' = event_seq' + 1 + i
  BY DEF HeadAgrees, NewestEventsQueued, Slot, Turn

----------------------------------------------------------------------------
(* Type correctness *)

\* Every variable keeps its type: in particular the indices stay inside the
\* ring and its count never exceeds its size (sh_push_event, sh_q_pop).
THEOREM TypeCorrect == Spec => []TypeOK
<1>1. Init => TypeOK
  BY QSizeAssumption DEF Init, TypeOK, ReaderPc
<1>2. TypeOK /\ [Next]_vars => TypeOK'
  <2> SUFFICES ASSUME TypeOK, [Next]_vars
               PROVE  TypeOK'
    OBVIOUS
  <2> USE DEF TypeOK, ReaderPc, ring, caller, history
  <2>1. ASSUME NEW p \in Producers, Push(p)
        PROVE  TypeOK'
    <3>1. NextSlot(head) \in 0 .. QSize - 1 /\ NextSlot(tail) \in 0 .. QSize - 1
      BY NextSlotWraps
    <3>2. CASE count = QSize
      BY <2>1, <3>1, <3>2 DEF Push, MakeRoom
    <3>3. CASE count # QSize
      <4>1. count + 1 \in 0 .. QSize
        BY <3>3, QSizeAssumption
      <4> QED
        BY <2>1, <3>1, <3>3, <4>1 DEF Push, MakeRoom
    <3> QED
      BY <3>2, <3>3
  <2>2. ASSUME NEW p \in Producers, Wake(p)
        PROVE  TypeOK'
    BY <2>2 DEF Wake, Woken
  <2>3. ASSUME NEW r \in Readers, BeginRead(r)
        PROVE  TypeOK'
    <3>1. PICK n \in 1 .. MaxBatch : room' = [room EXCEPT ![r] = n]
      BY <2>3 DEF BeginRead
    <3>2. n \in Nat
      BY BoundAssumption
    <3> QED
      BY <2>3, <3>1, <3>2 DEF BeginRead, At
  <2>4. ASSUME NEW r \in Readers, Pop(r)
        PROVE  TypeOK'
    <3>1. NextSlot(tail) \in 0 .. QSize - 1
      BY NextSlotWraps
    <3>2. events[tail] \in Nat /\ count - 1 \in 0 .. QSize
      BY <2>4, QSizeAssumption DEF Pop
    <3> QED
      BY <2>4, <3>1, <3>2 DEF Pop, At
  <2>5. ASSUME NEW r \in Readers, PopEmptyReturn(r) \/ CopyFault(r) \/ Signal(r)
        PROVE  TypeOK'
    <3>1. Return(r) /\ UNCHANGED <<ring, ppc, history>>
      BY <2>5 DEF PopEmptyReturn, CopyFault, Signal
    <3> QED
      BY <3>1 DEF Return
  <2>6. ASSUME NEW r \in Readers, CopyOut(r)
        PROVE  TypeOK'
    <3>1. /\ last' = [last EXCEPT ![r] = held[r]] /\ held' = [held EXCEPT ![r] = 0]
          /\ \E n \in Nat : room' = [room EXCEPT ![r] = n]
          /\ \E s \in ReaderPc : pc' = [pc EXCEPT ![r] = s]
          /\ UNCHANGED <<ring, ppc, popped, cleared>>
      <4>1. CASE room[r] <= 1
        BY <2>6, <4>1 DEF CopyOut, Return
      <4>2. CASE ~(room[r] <= 1)
        BY <2>6, <4>2 DEF CopyOut
      <4> QED
        BY <4>1, <4>2
    <3> QED
      BY <3>1
  <2>7. ASSUME NEW r \in Readers,
               BeginPoll(r) \/ PopEmptyWait(r) \/ WaitTest(r) \/ WaitRetest(r)
               \/ PollTest(r) \/ PollTimeout(r)
        PROVE  TypeOK'
    <3>1. /\ \E s \in ReaderPc : pc' = [pc EXCEPT ![r] = s]
          /\ UNCHANGED <<ring, ppc, room, held, history>>
      BY <2>7 DEF BeginPoll, PopEmptyWait, WaitTest, WaitRetest, PollTest, PollTimeout, At
    <3> QED
      BY <3>1
  <2>8. CASE ClearEvents
    <3>1. 0 \in 0 .. QSize - 1 /\ 0 \in 0 .. QSize /\ cleared + count \in Nat
      BY QSizeAssumption
    <3> QED
      BY <2>8, <3>1 DEF ClearEvents
  <2>9. CASE UNCHANGED vars
    BY <2>9 DEF vars
  <2> QED
    BY <2>1, <2>2, <2>3, <2>4, <2>5, <2>6, <2>7, <2>8, <2>9 DEF Next, ReaderStep
<1> QED
  BY <1>1, <1>2, PTL DEF Spec

----------------------------------------------------------------------------
(* The contents of the ring *)

\* What a step does to the ring, with the caller's side left out.
RingPush ==
    /\ MakeRoom
    /\ event_seq' = event_seq + 1
    /\ events' = [events EXCEPT ![head] = event_seq + 1]
    /\ head' = NextSlot(head)
    /\ UNCHANGED <<popped, cleared>>

RingPop ==
    /\ count > 0
    /\ tail' = NextSlot(tail)
    /\ count' = count - 1
    /\ popped' = popped + 1
    /\ UNCHANGED <<events, head, dropped, event_seq, cleared>>

RingClear ==
    /\ head' = 0 /\ tail' = 0 /\ count' = 0
    /\ cleared' = cleared + count
    /\ UNCHANGED <<events, dropped, event_seq, popped>>

\* Every step pushes, pops, clears, or leaves the ring alone.
LEMMA RingSteps ==
    ASSUME [Next]_vars
    PROVE  RingPush \/ RingPop \/ RingClear \/ UNCHANGED <<ring, popped, cleared>>
  <1> USE DEF ring, history
  <1>1. ASSUME NEW p \in Producers, Push(p)
        PROVE  RingPush
    BY <1>1 DEF Push, RingPush
  <1>2. ASSUME NEW p \in Producers, Wake(p)
        PROVE  UNCHANGED <<ring, popped, cleared>>
    BY <1>2 DEF Wake
  <1>3. ASSUME NEW r \in Readers, Pop(r)
        PROVE  RingPop
    BY <1>3 DEF Pop, RingPop
  <1>4. ASSUME NEW r \in Readers,
               BeginRead(r) \/ BeginPoll(r) \/ PopEmptyReturn(r) \/ PopEmptyWait(r)
               \/ CopyOut(r) \/ CopyFault(r) \/ WaitTest(r) \/ WaitRetest(r) \/ Signal(r)
               \/ PollTest(r) \/ PollTimeout(r)
        PROVE  UNCHANGED <<ring, popped, cleared>>
    BY <1>4 DEF BeginRead, BeginPoll, PopEmptyReturn, PopEmptyWait, CopyOut, CopyFault,
                WaitTest, WaitRetest, Signal, PollTest, PollTimeout
  <1>5. CASE ClearEvents
    BY <1>5 DEF ClearEvents, RingClear
  <1>6. CASE UNCHANGED vars
    BY <1>6 DEF vars
  <1> QED
    BY <1>1, <1>2, <1>3, <1>4, <1>5, <1>6 DEF Next, ReaderStep

\* head stays count slots after tail: the redundant fields of struct
\* sh_event_queue never disagree.
LEMMA HeadStep == TypeOK /\ HeadAgrees /\ [Next]_vars => HeadAgrees'
<1> SUFFICES ASSUME TypeOK, HeadAgrees, [Next]_vars
             PROVE  HeadAgrees'
  OBVIOUS
<1>1. /\ QSize \in Nat \ {0} /\ count \in 0 .. QSize
      /\ tail \in 0 .. QSize - 1 /\ head \in 0 .. QSize - 1
  BY QSizeAssumption DEF TypeOK
<1>2. head = IF tail + count < QSize THEN tail + count ELSE tail + count - QSize
  BY <1>1, TurnWraps, RingInTurns
<1>3. /\ NextSlot(head) = IF head + 1 = QSize THEN 0 ELSE head + 1
      /\ NextSlot(tail) = IF tail + 1 = QSize THEN 0 ELSE tail + 1
      /\ NextSlot(tail) \in 0 .. QSize - 1
  BY <1>1, NextSlotWraps
<1>4. CASE RingPush
  <2>1. CASE count = QSize
    <3>1. head' = tail' /\ count' = QSize /\ tail' \in 0 .. QSize - 1
      BY <1>1, <1>2, <1>3, <1>4, <2>1 DEF RingPush, MakeRoom
    <3>2. \A t \in 0 .. QSize - 1 : Turn(t, QSize) = t
      BY <1>1, TurnWraps
    <3> QED
      BY <3>1, <3>2, RingInTurns
  <2>2. CASE count # QSize
    <3>1. /\ tail' = tail /\ count' = count + 1 /\ count + 1 \in 0 .. QSize
          /\ head' = NextSlot(head)
      BY <1>1, <1>4, <2>2 DEF RingPush, MakeRoom
    <3>2. Turn(tail, count + 1)
            = IF tail + (count + 1) < QSize THEN tail + (count + 1)
              ELSE tail + (count + 1) - QSize
      BY <1>1, <3>1, TurnWraps
    <3>3. NextSlot(head)
            = IF tail + (count + 1) < QSize THEN tail + (count + 1)
              ELSE tail + (count + 1) - QSize
      BY <1>1, <1>2, <1>3, <2>2
    <3> QED
      BY <3>1, <3>2, <3>3, RingInTurns
  <2> QED
    BY <2>1, <2>2
<1>5. CASE RingPop
  <2>1. /\ tail' = NextSlot(tail) /\ count' = count - 1 /\ head' = head
        /\ count - 1 \in 0 .. QSize
    BY <1>1, <1>5 DEF RingPop
  <2>2. Turn(NextSlot(tail), count - 1)
          = IF NextSlot(tail) + (count - 1) < QSize THEN NextSlot(tail) + (count - 1)
            ELSE NextSlot(tail) + (count - 1) - QSize
    BY <1>3, <2>1, TurnWraps
  <2>3. head = IF NextSlot(tail) + (count - 1) < QSize THEN NextSlot(tail) + (count - 1)
               ELSE NextSlot(tail) + (count - 1) - QSize
    BY <1>1, <1>2, <1>3, <1>5 DEF RingPop
  <2> QED
    BY <2>1, <2>2, <2>3, RingInTurns
<1>6. CASE RingClear
  <2>1. Turn(0, 0) = 0
    BY <1>1, TurnWraps
  <2> QED
    BY <1>6, <2>1, RingInTurns DEF RingClear
<1>7. CASE UNCHANGED <<ring, popped, cleared>>
  BY <1>7 DEF ring, HeadAgrees, Slot
<1> QED
  BY <1>4, <1>5, <1>6, <1>7, RingSteps

\* The arithmetic of one step: an event's place and its number.
LEMMA Shift ==
    ASSUME NEW e \in Nat, NEW c \in Nat, NEW s \in Nat, NEW i \in Nat
    PROVE  /\ e + c = s + 1 + i => e + (c + 1) = s + 1 + 1 + i
           /\ e + c = s + 1 + (i + 1) => e + (c - 1) = s + 1 + i
  OBVIOUS

\* The queued events keep being the newest ones, in order.
LEMMA NewestStep ==
    TypeOK /\ HeadAgrees /\ NewestEventsQueued /\ [Next]_vars => NewestEventsQueued'
<1> SUFFICES ASSUME TypeOK, HeadAgrees, NewestEventsQueued, [Next]_vars
             PROVE  NewestEventsQueued'
  OBVIOUS
<1>1. /\ QSize \in Nat \ {0} /\ count \in 0 .. QSize /\ event_seq \in Nat
      /\ tail \in 0 .. QSize - 1 /\ head \in 0 .. QSize - 1
      /\ events \in [0 .. QSize - 1 -> Nat]
  BY QSizeAssumption DEF TypeOK
<1>2. head = IF tail + count < QSize THEN tail + count ELSE tail + count - QSize
  BY <1>1, TurnWraps, RingInTurns
<1>3. /\ NextSlot(tail) = IF tail + 1 = QSize THEN 0 ELSE tail + 1
      /\ NextSlot(tail) \in 0 .. QSize - 1
  BY <1>1, NextSlotWraps
<1>4. \A i \in 0 .. QSize - 1 :
         /\ Turn(tail, i) = IF tail + i < QSize THEN tail + i ELSE tail + i - QSize
         /\ Turn(tail, i) \in 0 .. QSize - 1
         /\ events[Turn(tail, i)] \in Nat
  <2> TAKE i \in 0 .. QSize - 1
  <2>1. i \in 0 .. QSize
    BY <1>1
  <2> QED
    BY <1>1, <2>1, TurnWraps
<1>5. \A i \in 0 .. QSize - 2 : Turn(NextSlot(tail), i) = Turn(tail, i + 1)
  <2> TAKE i \in 0 .. QSize - 2
  <2>1. i \in 0 .. QSize /\ i + 1 \in 0 .. QSize - 1
    BY <1>1
  <2>2. Turn(NextSlot(tail), i)
          = IF NextSlot(tail) + i < QSize THEN NextSlot(tail) + i ELSE NextSlot(tail) + i - QSize
    BY <1>3, <2>1, TurnWraps
  <2>3. Turn(tail, i + 1) = IF tail + (i + 1) < QSize THEN tail + (i + 1) ELSE tail + (i + 1) - QSize
    BY <1>4, <2>1
  <2> QED
    BY <1>1, <1>3, <2>1, <2>2, <2>3
<1>6. CASE RingPush
  <2>1. /\ event_seq' = event_seq + 1 /\ events'[head] = event_seq + 1
        /\ \A j \in 0 .. QSize - 1 : j # head => events'[j] = events[j]
    BY <1>1, <1>6 DEF RingPush
  <2>2. CASE count = QSize
    <3>1. tail' = NextSlot(tail) /\ count' = QSize /\ head = tail
      BY <1>1, <1>2, <1>6, <2>2 DEF RingPush, MakeRoom
    <3> SUFFICES ASSUME NEW i \in 0 .. QSize - 1
                 PROVE  events'[Turn(NextSlot(tail), i)] + QSize = event_seq + 1 + 1 + i
      BY <2>1, <3>1, RingInTurns
    <3>2. CASE i = QSize - 1
      <4>1. Turn(NextSlot(tail), i) = head
        <5>1. i \in 0 .. QSize
          BY <1>1
        <5>2. Turn(NextSlot(tail), i)
                = IF NextSlot(tail) + i < QSize THEN NextSlot(tail) + i
                  ELSE NextSlot(tail) + i - QSize
          BY <1>3, <5>1, TurnWraps
        <5> QED
          BY <1>1, <1>3, <3>1, <3>2, <5>2
      <4> QED
        BY <1>1, <2>1, <3>2, <4>1
    <3>3. CASE i # QSize - 1
      <4>1. i \in 0 .. QSize - 2 /\ i + 1 \in 0 .. QSize - 1
        BY <1>1, <3>3
      <4>2. Turn(NextSlot(tail), i) = Turn(tail, i + 1)
        BY <1>5, <4>1
      <4>3. Turn(tail, i + 1) # head /\ Turn(tail, i + 1) \in 0 .. QSize - 1
        <5>1. /\ Turn(tail, i + 1) = IF tail + (i + 1) < QSize THEN tail + (i + 1)
                                     ELSE tail + (i + 1) - QSize
              /\ Turn(tail, i + 1) \in 0 .. QSize - 1
          BY <1>4, <4>1
        <5> QED
          BY <1>1, <3>1, <4>1, <5>1
      <4>4. events[Turn(tail, i + 1)] + QSize = event_seq + 1 + (i + 1)
        BY <2>2, <4>1, RingInTurns
      <4> QED
        BY <1>1, <2>1, <4>1, <4>2, <4>3, <4>4
    <3> QED
      BY <3>2, <3>3
  <2>3. CASE count # QSize
    <3>1. tail' = tail /\ count' = count + 1 /\ count \in 0 .. QSize - 1
      BY <1>1, <1>6, <2>3 DEF RingPush, MakeRoom
    <3> SUFFICES ASSUME NEW i \in 0 .. count
                 PROVE  events'[Turn(tail, i)] + (count + 1) = event_seq + 1 + 1 + i
      BY <1>1, <2>1, <3>1, RingInTurns
    <3>2. CASE i = count
      <4>1. Turn(tail, i) = head
        BY <1>2, <1>4, <3>1, <3>2
      <4> QED
        BY <1>1, <2>1, <3>2, <4>1
    <3>3. CASE i # count
      <4>1. i \in 0 .. count - 1 /\ i \in 0 .. QSize - 1
        BY <1>1, <3>3
      <4>2. Turn(tail, i) # head /\ Turn(tail, i) \in 0 .. QSize - 1
        <5>1. /\ Turn(tail, i) = IF tail + i < QSize THEN tail + i ELSE tail + i - QSize
              /\ Turn(tail, i) \in 0 .. QSize - 1
          BY <1>4, <4>1
        <5> QED
          BY <1>1, <1>2, <3>1, <4>1, <5>1
      <4>3. events[Turn(tail, i)] + count = event_seq + 1 + i
        BY <4>1, RingInTurns
      <4>4. events'[Turn(tail, i)] = events[Turn(tail, i)] /\ events[Turn(tail, i)] \in Nat
        BY <1>4, <2>1, <4>1, <4>2
      <4>5. i \in Nat /\ count \in Nat /\ event_seq \in Nat
        BY <1>1, <4>1
      <4>6. events[Turn(tail, i)] + (count + 1) = event_seq + 1 + 1 + i
        BY <4>3, <4>4, <4>5, Shift
      <4> QED
        BY <4>4, <4>6
    <3> QED
      BY <3>2, <3>3
  <2> QED
    BY <2>2, <2>3
<1>7. CASE RingPop
  <2>1. /\ tail' = NextSlot(tail) /\ count' = count - 1 /\ count \in 1 .. QSize
        /\ events' = events /\ event_seq' = event_seq
    BY <1>1, <1>7 DEF RingPop
  <2> SUFFICES ASSUME NEW i \in 0 .. count - 2
               PROVE  events[Turn(NextSlot(tail), i)] + (count - 1) = event_seq + 1 + i
    BY <1>1, <2>1, RingInTurns
  <2>2. i \in 0 .. QSize - 2 /\ i + 1 \in 0 .. count - 1 /\ i + 1 \in 0 .. QSize - 1
    BY <1>1, <2>1
  <2>3. Turn(NextSlot(tail), i) = Turn(tail, i + 1) /\ events[Turn(tail, i + 1)] \in Nat
    BY <1>4, <1>5, <2>2
  <2>4. events[Turn(tail, i + 1)] + count = event_seq + 1 + (i + 1)
    BY <2>2, RingInTurns
  <2>5. i \in Nat /\ count \in Nat /\ event_seq \in Nat
    BY <1>1, <2>2
  <2>6. events[Turn(tail, i + 1)] + (count - 1) = event_seq + 1 + i
    BY <2>3, <2>4, <2>5, Shift
  <2> QED
    BY <2>3, <2>6
<1>8. CASE RingClear
  BY <1>8 DEF RingClear, NewestEventsQueued
<1>9. CASE UNCHANGED <<ring, popped, cleared>>
  BY <1>9 DEF ring, NewestEventsQueued, Slot
<1> QED
  BY <1>6, <1>7, <1>8, <1>9, RingSteps

\* No event is counted twice or not at all.
LEMMA AccountStep ==
    TypeOK /\ EveryEventAccounted /\ [Next]_vars => EveryEventAccounted'
<1> SUFFICES ASSUME TypeOK, EveryEventAccounted, [Next]_vars
             PROVE  EveryEventAccounted'
  OBVIOUS
<1>1. /\ QSize \in Nat /\ count \in Nat /\ event_seq \in Nat /\ dropped \in Nat
      /\ popped \in Nat /\ cleared \in Nat
  BY QSizeAssumption DEF TypeOK
<1>2. CASE RingPush
  BY <1>1, <1>2 DEF RingPush, MakeRoom, EveryEventAccounted
<1>3. CASE RingPop
  BY <1>1, <1>3 DEF RingPop, EveryEventAccounted
<1>4. CASE RingClear
  BY <1>1, <1>4 DEF RingClear, EveryEventAccounted
<1>5. CASE UNCHANGED <<ring, popped, cleared>>
  BY <1>5 DEF ring, EveryEventAccounted
<1> QED
  BY <1>2, <1>3, <1>4, <1>5, RingSteps

\* The ring always holds exactly the newest events, in the order they were
\* pushed, and its redundant fields agree (sh_push_event, sh_q_pop).
THEOREM RingCorrect == Spec => [](HeadAgrees /\ NewestEventsQueued)
<1>1. Init => HeadAgrees /\ NewestEventsQueued
  <2> SUFFICES ASSUME Init
               PROVE  HeadAgrees /\ NewestEventsQueued
    OBVIOUS
  <2>1. Turn(0, 0) = 0
    BY QSizeAssumption, TurnWraps
  <2> QED
    BY <2>1, RingInTurns DEF Init
<1>2. TypeOK /\ (HeadAgrees /\ NewestEventsQueued) /\ [Next]_vars
        => (HeadAgrees /\ NewestEventsQueued)'
  BY HeadStep, NewestStep
<1> QED
  BY <1>1, <1>2, TypeCorrect, PTL DEF Spec

\* Every event pushed is taken by a reader, still queued, counted in q.dropped
\* or cleared, and in one of these ways only.
THEOREM AccountCorrect == Spec => []EveryEventAccounted
<1>1. Init => EveryEventAccounted
  BY DEF Init, EveryEventAccounted
<1>2. TypeOK /\ EveryEventAccounted /\ [Next]_vars => EveryEventAccounted'
  BY AccountStep
<1> QED
  BY <1>1, <1>2, TypeCorrect, PTL DEF Spec

----------------------------------------------------------------------------
(* The readers *)

\* A reader never sleeps on a nonempty queue unless a wake-up is on its way:
\* the test of q.count after entering the wait queue and the wake-up after
\* every push leave no window.
THEOREM WakeupCorrect == Spec => []NoLostWakeup
<1>1. Init => NoLostWakeup
  BY DEF Init, NoLostWakeup
<1>2. TypeOK /\ NoLostWakeup /\ [Next]_vars => NoLostWakeup'
  <2> SUFFICES ASSUME TypeOK, NoLostWakeup, [Next]_vars
               PROVE  NoLostWakeup'
    OBVIOUS
  <2> DEFINE Asleep(r) == pc[r] \in {"asleep", "pollsleep"}
  <2>1. /\ pc \in [Readers -> ReaderPc] /\ ppc \in [Producers -> {"idle", "wake"}]
        /\ count \in Nat
    BY QSizeAssumption DEF TypeOK
  <2>2. ASSUME NEW p \in Producers, Push(p)
        PROVE  NoLostWakeup'
    <3>1. ppc'[p] = "wake"
      BY <2>1, <2>2 DEF Push
    <3> QED
      BY <3>1 DEF NoLostWakeup
  <2>3. ASSUME NEW p \in Producers, Wake(p)
        PROVE  NoLostWakeup'
    <3>1. \A r \in Readers : pc'[r] \notin {"asleep", "pollsleep"}
      BY <2>1, <2>3 DEF Wake, Woken, ReaderPc
    <3> QED
      BY <3>1 DEF NoLostWakeup
  <2>4. ASSUME UNCHANGED ppc, count' > 0 => count > 0,
               \A r \in Readers : (Asleep(r))' => Asleep(r) \/ ~(count' > 0)
        PROVE  NoLostWakeup'
    BY <2>4 DEF NoLostWakeup
  <2>5. ASSUME NEW r \in Readers, BeginRead(r) \/ BeginPoll(r) \/ PopEmptyWait(r)
        PROVE  NoLostWakeup'
    <3>1. /\ \E s \in {"first", "poll", "test"} : pc' = [pc EXCEPT ![r] = s]
          /\ UNCHANGED <<ppc, count>>
      BY <2>5 DEF BeginRead, BeginPoll, PopEmptyWait, At, ring
    <3> QED
      BY <2>1, <2>4, <3>1
  <2>6. ASSUME NEW r \in Readers, Pop(r)
        PROVE  NoLostWakeup'
    <3>1. pc' = [pc EXCEPT ![r] = "copy"] /\ UNCHANGED ppc /\ count > 0
      BY <2>6 DEF Pop
    <3> QED
      BY <2>1, <2>4, <3>1
  <2>7. ASSUME NEW r \in Readers,
               PopEmptyReturn(r) \/ CopyOut(r) \/ CopyFault(r) \/ Signal(r) \/ PollTimeout(r)
        PROVE  NoLostWakeup'
    <3>1. /\ \E s \in {"idle", "more"} : pc' = [pc EXCEPT ![r] = s]
          /\ UNCHANGED <<ppc, count>>
      BY <2>7 DEF PopEmptyReturn, CopyOut, CopyFault, Signal, PollTimeout, Return, At, ring
    <3> QED
      BY <2>1, <2>4, <3>1
  <2>8. ASSUME NEW r \in Readers, WaitTest(r) \/ WaitRetest(r) \/ PollTest(r)
        PROVE  NoLostWakeup'
    <3>1. /\ \E s \in {"first", "queued", "idle"} : pc' = [pc EXCEPT ![r] = s]
             \/ (count = 0 /\ \E t \in ReaderPc : pc' = [pc EXCEPT ![r] = t])
          /\ UNCHANGED <<ppc, count>>
      BY <2>1, <2>8 DEF WaitTest, WaitRetest, PollTest, At, ring, ReaderPc
    <3> QED
      BY <2>1, <2>4, <3>1
  <2>9. CASE ClearEvents
    BY <2>1, <2>4, <2>9 DEF ClearEvents, caller
  <2>10. CASE UNCHANGED vars
    BY <2>4, <2>10 DEF vars, ring, caller
  <2> QED
    BY <2>2, <2>3, <2>5, <2>6, <2>7, <2>8, <2>9, <2>10 DEF Next, ReaderStep
<1> QED
  BY <1>1, <1>2, TypeCorrect, PTL DEF Spec

\* Each reader gets events in the order of the pushes and no event twice, and
\* no event is in the hands of two readers.
THEOREM DeliveryCorrect == Spec => []OrderedDelivery
<1>1. Init => OrderedDelivery
  BY DEF Init, OrderedDelivery
<1>2. TypeOK /\ HeadAgrees /\ NewestEventsQueued /\ OrderedDelivery /\ [Next]_vars
        => OrderedDelivery'
  <2> SUFFICES ASSUME TypeOK, HeadAgrees, NewestEventsQueued, OrderedDelivery, [Next]_vars
               PROVE  OrderedDelivery'
    OBVIOUS
  <2>1. /\ held \in [Readers -> Nat] /\ last \in [Readers -> Nat]
        /\ count \in Nat /\ event_seq \in Nat /\ tail \in 0 .. QSize - 1
        /\ events \in [0 .. QSize - 1 -> Nat] /\ QSize \in Nat
    BY QSizeAssumption DEF TypeOK
  <2>2. ASSUME NEW p \in Producers, Push(p)
        PROVE  OrderedDelivery'
    <3>1. /\ UNCHANGED <<held, last>> /\ event_seq' = event_seq + 1
          /\ count' = count \/ count' = count + 1
      BY <2>2 DEF Push, MakeRoom, caller, history
    <3> QED
      BY <2>1, <3>1 DEF OrderedDelivery
  <2>3. ASSUME NEW r \in Readers, Pop(r)
        PROVE  OrderedDelivery'
    <3>1. /\ held' = [held EXCEPT ![r] = events[tail]] /\ UNCHANGED <<last, event_seq>>
          /\ count > 0 /\ count' = count - 1
      BY <2>3 DEF Pop
    <3>2. events[tail] \in Nat /\ events[tail] + count = event_seq + 1
      <4>1. Turn(tail, 0) = tail
        BY <2>1, TurnWraps
      <4>2. 0 \in 0 .. count - 1
        BY <2>1, <3>1
      <4>3. events[Turn(tail, 0)] + count = event_seq + 1 + 0
        BY <4>2, RingInTurns
      <4> QED
        BY <2>1, <4>1, <4>3
    <3>3. PICK e \in Nat : e = events[tail] /\ e + count = event_seq + 1
      BY <3>2
    <3>4. /\ held' = [held EXCEPT ![r] = e] /\ e + count' = event_seq
          /\ count' \in Nat /\ count' < count
      <4>1. count \in Nat /\ event_seq \in Nat /\ count > 0 /\ count' = count - 1
        BY <2>1, <3>1
      <4>2. e + count' = event_seq /\ count' \in Nat /\ count' < count
        BY <3>3, <4>1
      <4> QED
        BY <3>1, <3>3, <4>2
    <3>5. ASSUME NEW q \in Readers
          PROVE  /\ held[q] \in Nat /\ last[q] \in Nat
                 /\ held[q] < e /\ last[q] < e
                 /\ held[q] + count' <= event_seq /\ last[q] + count' <= event_seq
      <4>1. held[q] + count <= event_seq /\ last[q] + count <= event_seq
        BY DEF OrderedDelivery
      <4>2. held[q] \in Nat /\ last[q] \in Nat /\ count \in Nat /\ event_seq \in Nat
        BY <2>1
      <4> QED
        BY <3>3, <3>4, <4>1, <4>2
    <3>6. ASSUME NEW q \in Readers
          PROVE  /\ held'[q] # 0 => held'[q] > last[q]
                 /\ held'[q] + count' <= event_seq /\ last[q] + count' <= event_seq
      <4>1. CASE q = r
        <5>1. held'[q] = e /\ last[q] < e
          BY <2>1, <3>4, <3>5, <4>1
        <5>2. last[q] \in Nat /\ event_seq \in Nat
          BY <2>1
        <5>3. last[q] + count' <= event_seq /\ e + count' = event_seq
          BY <3>4, <3>5
        <5> QED
          BY <5>1, <5>2, <5>3
      <4>2. CASE q # r
        BY <2>1, <3>4, <3>5, <4>2 DEF OrderedDelivery
      <4> QED
        BY <4>1, <4>2
    <3>7. ASSUME NEW q \in Readers, NEW s \in Readers \ {q}
          PROVE  held'[q] # 0 => held'[q] \notin {held'[s], last[s]}
      <4>1. CASE q = r
        BY <2>1, <3>4, <3>5, <4>1
      <4>2. CASE q # r /\ s = r
        BY <2>1, <3>4, <3>5, <4>2 DEF OrderedDelivery
      <4>3. CASE q # r /\ s # r
        BY <2>1, <3>4, <4>3 DEF OrderedDelivery
      <4> QED
        BY <4>1, <4>2, <4>3
    <3> QED
      BY <3>1, <3>6, <3>7 DEF OrderedDelivery
  <2>4. ASSUME NEW r \in Readers, CopyOut(r)
        PROVE  OrderedDelivery'
    <3>1. /\ last' = [last EXCEPT ![r] = held[r]] /\ held' = [held EXCEPT ![r] = 0]
          /\ UNCHANGED <<count, event_seq>>
      BY <2>4 DEF CopyOut, Return, ring
    <3> QED
      BY <2>1, <3>1 DEF OrderedDelivery
  <2>5. ASSUME NEW r \in Readers, PopEmptyReturn(r) \/ CopyFault(r) \/ Signal(r)
        PROVE  OrderedDelivery'
    <3>1. held' = [held EXCEPT ![r] = 0] /\ UNCHANGED <<last, count, event_seq>>
      BY <2>5 DEF PopEmptyReturn, CopyFault, Signal, Return, ring, history
    <3> QED
      BY <2>1, <3>1 DEF OrderedDelivery
  <2>6. CASE ClearEvents
    <3>1. UNCHANGED <<held, last, event_seq>> /\ count' = 0
      BY <2>6 DEF ClearEvents, caller
    <3> QED
      BY <2>1, <3>1 DEF OrderedDelivery
  <2>7. CASE UNCHANGED <<held, last, count, event_seq>>
    BY <2>7 DEF OrderedDelivery
  <2>8. ASSUME NEW r \in Readers,
               BeginRead(r) \/ BeginPoll(r) \/ PopEmptyWait(r) \/ WaitTest(r) \/ WaitRetest(r)
               \/ PollTest(r) \/ PollTimeout(r)
        PROVE  UNCHANGED <<held, last, count, event_seq>>
    BY <2>8 DEF BeginRead, BeginPoll, PopEmptyWait, WaitTest, WaitRetest, PollTest,
                PollTimeout, ring, history
  <2>9. ASSUME NEW p \in Producers, Wake(p)
        PROVE  UNCHANGED <<held, last, count, event_seq>>
    BY <2>9 DEF Wake, ring, history
  <2>10. ASSUME UNCHANGED vars
         PROVE  UNCHANGED <<held, last, count, event_seq>>
    BY <2>10 DEF vars, ring, caller, history
  <2> QED
    BY <2>2, <2>3, <2>4, <2>5, <2>6, <2>7, <2>8, <2>9, <2>10 DEF Next, ReaderStep
<1> QED
  BY <1>1, <1>2, TypeCorrect, RingCorrect, PTL DEF Spec

----------------------------------------------------------------------------
(* The ring implements the bounded stream *)

\* The events a user can read, oldest first: what the refinement puts for buf.
Buf == [i \in 1 .. count |-> events[Slot(i - 1)]]

\* The n events before and with number s.  Since the ring holds the newest
\* events, the contents of the stream follow from two numbers.
Window(s, n) == [i \in 1 .. n |-> s - n + i]

LEMMA BufIsWindow ==
    ASSUME NEW n \in 0 .. QSize, NEW t \in 0 .. QSize - 1, NEW seq \in Nat,
           NEW ev \in [0 .. QSize - 1 -> Nat],
           \A i \in 0 .. n - 1 : ev[Turn(t, i)] + n = seq + 1 + i
    PROVE  [i \in 1 .. n |-> ev[Turn(t, i - 1)]] = Window(seq, n)
  <1>1. ASSUME NEW i \in 1 .. n
        PROVE  ev[Turn(t, i - 1)] = seq - n + i
    <2>1. i - 1 \in 0 .. n - 1 /\ i - 1 \in 0 .. QSize
      BY QSizeAssumption
    <2>2. ev[Turn(t, i - 1)] + n = seq + 1 + (i - 1)
      BY <2>1
    <2>3. ev[Turn(t, i - 1)] \in Nat
      BY <2>1, TurnWraps
    <2> QED
      BY <2>2, <2>3
  <1> QED
    BY <1>1 DEF Window

\* The operations of the stream on a window.
LEMMA WindowOps ==
    ASSUME NEW seq \in Nat, NEW n \in Nat
    PROVE  /\ Len(Window(seq, n)) = n
           /\ Window(seq, 0) = <<>>
           /\ Append(Window(seq, n), seq + 1) = Window(seq + 1, n + 1)
           /\ n > 0 => /\ Window(seq, n) # <<>>
                       /\ Head(Window(seq, n)) = seq - n + 1
                       /\ Tail(Window(seq, n)) = Window(seq, n - 1)
  <1>1. Window(seq, n) \in Seq(Int) /\ Len(Window(seq, n)) = n
    BY DEF Window
  <1>2. Window(seq, 0) = <<>>
    BY DEF Window
  <1>3. Append(Window(seq, n), seq + 1) = Window(seq + 1, n + 1)
    <2> DEFINE a == Append(Window(seq, n), seq + 1)
               w == Window(seq + 1, n + 1)
    <2>1. a \in Seq(Int) /\ Len(a) = n + 1 /\ a[n + 1] = seq + 1
      BY <1>1
    <2>2. \A i \in 1 .. n : a[i] = seq - n + i
      BY <1>1 DEF Window
    <2>3. w \in Seq(Int) /\ Len(w) = n + 1
      BY DEF Window
    <2>4. \A i \in 1 .. n + 1 : w[i] = (seq + 1) - (n + 1) + i
      BY DEF Window
    <2>5. \A i \in 1 .. n + 1 : a[i] = w[i]
      BY <2>1, <2>2, <2>4
    <2> HIDE DEF a, w
    <2> QED
      BY <2>1, <2>3, <2>5 DEF a, w
  <1>4. ASSUME n > 0
        PROVE  /\ Window(seq, n) # <<>> /\ Head(Window(seq, n)) = seq - n + 1
               /\ Tail(Window(seq, n)) = Window(seq, n - 1)
    <2> DEFINE t == Tail(Window(seq, n))
               w == Window(seq, n - 1)
    <2>1. Window(seq, n) # <<>> /\ Head(Window(seq, n)) = seq - n + 1
      BY <1>1, <1>4 DEF Window
    <2>2. t \in Seq(Int) /\ Len(t) = n - 1 /\ \A i \in 1 .. n - 1 : t[i] = seq - n + (i + 1)
      BY <1>1, <1>4 DEF Window
    <2>3. w \in Seq(Int) /\ Len(w) = n - 1 /\ \A i \in 1 .. n - 1 : w[i] = seq - (n - 1) + i
      BY <1>4 DEF Window
    <2>4. \A i \in 1 .. n - 1 : t[i] = w[i]
      BY <1>4, <2>2, <2>3
    <2> HIDE DEF t, w
    <2>5. t = w
      BY <2>2, <2>3, <2>4
    <2> QED
      BY <2>1, <2>5 DEF t, w
  <1> QED
    BY <1>1, <1>2, <1>3, <1>4

\* An event is in a reader's hands only between sh_q_pop and copy_to_user.
HeldAtCopy == \A r \in Readers : pc[r] # "copy" => held[r] = 0

LEMMA HeldStep == TypeOK /\ HeldAtCopy /\ [Next]_vars => HeldAtCopy'
<1> SUFFICES ASSUME TypeOK, HeldAtCopy, [Next]_vars
             PROVE  HeldAtCopy'
  OBVIOUS
<1> USE DEF HeldAtCopy, At, Return, caller
<1>1. pc \in [Readers -> ReaderPc] /\ held \in [Readers -> Nat]
  BY DEF TypeOK
<1>2. ASSUME NEW p \in Producers, Push(p) \/ Wake(p)
      PROVE  HeldAtCopy'
  <2>1. UNCHANGED held /\ \A r \in Readers : pc'[r] # "copy" => pc[r] # "copy"
    BY <1>1, <1>2 DEF Push, Wake, Woken
  <2> QED
    BY <2>1
<1>3. ASSUME NEW r \in Readers, Pop(r)
      PROVE  HeldAtCopy'
  BY <1>1, <1>3 DEF Pop
<1>4. ASSUME NEW r \in Readers, CopyOut(r) \/ PopEmptyReturn(r) \/ CopyFault(r) \/ Signal(r)
      PROVE  HeldAtCopy'
  <2>1. held' = [held EXCEPT ![r] = 0] /\ \E l \in {"idle", "more"} : pc' = [pc EXCEPT ![r] = l]
    BY <1>4 DEF CopyOut, PopEmptyReturn, CopyFault, Signal
  <2> QED
    BY <1>1, <2>1
<1>5. ASSUME NEW r \in Readers,
             BeginRead(r) \/ BeginPoll(r) \/ PopEmptyWait(r) \/ WaitTest(r) \/ WaitRetest(r)
             \/ PollTest(r) \/ PollTimeout(r)
      PROVE  HeldAtCopy'
  <2>1. UNCHANGED held /\ pc[r] # "copy" /\ \E l : pc' = [pc EXCEPT ![r] = l]
    BY <1>5 DEF BeginRead, BeginPoll, PopEmptyWait, WaitTest, WaitRetest, PollTest, PollTimeout
  <2> QED
    BY <1>1, <2>1
<1>6. CASE ClearEvents \/ UNCHANGED vars
  BY <1>6 DEF ClearEvents, vars
<1> QED
  BY <1>2, <1>3, <1>4, <1>5, <1>6 DEF Next, ReaderStep

\* Every step of the ring is a step of the stream, or changes nothing in it.
LEMMA StreamStep ==
    ASSUME TypeOK, TypeOK', NewestEventsQueued, NewestEventsQueued', HeldAtCopy, [Next]_vars
    PROVE  [Stream!Next]_(Stream!vars)
  <1>1. /\ held \in [Readers -> Nat] /\ count \in Nat /\ event_seq \in Nat /\ QSize \in Nat \ {0}
        /\ count <= QSize
    BY QSizeAssumption DEF TypeOK
  <1>2. Buf = Window(event_seq, count) /\ Buf' = Window(event_seq', count')
    <2>1. Buf = [i \in 1 .. count |-> events[Turn(tail, i - 1)]]
      BY DEF Buf, Slot, Turn
    <2>2. Buf' = [i \in 1 .. count' |-> events'[Turn(tail', i - 1)]]
      BY DEF Buf, Slot, Turn
    <2>3. Buf = Window(event_seq, count)
      <3>1. /\ count \in 0 .. QSize /\ tail \in 0 .. QSize - 1 /\ event_seq \in Nat
            /\ events \in [0 .. QSize - 1 -> Nat]
        BY DEF TypeOK
      <3>2. \A i \in 0 .. count - 1 : events[Turn(tail, i)] + count = event_seq + 1 + i
        BY RingInTurns
      <3>3. [i \in 1 .. count |-> events[Turn(tail, i - 1)]] = Window(event_seq, count)
        BY <3>1, <3>2, BufIsWindow
      <3> QED
        BY <2>1, <3>3
    <2>4. Buf' = Window(event_seq', count')
      <3>1. /\ count' \in 0 .. QSize /\ tail' \in 0 .. QSize - 1 /\ event_seq' \in Nat
            /\ events' \in [0 .. QSize - 1 -> Nat]
        BY DEF TypeOK
      <3>2. \A i \in 0 .. count' - 1 : events'[Turn(tail', i)] + count' = event_seq' + 1 + i
        BY RingInTurns
      <3>3. [i \in 1 .. count' |-> events'[Turn(tail', i - 1)]] = Window(event_seq', count')
        BY <3>1, <3>2, BufIsWindow
      <3> QED
        BY <2>2, <3>3
    <2> QED
      BY <2>3, <2>4
  <1>s. ASSUME UNCHANGED <<count, event_seq, dropped, held>>
        PROVE  [Stream!Next]_(Stream!vars)
    BY <1>2, <1>s DEF Stream!vars, Buf
  <1>3. ASSUME NEW p \in Producers, Push(p)
        PROVE  Stream!Push
    <2>1. /\ event_seq < MaxSeq /\ event_seq' = event_seq + 1 /\ UNCHANGED held
          /\ dropped' = IF count = QSize THEN dropped + 1 ELSE dropped
          /\ count' = IF count = QSize THEN count ELSE count + 1
      BY <1>3 DEF Push, MakeRoom, caller
    <2>2. Len(Buf) = count
      BY <1>1, <1>2, WindowOps
    <2>3. CASE count = QSize
      <3>1. Append(Tail(Buf), event_seq + 1) = Window(event_seq + 1, count)
        <4>1. count - 1 \in Nat /\ count - 1 + 1 = count /\ count > 0
          BY <1>1, <2>3
        <4>2. Tail(Buf) = Window(event_seq, count - 1)
          BY <1>1, <1>2, <4>1, WindowOps
        <4>3. Append(Window(event_seq, count - 1), event_seq + 1)
                = Window(event_seq + 1, count - 1 + 1)
          BY <1>1, <4>1, WindowOps
        <4> QED
          BY <4>1, <4>2, <4>3
      <3> QED
        BY <1>2, <2>1, <2>2, <2>3, <3>1 DEF Stream!Push, Buf
    <2>4. CASE count # QSize
      <3>1. Append(Buf, event_seq + 1) = Window(event_seq + 1, count + 1)
        BY <1>1, <1>2, WindowOps
      <3> QED
        BY <1>2, <2>1, <2>2, <2>4, <3>1 DEF Stream!Push, Buf
    <2> QED
      BY <2>3, <2>4
  <1>4. ASSUME NEW r \in Readers, Pop(r)
        PROVE  Stream!Take(r)
    <2>1. /\ pc[r] \in {"first", "more"} /\ count > 0 /\ count' = count - 1
          /\ UNCHANGED <<event_seq, dropped>> /\ held' = [held EXCEPT ![r] = events[tail]]
      BY <1>4 DEF Pop
    <2>2. held[r] = 0
      BY <2>1 DEF HeldAtCopy
    <2>3. Buf # <<>> /\ Tail(Buf) = Buf' /\ Head(Buf) = events[tail]
      <3>1. Buf # <<>> /\ Tail(Buf) = Window(event_seq, count - 1)
        BY <1>1, <1>2, <2>1, WindowOps
      <3>2. Head(Buf) = Buf[1]
        BY <1>1, <2>1 DEF Buf
      <3>3. Buf[1] = events[Slot(0)] /\ Slot(0) = tail
        <4>1. Turn(tail, 0) = tail
          BY TurnWraps, QSizeAssumption DEF TypeOK
        <4> QED
          BY <1>1, <2>1, <4>1 DEF Buf, Slot, Turn
      <3> QED
        BY <1>2, <2>1, <3>1, <3>2, <3>3
    <2> QED
      BY <2>1, <2>2, <2>3 DEF Stream!Take, Buf
  <1>5. ASSUME NEW r \in Readers, CopyOut(r) \/ CopyFault(r) \/ PopEmptyReturn(r) \/ Signal(r)
        PROVE  [Stream!Next]_(Stream!vars)
    <2>1. UNCHANGED <<count, event_seq, dropped>> /\ held' = [held EXCEPT ![r] = 0]
      BY <1>5 DEF CopyOut, CopyFault, PopEmptyReturn, Signal, Return, ring
    <2>2. CASE held[r] = 0
      <3>1. UNCHANGED held
        BY <1>1, <2>1, <2>2
      <3> QED
        BY <1>s, <2>1, <3>1
    <2>3. CASE held[r] # 0
      <3>1. Stream!Dispose(r)
        BY <1>2, <2>1, <2>3 DEF Stream!Dispose, Buf
      <3> QED
        BY <3>1 DEF Stream!Next
    <2> QED
      BY <2>2, <2>3
  <1>6. CASE ClearEvents
    <2>1. UNCHANGED <<event_seq, dropped, held>> /\ count' = 0
      BY <1>6 DEF ClearEvents, caller
    <2>2. Buf' = <<>>
      BY <1>1, <1>2, <2>1, WindowOps
    <2> QED
      BY <2>1, <2>2 DEF Stream!Clear, Stream!Next, Buf
  <1>7. ASSUME NEW r \in Readers,
               BeginRead(r) \/ BeginPoll(r) \/ PopEmptyWait(r) \/ WaitTest(r) \/ WaitRetest(r)
               \/ PollTest(r) \/ PollTimeout(r)
        PROVE  UNCHANGED <<count, event_seq, dropped, held>>
    BY <1>7 DEF BeginRead, BeginPoll, PopEmptyWait, WaitTest, WaitRetest, PollTest, PollTimeout, ring
  <1>8. ASSUME (\E p \in Producers : Wake(p)) \/ UNCHANGED vars
        PROVE  UNCHANGED <<count, event_seq, dropped, held>>
    BY <1>8 DEF Wake, vars, ring, caller
  <1> QED
    BY <1>s, <1>3, <1>4, <1>5, <1>6, <1>7, <1>8 DEF Next, ReaderStep, Stream!Next

\* The driver's ring, with its locks, its wrap-around and its read loop, is the
\* bounded first-in first-out stream of EventStream: no interleaving of pushes,
\* reads, faults, polls and clears shows a user anything else.
THEOREM StreamCorrect == Spec => ImplementsStream
<1>1. Init => Stream!Init
  <2> SUFFICES ASSUME Init
               PROVE  Stream!Init
    OBVIOUS
  <2>1. count = 0 /\ event_seq = 0 /\ dropped = 0 /\ held = [r \in Readers |-> 0]
    BY DEF Init
  <2>2. [i \in 1 .. count |-> events[Slot(i - 1)]] = <<>>
    BY <2>1
  <2> QED
    BY <2>1, <2>2 DEF Stream!Init
<1>2. Init => HeldAtCopy
  BY DEF Init, HeldAtCopy
<1>3. TypeOK /\ TypeOK' /\ NewestEventsQueued /\ NewestEventsQueued' /\ HeldAtCopy /\ [Next]_vars
        => [Stream!Next]_(Stream!vars)
  BY StreamStep
<1> QED
  BY <1>1, <1>2, <1>3, HeldStep, TypeCorrect, RingCorrect, PTL DEF Spec, ImplementsStream, Stream!Spec

=============================================================================
