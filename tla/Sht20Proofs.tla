---------------------------- MODULE Sht20Proofs -----------------------------
(***************************************************************************)
(* Theorems about the periodic sampling of the SHT20, for every set of     *)
(* processes that refresh and configure it.                                *)
(***************************************************************************)
EXTENDS Sht20, TLAPS

----------------------------------------------------------------------------
(* Type correctness *)

\* Every step keeps the types.
LEMMA TypeStep == ASSUME TypeOK, [Next]_vars PROVE TypeOK'
  <1> USE DEF TypeOK, Pc, At, Return, Exchange
  <1>1. ASSUME NEW c \in Callers, Refresh(c) \/ CallerStep(c)
        PROVE  TypeOK'
    <2>1. c \in Threads
      BY DEF Threads
    <2>2. CASE Refresh(c)
      BY <2>1, <2>2 DEF Refresh
    <2>3. CASE WriteCfg(c)
      BY <2>1, <2>3 DEF WriteCfg
    <2>4. CASE CancelWork(c) \/ FlushWork(c)
      BY <2>1, <2>4 DEF CancelWork, FlushWork
    <2>5. CASE ReadCfg(c)
      BY <2>1, <2>5 DEF ReadCfg
    <2> QED
      BY <1>1, <2>2, <2>3, <2>4, <2>5 DEF CallerStep
  <1>2. ASSUME NEW c \in Callers, NEW e \in BOOLEAN, SetCfg(c, e)
        PROVE  TypeOK'
    BY <1>2 DEF SetCfg, Threads
  <1>3. ASSUME NEW t \in Threads, Lock(t) \/ Ask(t) \/ ReceiveTemp(t)
        PROVE  TypeOK'
    BY <1>3 DEF Lock, Ask, ReceiveTemp
  <1>4. ASSUME NEW t \in Threads, ReceiveHumi(t) \/ TransferFails(t)
        PROVE  TypeOK'
    <2>1. AfterSample(t) /\ io_lock' = Free /\ UNCHANGED <<enabled, timer, bus, arg>>
      BY <1>4 DEF ReceiveHumi, TransferFails, Unlock
    <2> QED
      BY <2>1 DEF AfterSample
  <1>5. ASSUME NEW t \in Threads, Schedule(t)
        PROVE  TypeOK'
    BY <1>5 DEF Schedule, Armed
  <1>6. CASE WorkTest \/ WorkRearm \/ TimerFires
    BY <1>6 DEF WorkTest, WorkRearm, TimerFires, Threads
  <1>7. CASE UNCHANGED vars
    BY <1>7 DEF vars
  <1> QED
    BY <1>1, <1>2, <1>3, <1>4, <1>5, <1>6, <1>7 DEF Next, Sample

\* Every variable keeps its type; so pc tells at any time where in its call
\* every context is, and whoever holds io_lock is in the exchange that the lock
\* guards: no path, the failing ones included, leaves it locked
\* (sh_sht20_refresh, sh_sht20_workfn).
THEOREM TypeCorrect == Spec => []TypeOK
  <1>1. Init => TypeOK
    BY DEF Init, TypeOK, Pc, Threads
  <1>2. TypeOK /\ [Next]_vars => TypeOK'
    BY TypeStep
  <1> QED
    BY <1>1, <1>2, PTL DEF Spec

----------------------------------------------------------------------------
(* The exchange on the bus *)

\* Only the holder of io_lock is between a command and its answer.
ExchangeIsLocked == \A t \in Threads : pc[t] \in Exchange => io_lock = t

BusInv == ExchangeIsLocked /\ AnswerMatchesCommand

\* A step of one context that does not enter, leave or go on with an exchange.
LEMMA BusStutter ==
    ASSUME TypeOK, BusInv, NEW t \in Threads, UNCHANGED <<io_lock, bus>>,
           \E s \in Pc \ Exchange : pc' = [pc EXCEPT ![t] = s]
    PROVE  BusInv'
  BY DEF BusInv, ExchangeIsLocked, AnswerMatchesCommand, Exchange, TypeOK

\* Every step keeps the exchanges apart.
LEMMA BusStep == ASSUME TypeOK, BusInv, [Next]_vars PROVE BusInv'
  <1> USE DEF At, Return
  <1>1. ASSUME NEW c \in Callers, Refresh(c) \/ CallerStep(c) \/ \E e \in BOOLEAN : SetCfg(c, e)
        PROVE  BusInv'
    <2>1. /\ UNCHANGED <<io_lock, bus>>
          /\ \E s \in {"lock", "setcfg", "cancel", "flush", "read", "schedule", "idle"} :
                pc' = [pc EXCEPT ![c] = s]
      BY <1>1 DEF Refresh, CallerStep, SetCfg, WriteCfg, CancelWork, FlushWork, ReadCfg
    <2> QED
      BY <2>1, BusStutter DEF Threads, Pc, Exchange
  <1>2. CASE WorkTest \/ WorkRearm \/ TimerFires
    <2>1. /\ UNCHANGED <<io_lock, bus>>
          /\ \E s \in {"run", "lock", "schedule", "idle"} : pc' = [pc EXCEPT ![Work] = s]
      BY <1>2 DEF WorkTest, WorkRearm, TimerFires
    <2> QED
      BY <2>1, BusStutter DEF Threads, Pc, Exchange
  <1>3. ASSUME NEW t \in Threads, Schedule(t)
        PROVE  BusInv'
    BY <1>3, BusStutter DEF Schedule, Pc, Exchange
  <1>4. ASSUME NEW t \in Threads, Lock(t)
        PROVE  BusInv'
    <2>1. Free \notin Threads
      BY ThreadAssumption
    <2> QED
      BY <1>4, <2>1 DEF Lock, BusInv, ExchangeIsLocked, AnswerMatchesCommand, Exchange, TypeOK
  <1>5. ASSUME NEW t \in Threads, Ask(t) \/ ReceiveTemp(t)
        PROVE  BusInv'
    BY <1>5 DEF Ask, ReceiveTemp, BusInv, ExchangeIsLocked, AnswerMatchesCommand, Exchange, TypeOK
  <1>6. ASSUME NEW t \in Threads, ReceiveHumi(t) \/ TransferFails(t)
        PROVE  BusInv'
    <2>1. pc[t] \in Exchange /\ AfterSample(t) /\ UNCHANGED bus
      BY <1>6 DEF ReceiveHumi, TransferFails, Unlock, Exchange
    <2>2. \E s \in {"rearm", "schedule", "idle"} : pc' = [pc EXCEPT ![t] = s]
      BY <2>1 DEF AfterSample
    <2>3. \A u \in Threads : pc'[u] \notin Exchange
      BY <2>1, <2>2 DEF BusInv, ExchangeIsLocked, Exchange, TypeOK
    <2> QED
      BY <2>3 DEF BusInv, ExchangeIsLocked, AnswerMatchesCommand, Exchange
  <1>7. CASE UNCHANGED vars
    BY <1>7 DEF vars, BusInv, ExchangeIsLocked, AnswerMatchesCommand
  <1> QED
    BY <1>1, <1>2, <1>3, <1>4, <1>5, <1>6, <1>7 DEF Next, Sample

\* Whoever fetches a measurement gets the one it asked for, however many
\* processes refresh while the work item samples (sh_sht20_do_sample).
THEOREM AnswerCorrect == Spec => []AnswerMatchesCommand
  <1>1. Init => BusInv
    BY DEF Init, BusInv, ExchangeIsLocked, AnswerMatchesCommand, Exchange
  <1>2. TypeOK /\ BusInv /\ [Next]_vars => BusInv'
    BY BusStep
  <1>3. BusInv => AnswerMatchesCommand
    BY DEF BusInv
  <1> QED
    BY <1>1, <1>2, <1>3, TypeCorrect, PTL DEF Spec

----------------------------------------------------------------------------
(* The delayed work *)

\* A call of SET_SENSOR_CFG that has written its configuration and has not yet
\* looked whether to put the work into the timer, or is about to put it there.
Rearming(c) == pc[c] \in {"cancel", "flush", "read", "schedule"}

\* Nobody lets an enabled sensor go unserved.
Served ==
    enabled => \/ timer = "pending" \/ pc[Work] # "idle" \/ pc[Probe] # "idle"
               \/ \E c \in Callers : Rearming(c)

\* The timer stays closed only as long as a call waits for the work.
ClosedByFlush == timer = "canceling" => \E c \in Callers : pc[c] = "flush"

\* The two contexts that are no calls know what they do.
OwnJobs ==
    /\ pc[Work] # "idle" => job[Work] = "work"
    /\ pc[Probe] # "idle" => job[Probe] = "probe"

ArmedInv == Served /\ ClosedByFlush /\ OwnJobs

LEMMA Contexts ==
    /\ Work \in Threads /\ Probe \in Threads /\ Callers \subseteq Threads
    /\ Work # Probe /\ Work \notin Callers /\ Probe \notin Callers
  BY ThreadAssumption DEF Threads

\* Every step keeps an enabled sensor served.
LEMMA ArmedStep == ASSUME TypeOK, ArmedInv, [Next]_vars PROVE ArmedInv'
  <1> USE Contexts DEF At, Return
  <1>t. /\ pc \in [Threads -> Pc]
        /\ job \in [Threads -> {"none", "work", "probe", "cfg", "refresh"}]
        /\ timer \in {"idle", "pending", "canceling"}
    BY DEF TypeOK
  <1> USE DEF ArmedInv, Served, ClosedByFlush, OwnJobs, Rearming
  <1>1. ASSUME NEW c \in Callers, NEW e \in BOOLEAN, Refresh(c) \/ SetCfg(c, e)
        PROVE  ArmedInv'
    <2>1. /\ UNCHANGED <<enabled, timer>> /\ pc[c] = "idle"
          /\ \E s \in {"lock", "setcfg"} : pc' = [pc EXCEPT ![c] = s]
          /\ \E j \in {"refresh", "cfg"} : job' = [job EXCEPT ![c] = j]
      BY <1>1 DEF Refresh, SetCfg
    <2> QED
      BY <1>t, <2>1
  <1>2. ASSUME NEW c \in Callers, WriteCfg(c)
        PROVE  ArmedInv'
    BY <1>t, <1>2 DEF WriteCfg
  <1>3. ASSUME NEW c \in Callers, CancelWork(c) \/ FlushWork(c)
        PROVE  ArmedInv'
    BY <1>t, <1>3 DEF CancelWork, FlushWork
  <1>4. ASSUME NEW c \in Callers, ReadCfg(c)
        PROVE  ArmedInv'
    BY <1>t, <1>4 DEF ReadCfg
  <1>5. ASSUME NEW t \in Threads, Lock(t) \/ Ask(t) \/ ReceiveTemp(t)
        PROVE  ArmedInv'
    <2>1. /\ UNCHANGED <<enabled, timer, job>>
          /\ pc[t] \notin {"idle", "cancel", "flush", "read", "schedule"}
          /\ \E s \in {"askT", "recvT", "askH", "recvH"} : pc' = [pc EXCEPT ![t] = s]
      BY <1>5 DEF Lock, Ask, ReceiveTemp
    <2> QED
      BY <1>t, <2>1
  <1>6. ASSUME NEW t \in Threads, ReceiveHumi(t) \/ TransferFails(t)
        PROVE  ArmedInv'
    <2>1. /\ AfterSample(t) /\ UNCHANGED <<enabled, timer>>
          /\ pc[t] \notin {"idle", "cancel", "flush", "read", "schedule"}
      BY <1>6 DEF ReceiveHumi, TransferFails, Unlock, Exchange
    <2>2. CASE t \in Callers
      <3>1. /\ \E s \in Pc : pc' = [pc EXCEPT ![t] = s]
            /\ job' = job \/ job' = [job EXCEPT ![t] = "none"]
        BY <2>1 DEF AfterSample, Pc
      <3> QED
        BY <1>t, <2>1, <2>2, <3>1
    <2>3. CASE t \in {Work, Probe}
      <3>1. UNCHANGED job /\ \E s \in {"rearm", "schedule"} : pc' = [pc EXCEPT ![t] = s]
        BY <2>1, <2>3 DEF AfterSample
      <3> QED
        BY <1>t, <2>1, <2>3, <3>1
    <2> QED
      BY <2>2, <2>3 DEF Threads
  <1>7. ASSUME NEW t \in Threads, Schedule(t)
        PROVE  ArmedInv'
    <2>1. /\ UNCHANGED enabled /\ timer' = Armed /\ pc[t] = "schedule"
          /\ pc' = [pc EXCEPT ![t] = "idle"] /\ job' = [job EXCEPT ![t] = "none"]
      BY <1>7 DEF Schedule
    <2>2. ClosedByFlush'
      BY <1>t, <2>1 DEF Armed
    <2>3. Served'
      BY <1>t, <2>1, <2>2 DEF Armed
    <2>4. OwnJobs'
      BY <1>t, <2>1
    <2> QED
      BY <2>2, <2>3, <2>4
  <1>8. CASE TimerFires
    BY <1>t, <1>8 DEF TimerFires
  <1>9. CASE WorkTest \/ WorkRearm
    BY <1>t, <1>9 DEF WorkTest, WorkRearm
  <1>10. CASE UNCHANGED vars
    BY <1>10 DEF vars
  <1> QED
    BY <1>1, <1>2, <1>3, <1>4, <1>5, <1>6, <1>7, <1>8, <1>9, <1>10 DEF Next, Sample, CallerStep

\* Sampling is never lost: when no call is under way and the sensor is enabled,
\* the work is in the timer or running, although any number of calls cancel and
\* schedule it at once (sh_sht20_apply_cfg, sh_sht20_workfn).
THEOREM ArmedCorrect == Spec => []EnabledMeansArmed
  <1>1. Init => ArmedInv
    BY Contexts DEF Init, ArmedInv, Served, ClosedByFlush, OwnJobs
  <1>2. TypeOK /\ ArmedInv /\ [Next]_vars => ArmedInv'
    BY ArmedStep
  <1>3. ArmedInv => EnabledMeansArmed
    BY Contexts DEF ArmedInv, Served, Rearming, EnabledMeansArmed
  <1> QED
    BY <1>1, <1>2, <1>3, TypeCorrect, PTL DEF Spec
=============================================================================
