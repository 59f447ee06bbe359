------------------------------- MODULE Sht20 --------------------------------
(***************************************************************************)
(* Periodic sampling of the SHT20: the delayed work sh_sht20_workfn, which *)
(* samples and puts itself back in the timer, against SET_SENSOR_CFG       *)
(* (sh_sht20_apply_cfg) and FORCE_REFRESH (sh_sht20_refresh) from any      *)
(* number of processes, and the two-command exchange on the I2C bus under  *)
(* io_lock.  The model starts in sh_sht20_register after                   *)
(* INIT_DELAYED_WORK, when the device file already accepts calls.  What    *)
(* happens to the sampled value is in SensorHub.                           *)
(***************************************************************************)
EXTENDS Naturals

CONSTANTS
    Callers,   \* the processes that use the endpoint
    Work,      \* the worker that runs sh_sht20_workfn
    Probe,     \* the context inside sh_sht20_register
    Free       \* io_lock when nobody holds it

Threads == Callers \cup {Work, Probe}

ASSUME ThreadAssumption ==
    Work \notin Callers /\ Probe \notin Callers /\ Work # Probe /\ Free \notin Threads

VARIABLES
    enabled,   \* endpoint->cfg.enabled (period_ms is never 0 after apply_cfg)
    timer,     \* priv->work: "idle", "pending", or "canceling"
    io_lock,   \* the holder of priv->io_lock
    bus,       \* the measurement the sensor was last told to make
    pc,        \* where each context is
    job,       \* what each context is in the middle of
    arg        \* the argument of SET_SENSOR_CFG

vars == <<enabled, timer, io_lock, bus, pc, job, arg>>

Pc == {"idle", "setcfg", "cancel", "flush", "read", "schedule", "run", "lock",
       "askT", "recvT", "askH", "recvH", "rearm"}
Exchange == {"askT", "recvT", "askH", "recvH"}

\* A lock that is held is held by a context inside the section it guards.
TypeOK ==
    /\ enabled \in BOOLEAN
    /\ timer \in {"idle", "pending", "canceling"}
    /\ io_lock = Free \/ (io_lock \in Threads /\ pc[io_lock] \in Exchange)
    /\ bus \in {"none", "temp", "humi"}
    /\ pc \in [Threads -> Pc]
    /\ job \in [Threads -> {"none", "work", "probe", "cfg", "refresh"}]
    /\ arg \in [Callers -> BOOLEAN]

Init ==
    /\ enabled = TRUE /\ timer = "idle"
    /\ io_lock = Free /\ bus = "none"
    /\ pc = [t \in Threads |-> IF t = Probe THEN "lock" ELSE "idle"]
    /\ job = [t \in Threads |-> IF t = Probe THEN "probe" ELSE "none"]
    /\ arg = [c \in Callers |-> FALSE]

At(t, from, to) == pc[t] = from /\ pc' = [pc EXCEPT ![t] = to]

Return(t) == pc' = [pc EXCEPT ![t] = "idle"] /\ job' = [job EXCEPT ![t] = "none"]

----------------------------------------------------------------------------
(* sh_sht20_do_sample under io_lock: ask for one measurement, fetch it, ask *)
(* for the other, fetch it                                                  *)

\* After its sample the work item goes on to put itself back in the timer,
\* register to put it there for the first time.  A failed sample changes
\* nothing for them; refresh returns it.
AfterSample(t) ==
    CASE job[t] = "work"  -> pc' = [pc EXCEPT ![t] = "rearm"] /\ UNCHANGED job
      [] job[t] = "probe" -> pc' = [pc EXCEPT ![t] = "schedule"] /\ UNCHANGED job
      [] OTHER -> Return(t)

\* Mutant: the exchange is not under io_lock.
LockNothing(t) ==
    /\ At(t, "lock", "askT")
    /\ UNCHANGED <<enabled, timer, io_lock, bus, job, arg>>

Lock(t) ==
    /\ At(t, "lock", "askT")
    /\ io_lock = Free
    /\ io_lock' = t
    /\ UNCHANGED <<enabled, timer, bus, job, arg>>

Ask(t) ==
    /\ \/ At(t, "askT", "recvT") /\ bus' = "temp"
       \/ At(t, "askH", "recvH") /\ bus' = "humi"
    /\ UNCHANGED <<enabled, timer, io_lock, job, arg>>

ReceiveTemp(t) ==
    /\ At(t, "recvT", "askH")
    /\ UNCHANGED <<enabled, timer, io_lock, bus, job, arg>>

Unlock(t) ==
    /\ io_lock' = Free
    /\ AfterSample(t)
    /\ UNCHANGED <<enabled, timer, bus, arg>>

ReceiveHumi(t) == pc[t] = "recvH" /\ Unlock(t)

\* Mutant: the error path returns with io_lock held.
TransferKeepsLock(t) ==
    /\ pc[t] \in Exchange
    /\ AfterSample(t)
    /\ UNCHANGED <<enabled, timer, io_lock, bus, arg>>

TransferFails(t) == pc[t] \in Exchange /\ Unlock(t)

----------------------------------------------------------------------------
(* The delayed work (kernel workqueue) and sh_sht20_workfn *)

\* schedule_delayed_work does nothing to work that is pending or being canceled.
Armed == IF timer = "idle" THEN "pending" ELSE timer

TimerFires ==
    /\ timer = "pending" /\ pc[Work] = "idle"
    /\ timer' = "idle"
    /\ pc' = [pc EXCEPT ![Work] = "run"]
    /\ job' = [job EXCEPT ![Work] = "work"]
    /\ UNCHANGED <<enabled, io_lock, bus, arg>>

WorkTest ==
    /\ pc[Work] = "run"
    /\ IF enabled THEN pc' = [pc EXCEPT ![Work] = "lock"] /\ UNCHANGED job
                  ELSE Return(Work)
    /\ UNCHANGED <<enabled, timer, io_lock, bus, arg>>

\* Mutant: the work samples again at once, whatever the configuration says.
WorkRearmAlways ==
    /\ pc[Work] = "rearm"
    /\ pc' = [pc EXCEPT ![Work] = "lock"]
    /\ UNCHANGED <<enabled, timer, io_lock, bus, job, arg>>

\* Mutant: the work does not put itself back.
WorkRunsOnce ==
    /\ pc[Work] = "rearm"
    /\ Return(Work)
    /\ UNCHANGED <<enabled, timer, io_lock, bus, arg>>

\* cfg.enabled is read again, with no lock; then the work is put back.
WorkRearm ==
    /\ pc[Work] = "rearm"
    /\ IF enabled THEN pc' = [pc EXCEPT ![Work] = "schedule"] /\ UNCHANGED job
                  ELSE Return(Work)
    /\ UNCHANGED <<enabled, timer, io_lock, bus, arg>>

\* The last step of the work item, of apply_cfg and of register.
Schedule(t) ==
    /\ pc[t] = "schedule"
    /\ timer' = Armed
    /\ Return(t)
    /\ UNCHANGED <<enabled, io_lock, bus, arg>>

----------------------------------------------------------------------------
(* SH_IOC_FORCE_REFRESH and SH_IOC_SET_SENSOR_CFG *)

Refresh(c) ==
    /\ At(c, "idle", "lock")
    /\ job' = [job EXCEPT ![c] = "refresh"]
    /\ UNCHANGED <<enabled, timer, io_lock, bus, arg>>

SetCfg(c, e) ==
    /\ At(c, "idle", "setcfg")
    /\ job' = [job EXCEPT ![c] = "cfg"]
    /\ arg' = [arg EXCEPT ![c] = e]
    /\ UNCHANGED <<enabled, timer, io_lock, bus>>

WriteCfg(c) ==
    /\ At(c, "setcfg", "cancel")
    /\ enabled' = arg[c]
    /\ UNCHANGED <<timer, io_lock, bus, job, arg>>

\* cancel_delayed_work_sync first takes the work out of the timer and keeps
\* others from queueing it, then waits until it is not running.
CancelWork(c) ==
    /\ At(c, "cancel", "flush")
    /\ timer # "canceling"
    /\ timer' = "canceling"
    /\ UNCHANGED <<enabled, io_lock, bus, job, arg>>

FlushWork(c) ==
    /\ At(c, "flush", "read")
    /\ pc[Work] = "idle"
    /\ timer' = "idle"
    /\ UNCHANGED <<enabled, io_lock, bus, job, arg>>

\* Mutant: the call goes by its own argument, not by the configuration.
ReadOwnArgument(c) ==
    /\ pc[c] = "read"
    /\ IF arg[c] THEN pc' = [pc EXCEPT ![c] = "schedule"] /\ UNCHANGED job
                 ELSE Return(c)
    /\ UNCHANGED <<enabled, timer, io_lock, bus, arg>>

\* endpoint->cfg.enabled may be another call's by now.
ReadCfg(c) ==
    /\ pc[c] = "read"
    /\ IF enabled THEN pc' = [pc EXCEPT ![c] = "schedule"] /\ UNCHANGED job
                  ELSE Return(c)
    /\ UNCHANGED <<enabled, timer, io_lock, bus, arg>>

----------------------------------------------------------------------------

Sample(t) == Ask(t) \/ ReceiveTemp(t) \/ ReceiveHumi(t)

CallerStep(c) ==
    \/ WriteCfg(c) \/ CancelWork(c) \/ FlushWork(c) \/ ReadCfg(c)

Next ==
    \/ \E c \in Callers : \/ Refresh(c) \/ CallerStep(c)
                          \/ \E e \in BOOLEAN : SetCfg(c, e)
    \/ \E t \in Threads : Lock(t) \/ Sample(t) \/ TransferFails(t) \/ Schedule(t)
    \/ WorkTest \/ WorkRearm \/ TimerFires

Spec == Init /\ [][Next]_vars

\* Code inside the driver runs on, a pending timer expires, and the mutex,
\* which hands over to a waiter that has waited long, is given to everyone who
\* waits for it.  Nobody owes a call, and a transfer may fail each time.
Fairness ==
    /\ WF_vars(TimerFires) /\ WF_vars(WorkTest) /\ WF_vars(WorkRearm)
    /\ \A t \in Threads : /\ SF_vars(Lock(t))
                          /\ WF_vars(Sample(t)) /\ WF_vars(Schedule(t))
    /\ \A c \in Callers : WF_vars(CallerStep(c))

FairSpec == Spec /\ Fairness

----------------------------------------------------------------------------
(* Properties *)

\* Whoever fetches a measurement fetches the one it asked for: nobody else
\* talks to the sensor between the command and the answer.
AnswerMatchesCommand ==
    \A t \in Threads : /\ pc[t] = "recvT" => bus = "temp"
                       /\ pc[t] = "recvH" => bus = "humi"

\* Sampling is never lost: whenever no call is in the middle of something and
\* the sensor is enabled, the work is in the timer or running, whatever
\* enabling and disabling calls overlapped before.
EnabledMeansArmed ==
    (\A t \in Threads \ {Work} : pc[t] = "idle") /\ enabled
        => timer = "pending" \/ pc[Work] # "idle"

\* From some point on, nobody begins a call.
LeftAlone == <>[][\A c \in Callers : pc[c] = "idle" => pc'[c] = "idle"]_vars

\* Once the sensor is left alone while it is enabled, it is sampled for ever,
\* whatever calls overlapped before, and even if transfers fail.
SamplingGoesOn == <>[]enabled /\ LeftAlone => []<>(pc[Work] = "askT")

\* Once the sensor is left alone while it is disabled, every call returns and
\* the work comes to rest: apply_cfg's wait for the work, the work's wait for
\* io_lock and the work's putting itself back do not keep each other going.
DisabledComesToRest ==
    <>[]~enabled /\ LeftAlone
        => <>[](timer = "idle" /\ \A t \in Threads : pc[t] = "idle")
=============================================================================
