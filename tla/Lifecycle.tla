----------------------------- MODULE Lifecycle ------------------------------
(***************************************************************************)
(* The life of one binding of the driver: sh_probe with the registration   *)
(* of the three endpoints and its error paths, sh_remove, and the release  *)
(* of what devm_* acquired, against everything that may run meanwhile: the *)
(* PIR interrupt, the two delayed works, and processes that open the       *)
(* device file as soon as misc_register has made it.                       *)
(*                                                                         *)
(* What the calls do to values and tones is in SensorHub, Sht20 and        *)
(* Buzzer; here a call is the memory, the work and the I2C client it uses. *)
(***************************************************************************)
EXTENDS Integers, Sequences

CONSTANTS
    Callers,    \* processes
    MaxCalls    \* bound: calls made in one behaviour

ASSUME CallsAssumption == MaxCalls \in Nat

Endpoint == {"pir", "sht20", "buzzer"}
Timed == {"sht20", "buzzer"}        \* have a struct delayed_work

VARIABLES
    phase,       \* "probe", "bound", "unwind" (a probe that failed), "remove", "gone"
    step,        \* position in Probing, or the step of the tear-down
    dev,         \* the endpoint being unregistered
    alive,       \* the memory of struct sh_core and of the privs
    node,        \* the device file exists
    going,       \* the module is being unloaded
    registered,  \* endpoint->registered
    back,        \* priv->endpoint has been set
    timer,       \* the delayed work: "raw", "idle", "pending", "canceling"
    running,     \* its function is running
    irq,         \* the PIR interrupt: "none", "idle", "running"
    held,        \* references to the I2C adapter, and I2C clients, held
    file,        \* who has the device file open
    cpc,         \* where each process is in a call
    target,      \* the endpoint its call has found
    calls,       \* history: calls made
    exposed      \* history: a process had the file open during the tear-down

thread == <<phase, step, dev>>
memory == <<alive, registered, back>>
device == <<node, going, file>>
works == <<timer, running>>
process == <<cpc, target, calls>>
vars == <<thread, memory, device, works, irq, held, process, exposed>>

\* What sh_probe does, in order, after misc_register; "claim" stands for the
\* allocation and the GPIO, I2C adapter or PWM.
Probing == << <<"pir", "claim">>, <<"pir", "register">>, <<"pir", "irq">>,
              <<"sht20", "claim">>, <<"sht20", "client">>, <<"sht20", "register">>,
              <<"sht20", "back">>, <<"sht20", "init">>, <<"sht20", "arm">>,
              <<"buzzer", "claim">>, <<"buzzer", "init">>, <<"buzzer", "register">>,
              <<"buzzer", "back">> >>

Undoing == {"find", "cancel", "flush", "put", "unlist", "sweep", "misc", "irq", "free", "none"}

TypeOK ==
    /\ phase \in {"probe", "bound", "unwind", "remove", "gone"}
    /\ IF phase = "probe" THEN step \in -1 .. Len(Probing) ELSE step \in Undoing
    /\ dev \in Endpoint
    /\ alive \in BOOLEAN /\ node \in BOOLEAN /\ going \in BOOLEAN /\ exposed \in BOOLEAN
    /\ registered \in [Endpoint -> BOOLEAN] /\ back \in [Timed -> BOOLEAN]
    /\ timer \in [Timed -> {"raw", "idle", "pending", "canceling"}]
    /\ running \in [Timed -> BOOLEAN]
    /\ irq \in {"none", "idle", "running"}
    /\ held \in [{"adapter", "client"} -> Int]
    /\ file \in [Callers -> BOOLEAN]
    /\ cpc \in [Callers -> {"idle", "enter", "exchange", "cancel", "flush", "commit", "arm", "lost"}]
    /\ target \in [Callers -> Endpoint]
    /\ calls \in 0 .. MaxCalls

Init ==
    /\ phase = "probe" /\ step = -1 /\ dev = "buzzer"
    /\ alive = FALSE /\ node = FALSE /\ going = FALSE
    /\ registered = [e \in Endpoint |-> FALSE]
    /\ back = [e \in Timed |-> FALSE]
    /\ timer = [e \in Timed |-> "raw"]
    /\ running = [e \in Timed |-> FALSE]
    /\ irq = "none"
    /\ held = [r \in {"adapter", "client"} |-> 0]
    /\ file = [c \in Callers |-> FALSE]
    /\ cpc = [c \in Callers |-> "idle"]
    /\ target = [c \in Callers |-> "pir"]
    /\ calls = 0 /\ exposed = FALSE

----------------------------------------------------------------------------
(* sh_probe *)

\* The next step of the probe is s for endpoint e.
Doing(e, s) == phase = "probe" /\ step \in DOMAIN Probing /\ Probing[step] = <<e, s>>

\* Mutant: the probe goes one step too far.
DoneLate ==
    /\ phase' = "probe" /\ step' = step + 1
    /\ UNCHANGED <<dev, exposed>>

Done ==
    /\ IF step = Len(Probing)
       THEN phase' = "bound" /\ step' = "none"
       ELSE phase' = "probe" /\ step' = step + 1
    /\ UNCHANGED <<dev, exposed>>

\* The error paths: err_sht20, err_pir and err_misc unregister what was
\* registered before the endpoint that failed.
Unwind(s, e) ==
    /\ phase' = "unwind" /\ step' = s /\ dev' = e
    /\ exposed' = \E c \in Callers : file[c]

FailAt(e) ==
    CASE e = "pir"    -> Unwind("misc", dev)
      [] e = "sht20"  -> Unwind("find", "pir")
      [] e = "buzzer" -> Unwind("find", "sht20")

Allocate ==
    /\ phase = "probe" /\ step = -1
    /\ \/ alive' = TRUE /\ step' = 0 /\ UNCHANGED <<phase, dev, exposed>>
       \/ Unwind("free", dev) /\ UNCHANGED alive
    /\ UNCHANGED <<registered, back, device, works, irq, held, process>>

MiscRegister ==
    /\ phase = "probe" /\ step = 0
    /\ \/ node' = TRUE /\ Done
       \/ Unwind("irq", dev) /\ UNCHANGED node
    /\ UNCHANGED <<memory, going, file, works, irq, held, process>>

\* devm_kzalloc and devm_gpiod_get; i2c_get_adapter; devm_kzalloc.
Claim(e) ==
    /\ Doing(e, "claim")
    /\ \/ Done /\ held' = IF e = "sht20" THEN [held EXCEPT !.adapter = @ + 1] ELSE held
       \/ FailAt(e) /\ UNCHANGED held
    /\ UNCHANGED <<memory, device, works, irq, process>>

\* devm_pwm_get finds no PWM: the board has no buzzer, which is no error.
SkipBuzzer ==
    /\ Doing("buzzer", "claim")
    /\ phase' = "bound" /\ step' = "none"
    /\ UNCHANGED <<dev, exposed, memory, device, works, irq, held, process>>

\* Mutant: the adapter is not put back.
NewClientLeaks ==
    /\ Doing("sht20", "client")
    /\ \/ Done /\ held' = [held EXCEPT !.client = @ + 1]
       \/ FailAt("sht20") /\ UNCHANGED held
    /\ UNCHANGED <<memory, device, works, irq, process>>

NewClient ==
    /\ Doing("sht20", "client")
    /\ \/ Done /\ held' = [held EXCEPT !.client = @ + 1]
       \/ FailAt("sht20") /\ held' = [held EXCEPT !.adapter = @ - 1]
    /\ UNCHANGED <<memory, device, works, irq, process>>

\* sh_register_endpoint; there is room for all three.  From here on
\* sh_find_endpoint returns it.
Register(e) ==
    /\ Doing(e, "register")
    /\ Done
    /\ registered' = [registered EXCEPT ![e] = TRUE]
    /\ UNCHANGED <<alive, back, device, works, irq, held, process>>

SetBack(e) ==
    /\ Doing(e, "back")
    /\ Done
    /\ back' = [back EXCEPT ![e] = TRUE]
    /\ UNCHANGED <<alive, registered, device, works, irq, held, process>>

InitWork(e) ==
    /\ Doing(e, "init")
    /\ Done
    /\ timer' = [timer EXCEPT ![e] = "idle"]
    /\ UNCHANGED <<memory, device, running, irq, held, process>>

RequestIrq ==
    /\ Doing("pir", "irq")
    /\ \/ Done /\ irq' = "idle"
       \/ FailAt("pir") /\ UNCHANGED irq
    /\ UNCHANGED <<memory, device, works, held, process>>

\* schedule_delayed_work does nothing to work that is pending or being canceled.
Armed(e) == [timer EXCEPT ![e] = IF @ = "idle" THEN "pending" ELSE @]

\* The first sample, whose failure is only logged, and the first schedule.
ArmSht20 ==
    /\ Doing("sht20", "arm")
    /\ Done
    /\ timer' = Armed("sht20")
    /\ UNCHANGED <<memory, device, running, irq, held, process>>

Probe ==
    \/ Allocate \/ MiscRegister \/ SkipBuzzer \/ NewClient \/ RequestIrq \/ ArmSht20
    \/ \E e \in Endpoint : Claim(e) \/ Register(e)
    \/ \E e \in Timed : SetBack(e) \/ InitWork(e)

----------------------------------------------------------------------------
(* sh_remove, the error paths of sh_probe, and the release by devres *)

Undo(s, t) == phase \in {"remove", "unwind"} /\ step = s /\ step' = t

\* An open file pins the module (.owner = THIS_MODULE), so that it cannot be
\* unloaded; the unbind file in sysfs asks nobody.
Remove ==
    /\ phase = "bound"
    /\ phase' = "remove" /\ step' = "find" /\ dev' = "buzzer"
    /\ \/ going' = TRUE /\ ~\E c \in Callers : file[c]
       \/ UNCHANGED going
    /\ exposed' = \E c \in Callers : file[c]
    /\ UNCHANGED <<memory, node, file, works, irq, held, process>>

\* sh_remove and err_sht20 go through the endpoints in this order.
NextEndpoint ==
    CASE dev = "buzzer" -> step' = "find" /\ dev' = "sht20"
      [] dev = "sht20"  -> step' = "find" /\ dev' = "pir"
      [] dev = "pir"    -> UNCHANGED dev /\ step' = IF phase = "remove" THEN "sweep" ELSE "misc"

\* Mutant: the endpoint's remove callback is not called.
FindAndForget ==
    /\ phase \in {"remove", "unwind"} /\ step = "find"
    /\ IF registered[dev] THEN step' = "unlist" /\ UNCHANGED dev ELSE NextEndpoint
    /\ UNCHANGED <<phase, exposed, memory, device, works, irq, held, process>>

\* sh_find_endpoint and ops->remove; a buzzer that was skipped is not found.
Find ==
    /\ phase \in {"remove", "unwind"} /\ step = "find"
    /\ IF registered[dev]
       THEN UNCHANGED dev /\ step' = IF dev \in Timed THEN "cancel" ELSE "unlist"
       ELSE NextEndpoint
    /\ UNCHANGED <<phase, exposed, memory, device, works, irq, held, process>>

\* cancel_delayed_work_sync first takes the work out of the timer and keeps
\* others from queueing it, then waits until it is not running.
Cancel ==
    /\ Undo("cancel", "flush")
    /\ timer[dev] # "canceling"
    /\ timer' = [timer EXCEPT ![dev] = "canceling"]
    /\ UNCHANGED <<phase, dev, exposed, memory, device, running, irq, held, process>>

\* Mutant: it waits for the work to leave the timer too, which it has done.
DrainedToo(e) == ~running[e] /\ timer[e] = "idle"

\* Mutant: it does not wait (cancel_delayed_work).
NotAwaited(e) == TRUE

AtRest(e) == ~running[e]

Flush ==
    /\ Undo("flush", "put")
    /\ AtRest(dev)
    /\ timer' = [timer EXCEPT ![dev] = "idle"]
    /\ UNCHANGED <<phase, dev, exposed, memory, device, running, irq, held, process>>

\* i2c_unregister_device and i2c_put_adapter; the buzzer is stopped.
PutBack(e) == IF e = "sht20" THEN [r \in DOMAIN held |-> held[r] - 1] ELSE held

Put ==
    /\ Undo("put", "unlist")
    /\ held' = PutBack(dev)
    /\ UNCHANGED <<phase, dev, exposed, memory, device, works, irq, process>>

\* Mutant: the endpoint stays registered.
UnlistNothing ==
    /\ phase \in {"remove", "unwind"} /\ step = "unlist"
    /\ NextEndpoint
    /\ UNCHANGED <<phase, exposed, memory, device, works, irq, held, process>>

Unlist ==
    /\ phase \in {"remove", "unwind"} /\ step = "unlist"
    /\ registered' = [registered EXCEPT ![dev] = FALSE]
    /\ NextEndpoint
    /\ UNCHANGED <<phase, exposed, alive, back, device, works, irq, held, process>>

\* The loop at the end of sh_remove calls the remove callback of every
\* endpoint that is still registered.
Sweep ==
    /\ Undo("sweep", "misc")
    /\ held' = IF registered["sht20"] THEN PutBack("sht20") ELSE held
    /\ timer' = [e \in Timed |-> IF registered[e] THEN "idle" ELSE timer[e]]
    /\ UNCHANGED <<phase, dev, exposed, memory, device, running, irq, process>>

MiscDeregister ==
    /\ Undo("misc", "irq")
    /\ node' = FALSE
    /\ UNCHANGED <<phase, dev, exposed, memory, going, file, works, irq, held, process>>

\* devres releases in the reverse order of acquisition: the interrupt goes
\* before the memory of the hub and of the PIR (the other two privs, which it
\* does not use, go just before it).  free_irq lets no new handler start and waits
\* for the one that runs.
FreeingIrq == phase \in {"unwind", "remove"} /\ step = "irq"

FreeIrq ==
    /\ Undo("irq", "free")
    /\ irq # "running"
    /\ irq' = "none"
    /\ UNCHANGED <<phase, dev, exposed, memory, device, works, held, process>>

FreeMemory ==
    /\ Undo("free", "none")
    /\ phase' = "gone"
    /\ alive' = FALSE
    /\ UNCHANGED <<dev, exposed, registered, back, device, works, irq, held, process>>

TearDown ==
    \/ Find \/ Cancel \/ Flush \/ Put \/ Unlist \/ Sweep
    \/ MiscDeregister \/ FreeIrq \/ FreeMemory

----------------------------------------------------------------------------
(* The interrupt and the delayed works *)

IrqEnter ==
    /\ irq = "idle" /\ ~FreeingIrq
    /\ irq' = "running"
    /\ UNCHANGED <<thread, memory, device, works, held, process, exposed>>

IrqReturn ==
    /\ irq = "running"
    /\ irq' = "idle"
    /\ UNCHANGED <<thread, memory, device, works, held, process, exposed>>

TimerFires(e) ==
    /\ timer[e] = "pending" /\ ~running[e]
    /\ timer' = [timer EXCEPT ![e] = "idle"]
    /\ running' = [running EXCEPT ![e] = TRUE]
    /\ UNCHANGED <<thread, memory, device, irq, held, process, exposed>>

\* The work of the SHT20 puts itself back if the configuration says so, which
\* a call may have changed meanwhile; that of the buzzer never does.
WorkReturns(e) ==
    /\ running[e]
    /\ running' = [running EXCEPT ![e] = FALSE]
    /\ \/ UNCHANGED timer
       \/ e = "sht20" /\ timer' = Armed(e)
    /\ UNCHANGED <<thread, memory, device, irq, held, process, exposed>>

----------------------------------------------------------------------------
(* The processes: sh_open, sh_ioctl, release *)

At(c, from, to) == cpc[c] = from /\ cpc' = [cpc EXCEPT ![c] = to]

Open(c) ==
    /\ node /\ ~going /\ ~file[c]
    /\ file' = [file EXCEPT ![c] = TRUE]
    /\ exposed' = (exposed \/ phase \in {"unwind", "remove"})
    /\ UNCHANGED <<thread, memory, node, going, works, irq, held, process>>

Close(c) ==
    /\ file[c] /\ cpc[c] = "idle"
    /\ file' = [file EXCEPT ![c] = FALSE]
    /\ UNCHANGED <<thread, memory, node, going, works, irq, held, process, exposed>>

\* A call on a hub that has been freed: what it does is undefined.
CallOnFreed(c) ==
    /\ file[c] /\ calls < MaxCalls /\ ~alive
    /\ At(c, "idle", "lost")
    /\ calls' = calls + 1
    /\ UNCHANGED <<thread, memory, device, works, irq, held, target, exposed>>

\* FORCE_REFRESH, SET_SENSOR_CFG or RUN_ACTION finds its endpoint; a call that
\* finds none returns EINVAL.
Call(c, e) ==
    /\ file[c] /\ calls < MaxCalls /\ alive
    /\ registered[e]
    /\ At(c, "idle", "enter")
    /\ calls' = calls + 1
    /\ target' = [target EXCEPT ![c] = e]
    /\ UNCHANGED <<thread, memory, device, works, irq, held, exposed>>

\* A call to the PIR uses nothing but the memory of the hub; one to the SHT20
\* measures or cancels the work; one to the buzzer cancels.
Enter(c) ==
    /\ alive
    /\ \/ target[c] = "pir" /\ At(c, "enter", "idle")
       \/ target[c] = "sht20" /\ At(c, "enter", "exchange")
       \/ target[c] \in Timed /\ At(c, "enter", "cancel")
    /\ UNCHANGED <<thread, memory, device, works, irq, held, target, calls, exposed>>

ExchangeEnds(c) ==
    /\ alive
    /\ At(c, "exchange", "idle")
    /\ UNCHANGED <<thread, memory, device, works, irq, held, target, calls, exposed>>

\* Work that has not been initialised: what cancelling it does is undefined.
CancelRaw(c) ==
    /\ At(c, "cancel", "lost")
    /\ alive /\ timer[target[c]] = "raw"
    /\ UNCHANGED <<thread, memory, device, works, irq, held, target, calls, exposed>>

CallCancels(c) ==
    /\ At(c, "cancel", "flush")
    /\ alive /\ timer[target[c]] \in {"idle", "pending"}
    /\ timer' = [timer EXCEPT ![target[c]] = "canceling"]
    /\ UNCHANGED <<thread, memory, device, running, irq, held, target, calls, exposed>>

CallFlushes(c) ==
    /\ At(c, "flush", IF target[c] = "sht20" THEN "arm" ELSE "commit")
    /\ alive /\ ~running[target[c]]
    /\ timer' = [timer EXCEPT ![target[c]] = "idle"]
    /\ UNCHANGED <<thread, memory, device, running, irq, held, target, calls, exposed>>

\* sh_buzzer_build_value goes through priv->endpoint, NULL until it is set.
\* A tone then gets its end scheduled.
Commit(c) ==
    /\ alive
    /\ IF back["buzzer"] THEN At(c, "commit", "arm") \/ At(c, "commit", "idle")
                         ELSE At(c, "commit", "lost")
    /\ UNCHANGED <<thread, memory, device, works, irq, held, target, calls, exposed>>

\* The sampling goes on if the configuration enables it.
CallArms(c) ==
    /\ alive
    /\ At(c, "arm", "idle")
    /\ \/ timer' = Armed(target[c])
       \/ target[c] = "sht20" /\ UNCHANGED timer
    /\ UNCHANGED <<thread, memory, device, running, irq, held, target, calls, exposed>>

CallerStep(c) ==
    Enter(c) \/ ExchangeEnds(c) \/ CancelRaw(c) \/ CallCancels(c) \/ CallFlushes(c)
    \/ Commit(c) \/ CallArms(c)

----------------------------------------------------------------------------

Next ==
    \/ Probe \/ TearDown \/ Remove
    \/ IrqEnter \/ IrqReturn
    \/ \E e \in Timed : TimerFires(e) \/ WorkReturns(e)
    \/ \E c \in Callers :
          \/ Open(c) \/ Close(c) \/ CallOnFreed(c) \/ CallerStep(c)
          \/ \E e \in Endpoint : Call(c, e)

Spec == Init /\ [][Next]_vars

\* Kernel code runs on, whoever runs it, and a pending timer expires.  Nobody
\* owes an open, a call, a close or a removal.
FairSpec ==
    /\ Spec
    /\ WF_vars(Probe) /\ WF_vars(TearDown) /\ WF_vars(IrqReturn)
    /\ \A e \in Timed : WF_vars(TimerFires(e)) /\ WF_vars(WorkReturns(e))
    /\ \A c \in Callers : WF_vars(CallerStep(c))

----------------------------------------------------------------------------
(* Properties *)

\* If nobody had the device file open while the driver was torn down (unloading
\* sees to that, a probe that fails and unbinding do not), nothing outlives
\* what it uses: once the memory is freed no handler and no work runs or is
\* going to, and once the I2C client is gone nobody measures.
NothingOutlivesItsMemory ==
    ~exposed =>
        /\ ~alive => /\ irq # "running"
                     /\ \A e \in Timed : ~running[e] /\ timer[e] # "pending"
                     /\ \A c \in Callers : cpc[c] = "idle"
        /\ held.client = 0 => /\ ~running["sht20"]
                              /\ \A c \in Callers : cpc[c] # "exchange"

\* However far the probe came, and whoever interferes, what it took from other
\* drivers is given back once and only once: after its error path or
\* sh_remove the adapter, the client, the device file and the interrupt are back.
GivenBackOnce ==
    /\ \A r \in DOMAIN held : held[r] \in {0, 1}
    /\ phase = "gone" => /\ held = [r \in DOMAIN held |-> 0]
                         /\ ~node /\ irq = "none"

\* A failed probe and a removal always come to their end, although the sampling
\* re-arms itself, tones end, motion interrupts and calls cancel the same work.
TearDownEnds == phase \in {"unwind", "remove"} ~> phase = "gone"

\* "sensor registry / config / snapshot" (sensor_hub.h, of hub->lock): an
\* endpoint that a call is given out of the registry is a whole one, its work
\* initialised and its priv pointing back to it.
FoundIsWhole ==
    \A c \in Callers : /\ cpc[c] = "cancel" => timer[target[c]] # "raw"
                       /\ cpc[c] = "commit" => back["buzzer"]
=============================================================================
