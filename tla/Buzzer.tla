------------------------------- MODULE Buzzer -------------------------------
(***************************************************************************)
(* The PWM buzzer endpoint: SH_ACTION_ALERT/PULSE/STOP (sh_buzzer_dispatch)*)
(* and SH_IOC_SET_SENSOR_CFG (sh_buzzer_apply_cfg) from any number of      *)
(* processes, and the delayed work stop_work that ends a tone.  No lock    *)
(* protects struct sh_buzzer_priv: every access of priv, of the PWM, of    *)
(* cfg.enabled and of the endpoint's value is a step of its own.           *)
(***************************************************************************)
EXTENDS Naturals

CONSTANTS
    Callers,     \* the processes that use the buzzer
    Work,        \* the worker that runs sh_buzzer_stop_workfn
    PwmMayFail,  \* whether pwm_apply_state can return an error
    MaxCalls     \* bound: calls made in one behaviour

Threads == Callers \cup {Work}

ASSUME ThreadAssumption == Work \notin Callers
ASSUME PwmAssumption == PwmMayFail \in BOOLEAN

VARIABLES
    enabled,  \* endpoint->cfg.enabled
    pwm,      \* what the PWM outputs: "on" or "off"
    active,   \* priv->active
    shown,    \* SH_FLAG_ACTIVE of endpoint->value
    event,    \* code of the last event pushed
    timer,    \* stop_work: "idle", "pending", or "canceling"
    pc,       \* where each context is
    op,       \* its call and local variables
    calls,    \* history: how many calls were made
    refused   \* history: what the last pwm_apply_state refused: "no", "on" or "off"

vars == <<enabled, pwm, active, shown, event, timer, pc, op, calls, refused>>

Job == {"none", "sound", "stop", "cfg", "work"}
Code == {"NONE", "OUTPUT_ON", "OUTPUT_OFF", "ENABLE", "DISABLE"}
Pc == {"idle", "enter", "cancel", "flush", "test", "on", "mark",
       "off", "unmark", "build", "publish", "emit", "schedule"}

\* Where the work may be: in __sh_buzzer_stop, which does not wait for the work.
WorkPc == {"idle", "off", "unmark", "build", "publish", "emit"}

\* A context's job, the argument of SET_SENSOR_CFG, the event it is to emit,
\* the flag it read while it built a value, and whether it is inside the stop
\* that sh_buzzer_apply_cfg makes without an event.
Op == [job : Job, arg : BOOLEAN, code : Code, val : BOOLEAN, silent : BOOLEAN]
NoOp == [job |-> "none", arg |-> FALSE, code |-> "NONE", val |-> FALSE, silent |-> FALSE]

\* A context is only where its job takes it: the work never waits for the work,
\* and a call that waits for it is one that knows how to go on.
PlacesOK ==
    /\ pc[Work] \in WorkPc
    /\ pc[Work] # "idle" => op[Work].job = "work"
    /\ \A c \in Callers : pc[c] # "idle" => op[c].job \in {"sound", "stop", "cfg"}

TypeOK ==
    /\ enabled \in BOOLEAN /\ active \in BOOLEAN /\ shown \in BOOLEAN
    /\ pwm \in {"on", "off"}
    /\ event \in Code
    /\ timer \in {"idle", "pending", "canceling"}
    /\ pc \in [Threads -> Pc]
    /\ op \in [Threads -> Op]
    /\ calls \in Nat /\ refused \in {"no", "on", "off"}
    /\ PlacesOK

\* sh_buzzer_register has committed the state, with an ENABLE event.
Init ==
    /\ enabled = TRUE /\ pwm = "off" /\ active = FALSE /\ shown = FALSE
    /\ event = "ENABLE"
    /\ timer = "idle"
    /\ pc = [t \in Threads |-> "idle"]
    /\ op = [t \in Threads |-> NoOp]
    /\ calls = 0 /\ refused = "no"

At(t, from, to) == pc[t] = from /\ pc' = [pc EXCEPT ![t] = to]

Return(t) ==
    /\ pc' = [pc EXCEPT ![t] = "idle"]
    /\ op' = [op EXCEPT ![t] = NoOp]

Call(c, job, arg, code) ==
    /\ At(c, "idle", "enter")
    /\ calls < MaxCalls
    /\ calls' = calls + 1
    /\ op' = [op EXCEPT ![c] = [NoOp EXCEPT !.job = job, !.arg = arg, !.code = code]]
    /\ UNCHANGED <<enabled, pwm, active, shown, event, timer, refused>>

----------------------------------------------------------------------------
(* The calls *)

\* SH_ACTION_ALERT and SH_ACTION_PULSE differ in the code of their event only.
Sound(c) == Call(c, "sound", FALSE, "OUTPUT_ON")

Stop(c) == Call(c, "stop", FALSE, "OUTPUT_OFF")

SetCfg(c, e) == Call(c, "cfg", e, IF e THEN "ENABLE" ELSE "DISABLE")

\* An action on a disabled buzzer ends with EACCES; cfg is looked at with no lock.
DispatchEnter(c) ==
    /\ pc[c] = "enter" /\ op[c].job \in {"sound", "stop"}
    /\ IF enabled THEN pc' = [pc EXCEPT ![c] = "cancel"] /\ UNCHANGED op
                  ELSE Return(c)
    /\ UNCHANGED <<enabled, pwm, active, shown, event, timer, calls, refused>>

CfgEnter(c) ==
    /\ At(c, "enter", "cancel") /\ op[c].job = "cfg"
    /\ enabled' = op[c].arg
    /\ UNCHANGED <<pwm, active, shown, event, timer, op, calls, refused>>

----------------------------------------------------------------------------
(* The delayed work (kernel workqueue) *)

\* cancel_delayed_work_sync first takes the work out of the timer and keeps
\* others from queueing it, then waits until it is not running.
CancelWork(c) ==
    /\ At(c, "cancel", "flush")
    /\ timer # "canceling"
    /\ timer' = "canceling"
    /\ UNCHANGED <<enabled, pwm, active, shown, event, op, calls, refused>>

\* Mutant: a configuration that disables does not stop the tone.
AfterFlushNoStop(job) == IF job = "sound" THEN "on" ELSE IF job = "stop" THEN "off" ELSE "build"

AfterFlush(job) == CASE job = "sound" -> "on"
                     [] job = "stop"  -> "off"
                     [] job = "cfg"   -> "test"

FlushWork(c) ==
    /\ At(c, "flush", AfterFlush(op[c].job))
    /\ pc[Work] = "idle"
    /\ timer' = "idle"
    /\ UNCHANGED <<enabled, pwm, active, shown, event, op, calls, refused>>

\* Mutant: the work calls sh_buzzer_stop, and so waits for itself.
TimerFiresStop ==
    /\ timer = "pending" /\ pc[Work] = "idle"
    /\ timer' = "idle"
    /\ pc' = [pc EXCEPT ![Work] = "cancel"]
    /\ op' = [op EXCEPT ![Work] = [NoOp EXCEPT !.job = "work", !.code = "OUTPUT_OFF"]]
    /\ UNCHANGED <<enabled, pwm, active, shown, event, calls, refused>>

\* The duration has passed; the worker starts sh_buzzer_stop_workfn.
TimerFires ==
    /\ timer = "pending" /\ pc[Work] = "idle"
    /\ timer' = "idle"
    /\ pc' = [pc EXCEPT ![Work] = "off"]
    /\ op' = [op EXCEPT ![Work] = [NoOp EXCEPT !.job = "work", !.code = "OUTPUT_OFF"]]
    /\ UNCHANGED <<enabled, pwm, active, shown, event, calls, refused>>

\* schedule_delayed_work does nothing to work that is pending or being canceled.
Schedule(c) ==
    /\ pc[c] = "schedule"
    /\ timer' = IF timer = "idle" THEN "pending" ELSE timer
    /\ Return(c)
    /\ UNCHANGED <<enabled, pwm, active, shown, event, calls, refused>>

----------------------------------------------------------------------------
(* The steps of a call, of the worker, and of __sh_buzzer_stop *)

PwmOn(t) ==
    /\ At(t, "on", "mark")
    /\ pwm' = "on" /\ refused' = "no"
    /\ UNCHANGED <<enabled, active, shown, event, timer, op, calls>>

PwmOff(t) ==
    /\ At(t, "off", "unmark")
    /\ pwm' = "off" /\ refused' = "no"
    /\ UNCHANGED <<enabled, active, shown, event, timer, op, calls>>

\* The error ends the call, or the work item; nobody tries again.  A frequency
\* above 2 GHz, whose period is rounded to 0 ns, is refused in the same way.
PwmFails(t) ==
    /\ PwmMayFail
    /\ pc[t] \in {"on", "off"}
    /\ refused' = pc[t]
    /\ Return(t)
    /\ UNCHANGED <<enabled, pwm, active, shown, event, timer, calls>>

\* sh_buzzer_apply_cfg stops a tone it believes is sounding.
TestActive(c) ==
    /\ At(c, "test", IF active THEN "off" ELSE "build")
    /\ op' = [op EXCEPT ![c].silent = active]
    /\ UNCHANGED <<enabled, pwm, active, shown, event, timer, calls, refused>>

\* Mutant: active is never set back.
UnmarkForgotten(t) ==
    /\ At(t, "unmark", "build")
    /\ UNCHANGED <<enabled, pwm, active, shown, event, timer, op, calls, refused>>

Mark(t) ==
    /\ At(t, "mark", "build")
    /\ active' = TRUE
    /\ UNCHANGED <<enabled, pwm, shown, event, timer, op, calls, refused>>

Unmark(t) ==
    /\ At(t, "unmark", "build")
    /\ active' = FALSE
    /\ UNCHANGED <<enabled, pwm, shown, event, timer, op, calls, refused>>

\* sh_buzzer_build_value
BuildValue(t) ==
    /\ At(t, "build", "publish")
    /\ op' = [op EXCEPT ![t].val = active]
    /\ UNCHANGED <<enabled, pwm, active, shown, event, timer, calls, refused>>

\* sh_buzzer_commit_state stores the value, then emits the event.  The silent
\* stop of apply_cfg has no event: apply_cfg commits again after it.
Publish(t) ==
    /\ pc[t] = "publish"
    /\ shown' = op[t].val
    /\ pc' = [pc EXCEPT ![t] = IF op[t].silent THEN "build" ELSE "emit"]
    /\ op' = [op EXCEPT ![t].silent = FALSE]
    /\ UNCHANGED <<enabled, pwm, active, event, timer, calls, refused>>

\* After its event a tone gets its end scheduled; the others are done.
Done(t) == IF op[t].job = "sound" THEN pc' = [pc EXCEPT ![t] = "schedule"] /\ UNCHANGED op
                                  ELSE Return(t)

\* Mutant: the worker of a tone that ends does not say so.
EmitWorkSilent(t) ==
    /\ pc[t] = "emit"
    /\ event' = IF op[t].job = "work" THEN event ELSE op[t].code
    /\ Done(t)
    /\ UNCHANGED <<enabled, pwm, active, shown, timer, calls, refused>>

\* Mutant: no stop is scheduled.
EmitNoSchedule(t) ==
    /\ pc[t] = "emit"
    /\ event' = op[t].code
    /\ Return(t)
    /\ UNCHANGED <<enabled, pwm, active, shown, timer, calls, refused>>

Emit(t) ==
    /\ pc[t] = "emit"
    /\ event' = op[t].code
    /\ Done(t)
    /\ UNCHANGED <<enabled, pwm, active, shown, timer, calls, refused>>

----------------------------------------------------------------------------

ThreadStep(t) ==
    \/ PwmOn(t) \/ PwmOff(t) \/ Mark(t) \/ Unmark(t)
    \/ BuildValue(t) \/ Publish(t) \/ Emit(t)
    \/ t \in Callers /\ \/ DispatchEnter(t) \/ CfgEnter(t)
                        \/ CancelWork(t) \/ FlushWork(t) \/ TestActive(t) \/ Schedule(t)

Next ==
    \/ \E c \in Callers : Sound(c) \/ Stop(c) \/ \E e \in BOOLEAN : SetCfg(c, e)
    \/ \E t \in Threads : ThreadStep(t) \/ PwmFails(t)
    \/ TimerFires

Spec == Init /\ [][Next]_vars

\* Code inside the driver runs on, and a timer that is pending expires.  Nobody
\* owes a call.
FairSpec ==
    /\ Spec
    /\ WF_vars(TimerFires)
    /\ \A t \in Threads : WF_vars(ThreadStep(t))

----------------------------------------------------------------------------
(* Properties *)

Quiet == \A t \in Threads : pc[t] = "idle"

\* A tone always has an end in sight: stop_work is pending, or a call or the
\* worker that will stop the tone or schedule its stop is under way, unless the
\* PWM refused to be stopped (docs/02-architecture-deep-dive.md: after duration_ms
\* the delayed work turns the buzzer off).
ToneWillEnd == pwm = "on" => timer = "pending" \/ ~Quiet \/ refused = "off"

\* Between calls, priv->active and the SH_FLAG_ACTIVE that GET_SNAPSHOT
\* reports say what the PWM does, also after calls that failed half-way.
StateIsTruth == Quiet => (active <=> pwm = "on") /\ (shown <=> pwm = "on")

\* Between calls, the last event a reader of the device got tells whether a
\* tone is sounding, also after it ended by itself or a call failed half-way.
LastEventIsTruth == Quiet => (event = "OUTPUT_ON" <=> pwm = "on")

\* Between calls, a disabled buzzer is silent, unless the PWM refused to be
\* stopped.  A tone that a refused ALERT left on is no exception.
DisabledIsSilent == Quiet /\ ~enabled => pwm = "off" \/ refused = "off"

\* Every tone ends, whatever cancels and schedules its stop again, unless the
\* PWM refuses something: a refused stop is not tried again, and a refused ALERT
\* has cancelled the stop of the tone before it.
EveryToneEnds == pwm = "on" ~> pwm = "off" \/ refused # "no"
=============================================================================
