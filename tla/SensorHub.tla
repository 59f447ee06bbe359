----------------------------- MODULE SensorHub ------------------------------
(***************************************************************************)
(* The endpoints of the sensor hub: their configurations and latest        *)
(* values, the mutex hub->lock, snapshot_seq, and the kernel contexts that *)
(* use them: the PIR interrupt thread, and the processes (or the SHT20     *)
(* work item) inside refresh, apply_cfg and sh_fill_snapshot.              *)
(*                                                                         *)
(* A step is what the code does between two points where another context   *)
(* can come in: a lock taken or released, shared data read or written      *)
(* outside the lock. The fields of one value, or of one configuration,     *)
(* that are read together without the lock are read in one step, though:   *)
(* no copy is torn. The model starts when sh_probe has returned.           *)
(***************************************************************************)
EXTENDS Naturals, Sequences

CONSTANTS
    Endpoints,   \* hub->endpoints[]: a sequence of sensor ids
    Pir,         \* the one that raises interrupts
    Callers,     \* contexts that call the driver
    Irq,         \* the threaded handler of the PIR interrupt
    Free,        \* hub->lock when nobody holds it
    Cfgs,        \* the configurations that SET_SENSOR_CFG is given
    MaxCalls,    \* bound: calls made in one behaviour
    MaxEdges     \* bound: changes of what the sensors sense

Sensors == {Endpoints[i] : i \in DOMAIN Endpoints}
Threads == Callers \cup {Irq}

ASSUME ThreadAssumption == Irq \notin Callers /\ Free \notin Threads
ASSUME EndpointAssumption ==
    /\ Endpoints \in Seq(Sensors) /\ Pir \in Sensors
    /\ \A i, j \in DOMAIN Endpoints : i # j => Endpoints[i] # Endpoints[j]
ASSUME BoundAssumption == MaxCalls \in Nat /\ MaxEdges \in Nat

\* struct sh_sensor_cfg: whether the sensor is on, and debounce_ms # 0.
Config == [enabled : BOOLEAN, debounce : BOOLEAN]

ASSUME CfgAssumption == Cfgs \subseteq Config

Level == {0, 1}

\* A reading carries the moment it was sensed: the number of changes of the
\* world there had been.
Value == [level : Level, enabled : BOOLEAN, born : 0 .. MaxEdges]

VARIABLES
    input,         \* what each sensor senses now
    irq_pending,   \* an edge of the PIR line waits for its handler
    recent,        \* the debounce interval since last_irq_ns is still running
    cfg,           \* endpoint->cfg
    value,         \* endpoint->value
    lock,          \* the holder of hub->lock
    snapshot_seq,  \* number of updates of values
    events,        \* the events pushed, in order
    pc,            \* where each context is
    op,            \* its call and local variables
    snap,          \* the last snapshot each caller was given, or is being given
    calls,         \* history: how many calls were made
    edges,         \* history: how often an input changed
    states,        \* history: all values after each update, states[1] at probe
    late,          \* history: PIR events emitted since the PIR was disabled
    crossed        \* history: uses of an endpoint overlapped since its last lone SET_SENSOR_CFG

world == <<input, irq_pending, recent, edges>>
shared == <<cfg, value, lock, snapshot_seq>>
vars == <<world, shared, events, pc, op, snap, calls, states, late, crossed>>

\* What a context has on its stack: its call, the endpoint and configuration it
\* was given, the value it is building, and the number of its update.
Job == {"none", "irq", "refresh", "cfg", "snapshot"}
Op == [job : Job, e : Sensors, cfg : Config, val : Value, upd : Nat]
NoOp == [job |-> "none", e |-> Pir, cfg |-> [enabled |-> TRUE, debounce |-> TRUE],
         val |-> [level |-> 0, enabled |-> TRUE, born |-> 0], upd |-> 0]

Pc == {"idle", "sense", "build", "setcfg", "copy", "update", "commit", "emit", "fill", "items"}

TypeOK ==
    /\ input \in [Sensors -> Level]
    /\ irq_pending \in BOOLEAN /\ recent \in BOOLEAN
    /\ cfg \in [Sensors -> Config]
    /\ value \in [Sensors -> Value]
    /\ lock \in Threads \cup {Free}
    /\ snapshot_seq \in Nat
    /\ events \in Seq([e : Sensors, job : Job, val : Value, upd : Nat])
    /\ pc \in [Threads -> Pc]
    /\ op \in [Threads -> Op]
    /\ snap \in [Callers -> [seq : Nat, items : Seq(Value)]]
    /\ \A c \in Callers : Len(snap[c].items) <= Len(Endpoints)
    /\ calls \in Nat /\ edges \in 0 .. MaxEdges
    /\ states \in Seq([Sensors -> Value])
    /\ late \in Nat
    /\ crossed \in [Sensors -> BOOLEAN]

Init ==
    /\ input \in [Sensors -> Level]
    /\ irq_pending = FALSE /\ recent = FALSE
    /\ cfg = [e \in Sensors |-> NoOp.cfg]
    /\ value = [e \in Sensors |-> [level |-> input[e], enabled |-> TRUE, born |-> 0]]
    /\ lock = Free
    /\ snapshot_seq = 0
    /\ events = <<>>
    /\ pc = [t \in Threads |-> "idle"]
    /\ op = [t \in Threads |-> NoOp]
    /\ snap = [c \in Callers |-> [seq |-> 0, items |-> <<>>]]
    /\ calls = 0 /\ edges = 0
    /\ states = <<value>>
    /\ late = 0
    /\ crossed = [e \in Sensors |-> FALSE]

At(t, from, to) == pc[t] = from /\ pc' = [pc EXCEPT ![t] = to]

\* Another context is using endpoint e.
InUse(e) == \E t \in Threads : op[t].job \in {"irq", "refresh", "cfg"} /\ op[t].e = e

\* A call begins with its arguments on the stack, and ends with nothing there.
Call(c, first, job, e, k) ==
    /\ At(c, "idle", first)
    /\ calls < MaxCalls
    /\ calls' = calls + 1
    /\ op' = [op EXCEPT ![c] = [NoOp EXCEPT !.job = job, !.e = e, !.cfg = k]]
    /\ crossed' = IF job = "snapshot" THEN crossed
                  ELSE [crossed EXCEPT ![e] = InUse(e) \/ (@ /\ job # "cfg")]

Return(t) ==
    /\ pc' = [pc EXCEPT ![t] = "idle"]
    /\ op' = [op EXCEPT ![t] = NoOp]

----------------------------------------------------------------------------
(* The world outside the driver *)

\* What a sensor senses changes; both edges of the PIR line raise its interrupt.
Edge(e) ==
    /\ edges < MaxEdges
    /\ edges' = edges + 1
    /\ input' = [input EXCEPT ![e] = 1 - input[e]]
    /\ irq_pending' = (irq_pending \/ e = Pir)
    /\ UNCHANGED <<recent, shared, events, pc, op, snap, calls, states, late, crossed>>

DebounceElapses ==
    /\ recent
    /\ recent' = FALSE
    /\ UNCHANGED <<input, irq_pending, edges, shared, events, pc, op, snap, calls, states, late, crossed>>

----------------------------------------------------------------------------
(* sh_pir_irq_thread *)

\* Mutant: the handler does not look at cfg.enabled.
HandlerAlways == TRUE

\* The test of endpoint->cfg and of the debounce interval, with no lock.
HandlerWanted == cfg[Pir].enabled /\ ~(cfg[Pir].debounce /\ recent)

IrqEnter ==
    /\ irq_pending /\ pc[Irq] = "idle"
    /\ irq_pending' = FALSE
    /\ IF HandlerWanted
       THEN /\ pc' = [pc EXCEPT ![Irq] = "sense"]
            /\ op' = [op EXCEPT ![Irq] = [NoOp EXCEPT !.job = "irq", !.e = Pir]]
            /\ crossed' = [crossed EXCEPT ![Pir] = @ \/ InUse(Pir)]
       ELSE UNCHANGED <<pc, op, crossed>>
    /\ UNCHANGED <<input, recent, edges, shared, events, snap, calls, states, late>>

----------------------------------------------------------------------------
(* The device is read, by the handler and by refresh *)

\* Mutant: the handler emits before it updates.
SenseThenEmit(t) ==
    /\ At(t, "sense", IF op[t].job = "irq" THEN "emit" ELSE "build")
    /\ op' = [op EXCEPT ![t].val.level = input[op[t].e], ![t].val.born = edges]
    /\ UNCHANGED <<world, shared, events, snap, calls, states, late, crossed>>

\* The handler starts a debounce interval and reports the sensor as enabled.
Sense(t) ==
    LET irq == op[t].job = "irq"
    IN  /\ At(t, "sense", IF irq THEN "update" ELSE "build")
        /\ op' = [op EXCEPT ![t].val = [level |-> input[op[t].e], born |-> edges, enabled |-> TRUE]]
        /\ recent' = (recent \/ irq)
        /\ UNCHANGED <<input, irq_pending, edges, shared, events, snap, calls, states, late, crossed>>

\* refresh reports what cfg says, with no lock, when it builds the value.
Build(t) ==
    /\ At(t, "build", "update")
    /\ op' = [op EXCEPT ![t].val.enabled = cfg[op[t].e].enabled]
    /\ UNCHANGED <<world, shared, events, snap, calls, states, late, crossed>>

\* Mutant: the error code is taken for a level.
SenseErrorStored(t) ==
    /\ At(t, "sense", IF op[t].job = "irq" THEN "update" ELSE "build")
    /\ op' = [op EXCEPT ![t].val.level = 2]
    /\ UNCHANGED <<world, shared, events, snap, calls, states, late, crossed>>

\* gpiod_get_value or the I2C transfer fails: nothing else happens.
SenseFails(t) ==
    /\ pc[t] = "sense"
    /\ Return(t)
    /\ UNCHANGED <<world, shared, events, snap, calls, states, late, crossed>>

\* SH_IOC_FORCE_REFRESH, and the SHT20 work item.
Refresh(c, e) ==
    /\ Call(c, "sense", "refresh", e, NoOp.cfg)
    /\ UNCHANGED <<world, shared, events, snap, states, late>>

----------------------------------------------------------------------------
(* SH_IOC_SET_SENSOR_CFG: sh_pir_apply_cfg, and the like part of the others *)

SetCfg(c, e, k) ==
    /\ Call(c, "setcfg", "cfg", e, k)
    /\ UNCHANGED <<world, shared, events, snap, states, late>>

\* The configuration is written under hub->lock, in one section.
WriteCfg(c) ==
    /\ At(c, "setcfg", "copy")
    /\ lock = Free
    /\ cfg' = [cfg EXCEPT ![op[c].e] = op[c].cfg]
    /\ late' = IF op[c].e = Pir /\ cfg[Pir].enabled THEN 0 ELSE late
    /\ UNCHANGED <<world, value, lock, snapshot_seq, events, op, snap, calls, states, crossed>>

\* Mutant: the flag of the value is left as it was.
CopyFlagToo(c) ==
    /\ At(c, "copy", "update")
    /\ op' = [op EXCEPT ![c].val = value[op[c].e]]
    /\ UNCHANGED <<world, shared, events, snap, calls, states, late, crossed>>

\* The value is copied with no lock, its enabled flag set to the argument's.
CopyValue(c) ==
    LET o == op[c]
    IN  /\ At(c, "copy", "update")
        /\ op' = [op EXCEPT ![c].val =
                     [value[o.e] EXCEPT !.enabled = o.cfg.enabled]]
        /\ UNCHANGED <<world, shared, events, snap, calls, states, late, crossed>>

----------------------------------------------------------------------------
(* sh_update_endpoint_value, then sh_emit_event *)

Update(t) ==
    /\ At(t, "update", "commit")
    /\ lock = Free
    /\ lock' = t
    /\ value' = [value EXCEPT ![op[t].e] = op[t].val]
    /\ states' = Append(states, value')
    /\ UNCHANGED <<world, cfg, snapshot_seq, events, op, snap, calls, late, crossed>>

\* The number of the update is kept as history, for the event that follows.
Commit(t) ==
    /\ pc[t] = "commit"
    /\ snapshot_seq' = snapshot_seq + 1
    /\ lock' = Free
    /\ IF op[t].job = "refresh"
       THEN Return(t)
       ELSE /\ pc' = [pc EXCEPT ![t] = "emit"]
            /\ op' = [op EXCEPT ![t].upd = snapshot_seq + 1]
    /\ UNCHANGED <<world, cfg, value, events, snap, calls, states, late, crossed>>

\* The event carries a copy of the value; sh_push_event is one step here
\* (EventQueue has it in detail).
Emit(t) ==
    LET o == op[t]
    IN  /\ pc[t] = "emit"
        /\ events' = Append(events, [e |-> o.e, job |-> o.job, val |-> o.val, upd |-> o.upd])
        /\ late' = IF o.job = "irq" /\ ~cfg[Pir].enabled THEN late + 1 ELSE late
        /\ Return(t)
        /\ UNCHANGED <<world, shared, snap, calls, states, crossed>>

----------------------------------------------------------------------------
(* SH_IOC_GET_SNAPSHOT: sh_fill_snapshot *)

\* snap->seq is read before the mutex is taken.
GetSnapshot(c) ==
    /\ Call(c, "fill", "snapshot", Pir, NoOp.cfg)
    /\ snap' = [snap EXCEPT ![c] = [seq |-> snapshot_seq, items |-> <<>>]]
    /\ UNCHANGED <<world, shared, events, states, late>>

\* Mutant: the items are copied without the mutex.
FillUnlocked(c) ==
    /\ At(c, "fill", "items")
    /\ UNCHANGED <<world, shared, events, op, snap, calls, states, late, crossed>>

FillLock(c) ==
    /\ At(c, "fill", "items")
    /\ lock = Free
    /\ lock' = c
    /\ UNCHANGED <<world, cfg, value, snapshot_seq, events, op, snap, calls, states, late, crossed>>

CopyItem(c) ==
    LET n == Len(snap[c].items)
    IN  /\ pc[c] = "items" /\ n < Len(Endpoints)
        /\ snap' = [snap EXCEPT ![c].items = Append(@, value[Endpoints[n + 1]])]
        /\ UNCHANGED <<world, shared, events, pc, op, calls, states, late, crossed>>

FillDone(c) ==
    /\ pc[c] = "items" /\ Len(snap[c].items) = Len(Endpoints)
    /\ lock' = Free
    /\ Return(c)
    /\ UNCHANGED <<world, cfg, value, snapshot_seq, events, snap, calls, states, late, crossed>>

----------------------------------------------------------------------------

ThreadStep(t) ==
    \/ Sense(t) \/ Build(t) \/ Update(t) \/ Commit(t) \/ Emit(t)
    \/ t \in Callers /\ (WriteCfg(t) \/ CopyValue(t) \/ FillLock(t) \/ CopyItem(t) \/ FillDone(t))

Next ==
    \/ \E e \in Sensors : Edge(e)
    \/ DebounceElapses
    \/ IrqEnter
    \/ \E t \in Threads : ThreadStep(t) \/ SenseFails(t)
    \/ \E c \in Callers :
          \/ GetSnapshot(c)
          \/ \E e \in Sensors : Refresh(c, e) \/ \E k \in Cfgs : SetCfg(c, e, k)

Spec == Init /\ [][Next]_vars

----------------------------------------------------------------------------
(* Properties *)

\* A snapshot is the values of all endpoints at one instant, and the instant
\* is not before the update it names: nobody who is told "seq n" can be shown
\* anything older than update n, or half of a later one (sh_fill_snapshot
\* reads snapshot_seq outside the mutex and copies inside it).
SnapshotIsAState ==
    \A c \in Callers :
        Len(snap[c].items) = Len(Endpoints) =>
            \E k \in snap[c].seq + 1 .. Len(states) :
               \A i \in DOMAIN Endpoints : snap[c].items[i] = states[k][Endpoints[i]]

\* Every event follows the update it reports: whoever reads the event and then
\* takes a snapshot is given that update or a later one, and update n was of
\* this endpoint with this value (sh_update_endpoint_value, then sh_emit_event).
EventFollowsUpdate ==
    \A i \in DOMAIN events :
        LET ev == events[i]
        IN  /\ ev.upd \in 1 .. snapshot_seq
            /\ states[ev.upd + 1][ev.e] = ev.val

\* Disabling the PIR takes effect although its handler tests cfg.enabled with
\* no lock: at most the one handler already past the test still reports.
DisableStopsTriggers == late <= 1

\* What a snapshot says of whether a sensor is enabled is what its configuration
\* says, whenever nobody is at work on it, unless since the last SET_SENSOR_CFG
\* that had the endpoint for itself two contexts have used it at once: the flag
\* and cfg are written in different sections by every one of them.
FlagSaysConfig ==
    \A e \in Sensors : ~crossed[e] /\ ~InUse(e) => value[e].enabled = cfg[e].enabled

\* "Latest value of one sensor" (sensor_hub_ioctl.h, struct sh_sensor_value): a
\* reading is never replaced by one that was sensed before it, neither by
\* apply_cfg, which copies endpoint->value with no lock and writes the copy
\* back, nor by a refresh that is slower to store its sample than a later one.
ReadingsMoveForward ==
    [][\A e \in Sensors : value'[e].born >= value[e].born]_vars
=============================================================================
