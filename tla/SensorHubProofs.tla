-------------------------- MODULE SensorHubProofs ---------------------------
(***************************************************************************)
(* Theorems about the endpoints of the hub, for every number of endpoints, *)
(* of processes that call the driver, and every set of configurations.     *)
(***************************************************************************)
EXTENDS SensorHub, TLAPS

----------------------------------------------------------------------------
(* Type correctness *)

LEMMA Contexts ==
    /\ Irq \in Threads /\ Irq \notin Callers /\ Callers \subseteq Threads /\ Free \notin Threads
    /\ \A t \in Threads : t \in Callers \/ t = Irq
  BY ThreadAssumption DEF Threads

LEMMA Constants ==
    /\ Pir \in Sensors /\ MaxEdges \in Nat /\ Endpoints \in Seq(Sensors)
    /\ Len(Endpoints) \in Nat \ {0} /\ Cfgs \subseteq Config
    /\ NoOp \in Op /\ NoOp.cfg \in Config /\ NoOp.val \in Value
    /\ NoOp.job = "none" /\ NoOp.e = Pir
  <1>1. Pir \in Sensors /\ MaxEdges \in Nat /\ Endpoints \in Seq(Sensors) /\ Cfgs \subseteq Config
    BY EndpointAssumption, BoundAssumption, CfgAssumption
  <1>2. Len(Endpoints) \in Nat \ {0}
    <2>1. DOMAIN Endpoints # {}
      BY <1>1 DEF Sensors
    <2> QED
      BY <1>1, <2>1
  <1>3. [level |-> 0, enabled |-> TRUE, born |-> 0] \in Value
    BY <1>1 DEF Value, Level
  <1> QED
    BY <1>1, <1>2, <1>3 DEF NoOp, Op, Job, Config

\* One flag of a family of flags is set.
LEMMA FlagUpdate ==
    ASSUME NEW S, NEW f \in [S -> BOOLEAN], NEW s \in S, NEW b \in BOOLEAN
    PROVE  [f EXCEPT ![s] = b] \in [S -> BOOLEAN]
  OBVIOUS

\* A call starts with well-typed arguments.
LEMMA CallTypes ==
    ASSUME TypeOK, NEW c \in Callers, NEW first \in Pc, NEW job \in Job, NEW e \in Sensors,
           NEW k \in Config, Call(c, first, job, e, k)
    PROVE  /\ pc' \in [Threads -> Pc] /\ op' \in [Threads -> Op] /\ calls' \in Nat
           /\ crossed' \in [Sensors -> BOOLEAN]
  <1>1. [NoOp EXCEPT !.job = job, !.e = e, !.cfg = k] \in Op
    BY Constants DEF Op
  <1>2. InUse(e) \in BOOLEAN
    BY DEF InUse
  <1>3. PICK o \in Op : op' = [op EXCEPT ![c] = o]
    BY <1>1 DEF Call
  <1>4. crossed' \in [Sensors -> BOOLEAN]
    <2>1. crossed \in [Sensors -> BOOLEAN]
      BY DEF TypeOK
    <2>2. (InUse(e) \/ (crossed[e] /\ job # "cfg")) \in BOOLEAN
      BY <1>2
    <2>3. [crossed EXCEPT ![e] = InUse(e) \/ (crossed[e] /\ job # "cfg")] \in [Sensors -> BOOLEAN]
      BY <2>1, <2>2, FlagUpdate
    <2> QED
      BY <2>1, <2>3, Zenon DEF Call
  <1>5. pc' = [pc EXCEPT ![c] = first] /\ calls' = calls + 1
    BY DEF Call, At
  <1> QED
    BY <1>3, <1>4, <1>5, Contexts DEF TypeOK

\* Every step keeps the types.
LEMMA TypeStep == ASSUME TypeOK, [Next]_vars PROVE TypeOK'
  <1> USE Constants, Contexts DEF world, shared
  <1>1. ASSUME NEW e \in Sensors, Edge(e)
        PROVE  TypeOK'
    <2>1. input' \in [Sensors -> Level]
      <3>1. input \in [Sensors -> {0, 1}] /\ input' = [input EXCEPT ![e] = 1 - input[e]]
        BY <1>1 DEF Edge, TypeOK, Level
      <3>2. 1 - input[e] \in {0, 1}
        BY <3>1
      <3> QED
        BY <3>1, <3>2 DEF Level
    <2>3. edges' \in 0 .. MaxEdges
      BY <1>1 DEF Edge, TypeOK
    <2>2. irq_pending' \in BOOLEAN
      BY <1>1 DEF Edge, TypeOK
    <2> QED
      BY <1>1, <2>1, <2>2, <2>3 DEF Edge, TypeOK
  <1>2. CASE DebounceElapses
    BY <1>2 DEF DebounceElapses, TypeOK
  <1>3. CASE IrqEnter
    <2>1. [NoOp EXCEPT !.job = "irq", !.e = Pir] \in Op
      BY DEF Op, Job
    <2>2. InUse(Pir) \in BOOLEAN
      BY DEF InUse
    <2>3. crossed' \in [Sensors -> BOOLEAN]
      <3>1. crossed \in [Sensors -> BOOLEAN]
        BY DEF TypeOK
      <3>2. [crossed EXCEPT ![Pir] = crossed[Pir] \/ InUse(Pir)] \in [Sensors -> BOOLEAN]
        BY <2>2, <3>1, FlagUpdate
      <3> QED
        BY <1>3, <3>1, <3>2, Zenon DEF IrqEnter
    <2>4. pc' \in [Threads -> Pc] /\ op' \in [Threads -> Op]
      <3>1. PICK o \in Op : op' = op \/ op' = [op EXCEPT ![Irq] = o]
        BY <1>3, <2>1 DEF IrqEnter
      <3>2. pc' = pc \/ pc' = [pc EXCEPT ![Irq] = "sense"]
        BY <1>3 DEF IrqEnter
      <3> QED
        BY <3>1, <3>2 DEF TypeOK, Pc
    <2>5. irq_pending' \in BOOLEAN
      BY <1>3 DEF IrqEnter
    <2> QED
      BY <1>3, <2>3, <2>4, <2>5 DEF IrqEnter, TypeOK
  <1>4. ASSUME NEW t \in Threads, Sense(t)
        PROVE  TypeOK'
    <2>1. [level |-> input[op[t].e], born |-> edges, enabled |-> TRUE] \in Value
      BY DEF TypeOK, Op, Value
    <2>2. op' \in [Threads -> Op]
      BY <1>4, <2>1 DEF Sense, TypeOK, Op
    <2> QED
      BY <1>4, <2>2 DEF Sense, At, TypeOK, Pc
  <1>17. ASSUME NEW t \in Threads, Build(t)
         PROVE  TypeOK'
    <2>1. [op[t].val EXCEPT !.enabled = cfg[op[t].e].enabled] \in Value
      BY DEF TypeOK, Op, Value, Config
    <2>2. op' \in [Threads -> Op]
      BY <1>17, <2>1 DEF Build, TypeOK, Op
    <2> QED
      BY <1>17, <2>2 DEF Build, At, TypeOK, Pc
  <1>5. ASSUME NEW t \in Threads, SenseFails(t)
        PROVE  TypeOK'
    BY <1>5 DEF SenseFails, Return, TypeOK, Pc
  <1>6. ASSUME NEW c \in Callers, NEW e \in Sensors, Refresh(c, e)
        PROVE  TypeOK'
    <2>1. "sense" \in Pc /\ "refresh" \in Job
      BY DEF Pc, Job
    <2>2. /\ pc' \in [Threads -> Pc] /\ op' \in [Threads -> Op] /\ calls' \in Nat
          /\ crossed' \in [Sensors -> BOOLEAN]
      BY <1>6, <2>1, CallTypes DEF Refresh
    <2> QED
      BY <1>6, <2>2 DEF Refresh, TypeOK
  <1>7. ASSUME NEW c \in Callers, NEW e \in Sensors, NEW k \in Cfgs, SetCfg(c, e, k)
        PROVE  TypeOK'
    <2>1. "setcfg" \in Pc /\ "cfg" \in Job
      BY DEF Pc, Job
    <2>2. /\ pc' \in [Threads -> Pc] /\ op' \in [Threads -> Op] /\ calls' \in Nat
          /\ crossed' \in [Sensors -> BOOLEAN]
      BY <1>7, <2>1, CallTypes DEF SetCfg
    <2> QED
      BY <1>7, <2>2 DEF SetCfg, TypeOK
  <1>8. ASSUME NEW c \in Callers, WriteCfg(c)
        PROVE  TypeOK'
    <2>1. op[c].cfg \in Config
      BY DEF TypeOK, Op
    <2> QED
      BY <1>8, <2>1 DEF WriteCfg, At, TypeOK, Pc
  <1>9. ASSUME NEW c \in Callers, CopyValue(c)
        PROVE  TypeOK'
    <2>1. [value[op[c].e] EXCEPT !.enabled = op[c].cfg.enabled] \in Value
      BY DEF TypeOK, Op, Value, Config
    <2>2. op' \in [Threads -> Op]
      BY <1>9, <2>1 DEF CopyValue, TypeOK, Op
    <2> QED
      BY <1>9, <2>2 DEF CopyValue, At, TypeOK, Pc
  <1>10. ASSUME NEW t \in Threads, Update(t)
         PROVE  TypeOK'
    <2>1. op[t].val \in Value
      BY DEF TypeOK, Op
    <2>2. value' \in [Sensors -> Value]
      BY <1>10, <2>1 DEF Update, TypeOK
    <2>3. states' \in Seq([Sensors -> Value])
      BY <1>10, <2>2 DEF Update, TypeOK
    <2> QED
      BY <1>10, <2>2, <2>3 DEF Update, At, TypeOK, Pc
  <1>11. ASSUME NEW t \in Threads, Commit(t)
         PROVE  TypeOK'
    <2>1. snapshot_seq' \in Nat /\ snapshot_seq + 1 \in Nat
      BY <1>11 DEF Commit, TypeOK
    <2>2. op' \in [Threads -> Op]
      <3>1. CASE op' = [op EXCEPT ![t] = NoOp]
        BY <3>1 DEF TypeOK
      <3>2. CASE op' = [op EXCEPT ![t].upd = snapshot_seq + 1]
        BY <2>1, <3>2 DEF TypeOK, Op
      <3> QED
        BY <1>11, <3>1, <3>2 DEF Commit, Return
    <2>3. pc' \in [Threads -> Pc]
      BY <1>11 DEF Commit, Return, TypeOK, Pc
    <2> QED
      BY <1>11, <2>1, <2>2, <2>3 DEF Commit, TypeOK
  <1>12. ASSUME NEW t \in Threads, Emit(t)
         PROVE  TypeOK'
    <2>1. [e |-> op[t].e, job |-> op[t].job, val |-> op[t].val, upd |-> op[t].upd]
             \in [e : Sensors, job : Job, val : Value, upd : Nat]
      BY DEF TypeOK, Op
    <2>2. events' \in Seq([e : Sensors, job : Job, val : Value, upd : Nat])
      BY <1>12, <2>1 DEF Emit, TypeOK
    <2>3. pc' \in [Threads -> Pc] /\ op' \in [Threads -> Op] /\ late' \in Nat
      BY <1>12 DEF Emit, Return, TypeOK, Pc
    <2> QED
      BY <1>12, <2>2, <2>3 DEF Emit, TypeOK
  <1>13. ASSUME NEW c \in Callers, GetSnapshot(c)
         PROVE  TypeOK'
    <2>1. "fill" \in Pc /\ "snapshot" \in Job
      BY DEF Pc, Job
    <2>2. /\ pc' \in [Threads -> Pc] /\ op' \in [Threads -> Op] /\ calls' \in Nat
          /\ crossed' \in [Sensors -> BOOLEAN]
      BY <1>13, <2>1, CallTypes DEF GetSnapshot
    <2>3. [seq |-> snapshot_seq, items |-> <<>>] \in [seq : Nat, items : Seq(Value)]
      BY DEF TypeOK
    <2>4. /\ snap' \in [Callers -> [seq : Nat, items : Seq(Value)]]
          /\ \A b \in Callers : Len(snap'[b].items) <= Len(Endpoints)
      BY <1>13, <2>3 DEF GetSnapshot, TypeOK
    <2> QED
      BY <1>13, <2>2, <2>4 DEF GetSnapshot, TypeOK
  <1>14. ASSUME NEW c \in Callers, FillLock(c) \/ FillDone(c)
         PROVE  TypeOK'
    BY <1>14 DEF FillLock, FillDone, At, Return, TypeOK, Pc
  <1>15. ASSUME NEW c \in Callers, CopyItem(c)
         PROVE  TypeOK'
    <2> DEFINE n == Len(snap[c].items)
    <2>1. snap[c].items \in Seq(Value) /\ n \in Nat /\ n < Len(Endpoints)
      BY <1>15 DEF CopyItem, TypeOK
    <2>2. value[Endpoints[n + 1]] \in Value
      <3>1. Endpoints[n + 1] \in Sensors
        BY <2>1
      <3> QED
        BY <3>1 DEF TypeOK
    <2>3. /\ Append(snap[c].items, value[Endpoints[n + 1]]) \in Seq(Value)
          /\ Len(Append(snap[c].items, value[Endpoints[n + 1]])) = n + 1
      BY <2>1, <2>2
    <2>4. PICK it \in Seq(Value) : /\ Len(it) = n + 1 /\ snap' = [snap EXCEPT ![c].items = it]
      BY <1>15, <2>3 DEF CopyItem
    <2>5. /\ snap' \in [Callers -> [seq : Nat, items : Seq(Value)]]
          /\ \A b \in Callers : Len(snap'[b].items) <= Len(Endpoints)
      <3>1. snap \in [Callers -> [seq : Nat, items : Seq(Value)]]
        BY DEF TypeOK
      <3>2. PICK r \in [seq : Nat, items : Seq(Value)] : r.items = it /\ snap' = [snap EXCEPT ![c] = r]
        <4>1. [snap[c] EXCEPT !.items = it] \in [seq : Nat, items : Seq(Value)]
          BY <3>1
        <4>2. [snap[c] EXCEPT !.items = it].items = it
          BY <3>1
        <4> QED
          BY <2>4, <4>1, <4>2
      <3> QED
        <4>1. snap' \in [Callers -> [seq : Nat, items : Seq(Value)]]
          BY <3>1, <3>2
        <4>2. ASSUME NEW b \in Callers
              PROVE  Len(snap'[b].items) <= Len(Endpoints)
          <5>1. CASE b = c
            BY <2>1, <2>4, <3>1, <3>2, <5>1
          <5>2. CASE b # c
            BY <3>1, <3>2, <5>2 DEF TypeOK
          <5> QED
            BY <5>1, <5>2
        <4> QED
          BY <4>1, <4>2
    <2> QED
      BY <1>15, <2>5 DEF CopyItem, TypeOK
  <1>16. CASE UNCHANGED vars
    BY <1>16 DEF vars, TypeOK
  <1> QED
    BY <1>1, <1>2, <1>3, <1>4, <1>5, <1>6, <1>7, <1>8, <1>9, <1>10, <1>11, <1>12, <1>13,
       <1>14, <1>15, <1>16, <1>17 DEF Next, ThreadStep

\* Every variable keeps its type: an error code is never stored for a level,
\* and no snapshot has more items than there are endpoints.
THEOREM TypeCorrect == Spec => []TypeOK
  <1>1. Init => TypeOK
    <2> SUFFICES ASSUME Init PROVE TypeOK
      OBVIOUS
    <2>1. value \in [Sensors -> Value]
      BY Constants DEF Init, Value, Level
    <2>2. <<value>> \in Seq([Sensors -> Value])
      BY <2>1
    <2>3. /\ snap \in [Callers -> [seq : Nat, items : Seq(Value)]]
          /\ \A c \in Callers : Len(snap[c].items) <= Len(Endpoints)
      BY Constants DEF Init
    <2>4. states \in Seq([Sensors -> Value]) /\ events = <<>> /\ edges = 0
      BY <2>2 DEF Init
    <2>5. <<>> \in Seq([e : Sensors, job : Job, val : Value, upd : Nat]) /\ 0 \in 0 .. MaxEdges
      BY Constants
    <2>6. /\ cfg \in [Sensors -> Config] /\ op \in [Threads -> Op] /\ pc \in [Threads -> Pc]
          /\ crossed \in [Sensors -> BOOLEAN]
      BY Constants DEF Init, Pc
    <2> QED
      BY <2>1, <2>3, <2>4, <2>5, <2>6 DEF Init, TypeOK
  <1>2. TypeOK /\ [Next]_vars => TypeOK'
    BY TypeStep
  <1> QED
    BY <1>1, <1>2, PTL DEF Spec

----------------------------------------------------------------------------
(* The parts of the inductive invariant *)

\* Inside a section of hub->lock its holder is who the lock says.
LockHeld == \A t \in Threads : pc[t] \in {"commit", "items"} => lock = t

\* The history ends with the current values, and snapshot_seq is behind it by
\* one update exactly between the store and the increment.
HistoryIsCurrent == states # <<>> /\ states[Len(states)] = value

SeqLags ==
    /\ (\E t \in Threads : pc[t] = "commit") => Len(states) = snapshot_seq + 2
    /\ (\A t \in Threads : pc[t] # "commit") => Len(states) = snapshot_seq + 1

\* A snapshot names an update that has been made, and while it is being
\* filled its items are the current values.
SnapNotAhead == \A c \in Callers : snap[c].seq <= snapshot_seq

FillIsCurrent ==
    \A c \in Callers :
        /\ pc[c] = "fill" => snap[c].items = <<>>
        /\ pc[c] = "items" => \A i \in 1 .. Len(snap[c].items) :
                                 snap[c].items[i] = value[Endpoints[i]]

SnapInv == LockHeld /\ HistoryIsCurrent /\ SeqLags /\ SnapNotAhead /\ FillIsCurrent
           /\ SnapshotIsAState

\* A context that has stored its value, and one that is about to report it.
StoredIsValue == \A t \in Threads : pc[t] = "commit" => value[op[t].e] = op[t].val

ReportIsStored ==
    \A t \in Threads : pc[t] = "emit" => /\ op[t].upd \in 1 .. snapshot_seq
                                         /\ states[op[t].upd + 1][op[t].e] = op[t].val

EventInv == StoredIsValue /\ ReportIsStored /\ EventFollowsUpdate

\* Which call a context is in, by where it is.
JobAtPc ==
    /\ \A t \in Threads :
          /\ pc[t] = "idle" => op[t].job = "none"
          /\ pc[t] = "sense" => op[t].job \in {"irq", "refresh"}
          /\ pc[t] = "build" => op[t].job = "refresh"
          /\ pc[t] \in {"setcfg", "copy"} => op[t].job = "cfg"
          /\ pc[t] \in {"update", "commit"} => op[t].job \in {"irq", "refresh", "cfg"}
          /\ pc[t] = "emit" => op[t].job \in {"irq", "cfg"}
          /\ pc[t] \in {"fill", "items"} => op[t].job = "snapshot"
    /\ op[Irq].job = "irq" => op[Irq].e = Pir
    /\ op[Irq].job \in {"none", "irq"}
    /\ \A c \in Callers : op[c].job # "irq"

\* A handler reports to a disabled PIR once at most before it is enabled again.
LateInv == late <= 1 /\ (late = 1 /\ ~cfg[Pir].enabled => pc[Irq] = "idle")

Uses(t, e) == op[t].job \in {"irq", "refresh", "cfg"} /\ op[t].e = e

\* Whoever uses an uncrossed endpoint has it for itself.
SoleUser ==
    \A e \in Sensors : ~crossed[e] =>
        \A t, u \in Threads : Uses(t, e) /\ Uses(u, e) => t = u

\* What the sole user of an endpoint knows of cfg and of the flag.
Knows(t, e) ==
    /\ pc[t] \in {"sense", "build", "commit", "emit"} => value[e].enabled = cfg[e].enabled
    /\ pc[t] = "sense" /\ op[t].job = "irq" => cfg[e].enabled
    /\ pc[t] = "copy" => cfg[e] = op[t].cfg
    /\ pc[t] = "update" => op[t].val.enabled = cfg[e].enabled

UserKnows == \A e \in Sensors : ~crossed[e] => \A t \in Threads : Uses(t, e) => Knows(t, e)

FlagInv == SoleUser /\ UserKnows /\ FlagSaysConfig

----------------------------------------------------------------------------
(* Where a context is and what it does *)

\* The steps that only one context takes, and what they do to its place and its
\* call: the others stay where they are.
LEMMA JobStep == ASSUME TypeOK, JobAtPc, [Next]_vars PROVE JobAtPc'
  <1> USE Contexts, Constants DEF At, Return
  <1>t. pc \in [Threads -> Pc] /\ op \in [Threads -> Op]
    BY DEF TypeOK
  <1>s. ASSUME UNCHANGED <<pc, op>>
        PROVE  JobAtPc'
    BY <1>s DEF JobAtPc
  <1>c. ASSUME NEW c \in Callers, NEW first \in {"sense", "setcfg", "fill"},
               NEW job \in {"refresh", "cfg", "snapshot"}, NEW e \in Sensors, NEW k \in Config,
               Call(c, first, job, e, k),
               <<first, job>> \in {<<"sense", "refresh">>, <<"setcfg", "cfg">>, <<"fill", "snapshot">>}
        PROVE  JobAtPc'
    <2>1. pc' = [pc EXCEPT ![c] = first] /\ \E o \in Op : op' = [op EXCEPT ![c] = o] /\ o.job = job
      <3>1. [NoOp EXCEPT !.job = job, !.e = e, !.cfg = k] \in Op
        BY DEF Op, Job
      <3>2. [NoOp EXCEPT !.job = job, !.e = e, !.cfg = k].job = job
        BY DEF NoOp
      <3> QED
        BY <1>c, <3>1, <3>2 DEF Call
    <2> QED
      BY <1>c, <1>t, <2>1 DEF JobAtPc
  <1>1. CASE (\E e \in Sensors : Edge(e)) \/ DebounceElapses
    BY <1>1, <1>s DEF Edge, DebounceElapses
  <1>2. CASE IrqEnter
    <2>1. CASE UNCHANGED <<pc, op>>
      BY <1>s, <2>1
    <2>2. CASE /\ pc' = [pc EXCEPT ![Irq] = "sense"]
               /\ op' = [op EXCEPT ![Irq] = [NoOp EXCEPT !.job = "irq", !.e = Pir]]
      <3>1. /\ [NoOp EXCEPT !.job = "irq", !.e = Pir].job = "irq"
            /\ [NoOp EXCEPT !.job = "irq", !.e = Pir].e = Pir
        BY DEF NoOp
      <3> QED
        BY <1>t, <2>2, <3>1 DEF JobAtPc
    <2> QED
      BY <1>2, <2>1, <2>2 DEF IrqEnter
  <1>3. ASSUME NEW t \in Threads, Sense(t)
        PROVE  JobAtPc'
    BY <1>3, <1>t DEF Sense, JobAtPc, Op
  <1>15. ASSUME NEW t \in Threads, Build(t)
         PROVE  JobAtPc'
    BY <1>15, <1>t DEF Build, JobAtPc, Op
  <1>4. ASSUME NEW t \in Threads, SenseFails(t)
        PROVE  JobAtPc'
    BY <1>4, <1>t DEF SenseFails, JobAtPc
  <1>5. ASSUME NEW t \in Threads, Update(t)
        PROVE  JobAtPc'
    BY <1>5, <1>t DEF Update, JobAtPc
  <1>6. ASSUME NEW t \in Threads, Commit(t)
        PROVE  JobAtPc'
    <2>1. CASE op[t].job = "refresh"
      BY <1>6, <1>t, <2>1 DEF Commit, JobAtPc
    <2>2. CASE op[t].job # "refresh"
      <3>1. /\ pc[t] = "commit" /\ pc' = [pc EXCEPT ![t] = "emit"]
            /\ op' = [op EXCEPT ![t].upd = snapshot_seq + 1]
        BY <1>6, <2>2 DEF Commit
      <3> QED
        BY <1>t, <2>2, <3>1 DEF JobAtPc, Op
    <2> QED
      BY <2>1, <2>2
  <1>7. ASSUME NEW t \in Threads, Emit(t)
        PROVE  JobAtPc'
    BY <1>7, <1>t DEF Emit, JobAtPc
  <1>8. ASSUME NEW c \in Callers, WriteCfg(c)
        PROVE  JobAtPc'
    BY <1>8, <1>t DEF WriteCfg, JobAtPc
  <1>9. ASSUME NEW c \in Callers, CopyValue(c)
        PROVE  JobAtPc'
    BY <1>9, <1>t DEF CopyValue, JobAtPc, Op
  <1>10. ASSUME NEW c \in Callers, FillLock(c) \/ CopyItem(c) \/ FillDone(c)
         PROVE  JobAtPc'
    BY <1>10, <1>t DEF FillLock, CopyItem, FillDone, JobAtPc
  <1>11. ASSUME NEW c \in Callers, GetSnapshot(c)
         PROVE  JobAtPc'
    BY <1>11, <1>c DEF GetSnapshot
  <1>12. ASSUME NEW c \in Callers, NEW e \in Sensors, Refresh(c, e)
         PROVE  JobAtPc'
    BY <1>12, <1>c DEF Refresh
  <1>13. ASSUME NEW c \in Callers, NEW e \in Sensors, NEW k \in Cfgs, SetCfg(c, e, k)
         PROVE  JobAtPc'
    BY <1>13, <1>c DEF SetCfg
  <1>14. CASE UNCHANGED vars
    BY <1>14, <1>s DEF vars
  <1> QED
    BY <1>1, <1>2, <1>3, <1>4, <1>5, <1>6, <1>7, <1>8, <1>9, <1>10, <1>11, <1>12, <1>13, <1>14,
       <1>15 DEF Next, ThreadStep

LEMMA JobCorrect == Spec => []JobAtPc
  <1>1. Init => JobAtPc
    BY Contexts, Constants DEF Init, JobAtPc
  <1>2. TypeOK /\ JobAtPc /\ [Next]_vars => JobAtPc'
    BY JobStep
  <1> QED
    BY <1>1, <1>2, TypeCorrect, PTL DEF Spec

----------------------------------------------------------------------------
(* Disabling the PIR *)

LEMMA LateStep == ASSUME TypeOK, JobAtPc, LateInv, [Next]_vars PROVE LateInv'
  <1> USE Contexts, Constants DEF At, Return, shared
  <1>t. /\ pc \in [Threads -> Pc] /\ op \in [Threads -> Op] /\ late \in Nat
        /\ cfg \in [Sensors -> Config]
    BY DEF TypeOK
  <1>s. ASSUME UNCHANGED <<cfg, late>>, pc'[Irq] # "idle" => pc[Irq] # "idle"
        PROVE  LateInv'
    BY <1>s DEF LateInv
  <1>c. ASSUME NEW c \in Callers, UNCHANGED <<cfg, late>>, \E l : pc' = [pc EXCEPT ![c] = l]
        PROVE  LateInv'
    <2>1. pc'[Irq] = pc[Irq]
      BY <1>c, <1>t
    <2> QED
      BY <1>c, <1>s, <2>1
  <1>1. CASE (\E e \in Sensors : Edge(e)) \/ DebounceElapses
    BY <1>1, <1>s DEF Edge, DebounceElapses
  <1>2. CASE IrqEnter
    <2>1. UNCHANGED <<cfg, late>> /\ (HandlerWanted \/ UNCHANGED pc)
      BY <1>2 DEF IrqEnter
    <2> QED
      BY <2>1, <1>s DEF HandlerWanted, LateInv
  <1>3. ASSUME NEW t \in Threads, Sense(t) \/ Build(t) \/ SenseFails(t) \/ Update(t) \/ Commit(t)
        PROVE  LateInv'
    <2>1. UNCHANGED <<cfg, late>> /\ pc[t] # "idle" /\ \E l : pc' = [pc EXCEPT ![t] = l]
      BY <1>3 DEF Sense, Build, SenseFails, Update, Commit
    <2> QED
      BY <1>s, <1>t, <2>1
  <1>4. ASSUME NEW t \in Threads, Emit(t)
        PROVE  LateInv'
    <2>1. CASE op[t].job = "irq" /\ ~cfg[Pir].enabled
      <3>1. t = Irq /\ pc[Irq] = "emit" /\ pc'[Irq] = "idle"
        BY <1>4, <1>t, <2>1 DEF Emit, JobAtPc
      <3>2. late = 0 /\ late' = late + 1
        BY <1>4, <1>t, <2>1, <3>1 DEF Emit, LateInv
      <3> QED
        BY <3>1, <3>2 DEF LateInv
    <2>2. CASE ~(op[t].job = "irq" /\ ~cfg[Pir].enabled)
      <3>1. UNCHANGED <<cfg, late>> /\ pc' = [pc EXCEPT ![t] = "idle"]
        BY <1>4, <2>2 DEF Emit
      <3> QED
        BY <1>s, <1>t, <3>1
    <2> QED
      BY <2>1, <2>2
  <1>5. ASSUME NEW c \in Callers, WriteCfg(c)
        PROVE  LateInv'
    <2>1. /\ pc'[Irq] = pc[Irq] /\ cfg' = [cfg EXCEPT ![op[c].e] = op[c].cfg]
          /\ late' = IF op[c].e = Pir /\ cfg[Pir].enabled THEN 0 ELSE late
      BY <1>5, <1>t DEF WriteCfg
    <2>2. CASE op[c].e = Pir /\ cfg[Pir].enabled
      BY <2>1, <2>2 DEF LateInv
    <2>3. CASE op[c].e = Pir /\ ~cfg[Pir].enabled
      BY <1>t, <2>1, <2>3 DEF LateInv
    <2>4. CASE op[c].e # Pir
      BY <1>t, <2>1, <2>4 DEF LateInv
    <2> QED
      BY <2>2, <2>3, <2>4
  <1>6. ASSUME NEW c \in Callers, CopyValue(c) \/ FillLock(c) \/ FillDone(c)
        PROVE  LateInv'
    <2>1. UNCHANGED <<cfg, late>> /\ \E l : pc' = [pc EXCEPT ![c] = l]
      BY <1>6 DEF CopyValue, FillLock, FillDone
    <2> QED
      BY <1>c, <2>1
  <1>7. ASSUME NEW c \in Callers, CopyItem(c)
        PROVE  LateInv'
    BY <1>7, <1>s DEF CopyItem
  <1>8. ASSUME NEW c \in Callers,
               \/ GetSnapshot(c)
               \/ \E e \in Sensors : Refresh(c, e) \/ \E k \in Cfgs : SetCfg(c, e, k)
        PROVE  LateInv'
    <2>1. UNCHANGED <<cfg, late>> /\ \E l : pc' = [pc EXCEPT ![c] = l]
      BY <1>8 DEF GetSnapshot, Refresh, SetCfg, Call
    <2> QED
      BY <1>c, <2>1
  <1>9. CASE UNCHANGED vars
    BY <1>9, <1>s DEF vars
  <1> QED
    BY <1>1, <1>2, <1>3, <1>4, <1>5, <1>6, <1>7, <1>8, <1>9 DEF Next, ThreadStep

\* After SET_SENSOR_CFG has disabled the PIR, one interrupt that had passed the
\* unlocked test of cfg.enabled may still report, and no second one, however
\* many calls enable and disable it (sh_pir_irq_thread, sh_pir_apply_cfg).
THEOREM DisableCorrect == Spec => []DisableStopsTriggers
  <1>1. Init => LateInv
    BY DEF Init, LateInv
  <1>2. TypeOK /\ JobAtPc /\ LateInv /\ [Next]_vars => LateInv'
    BY LateStep
  <1>3. LateInv => DisableStopsTriggers
    BY DEF LateInv, DisableStopsTriggers
  <1> QED
    BY <1>1, <1>2, <1>3, TypeCorrect, JobCorrect, PTL DEF Spec

----------------------------------------------------------------------------
(* Snapshots and events *)

\* A step of context t that leaves alone what snapshots and events are made of,
\* and neither comes from a section of hub->lock nor enters or prepares one.
Aside(t) ==
    /\ UNCHANGED <<lock, value, snapshot_seq, states, snap, events>>
    /\ pc[t] \notin {"commit", "items", "fill"}
    /\ \E l \in {"idle", "sense", "build", "setcfg", "copy", "update"} : pc' = [pc EXCEPT ![t] = l]
    /\ \A u \in Threads : u # t => op'[u] = op[u]

\* Most steps are of that kind.
LEMMA AsideSteps ==
    ASSUME TypeOK, NEW t \in Threads,
           \/ Sense(t) \/ Build(t) \/ SenseFails(t)
           \/ t \in Callers /\ \/ WriteCfg(t) \/ CopyValue(t)
                               \/ \E e \in Sensors : \/ Refresh(t, e)
                                                     \/ \E k \in Cfgs : SetCfg(t, e, k)
    PROVE  Aside(t)
  <1> USE DEF Aside, At, Return, Call, shared
  <1>t. pc \in [Threads -> Pc] /\ op \in [Threads -> Op]
    BY DEF TypeOK
  <1>1. CASE Sense(t)
    BY <1>1, <1>t DEF Sense
  <1>7. CASE Build(t)
    BY <1>7, <1>t DEF Build
  <1>2. CASE SenseFails(t)
    BY <1>2, <1>t DEF SenseFails
  <1>3. CASE WriteCfg(t)
    BY <1>3, <1>t DEF WriteCfg
  <1>4. CASE CopyValue(t)
    BY <1>4, <1>t DEF CopyValue
  <1>5. ASSUME NEW e \in Sensors, Refresh(t, e)
        PROVE  Aside(t)
    BY <1>5, <1>t DEF Refresh
  <1>6. ASSUME NEW e \in Sensors, NEW k \in Cfgs, SetCfg(t, e, k)
        PROVE  Aside(t)
    BY <1>6, <1>t DEF SetCfg
  <1> QED
    BY <1>1, <1>2, <1>3, <1>4, <1>5, <1>6, <1>7

\* The interrupt and the world outside do not disturb them either.
LEMMA OutsideSteps ==
    ASSUME TypeOK, (\E e \in Sensors : Edge(e)) \/ DebounceElapses \/ IrqEnter \/ UNCHANGED vars
    PROVE  \/ UNCHANGED <<lock, value, snapshot_seq, states, snap, events, pc, op>>
           \/ Aside(Irq)
  <1>t. pc \in [Threads -> Pc] /\ op \in [Threads -> Op]
    BY DEF TypeOK
  <1>1. CASE (\E e \in Sensors : Edge(e)) \/ DebounceElapses \/ UNCHANGED vars
    BY <1>1 DEF Edge, DebounceElapses, vars, shared
  <1>2. CASE IrqEnter
    <2>1. UNCHANGED <<lock, value, snapshot_seq, states, snap, events>> /\ pc[Irq] = "idle"
      BY <1>2 DEF IrqEnter, shared
    <2>2. \/ UNCHANGED <<pc, op>>
          \/ /\ pc' = [pc EXCEPT ![Irq] = "sense"]
             /\ \A u \in Threads : u # Irq => op'[u] = op[u]
      BY <1>2, <1>t DEF IrqEnter
    <2> QED
      BY <2>1, <2>2 DEF Aside
  <1> QED
    BY <1>1, <1>2

\* The state that a full snapshot shows stays in the history.
LEMMA HistoryGrows ==
    ASSUME TypeOK, SnapshotIsAState, UNCHANGED snap, NEW v, states' = Append(states, v)
    PROVE  SnapshotIsAState'
  <1>1. states \in Seq([Sensors -> Value])
    BY DEF TypeOK
  <1>2. Len(states') = Len(states) + 1 /\ \A k \in 1 .. Len(states) : states'[k] = states[k]
    BY <1>1
  <1>3. Len(states) \in Nat /\ \A c \in Callers : snap[c].seq \in Nat
    BY <1>1 DEF TypeOK
  <1> SUFFICES ASSUME NEW c \in Callers, Len(snap[c].items) = Len(Endpoints)
               PROVE  \E k \in snap[c].seq + 1 .. Len(states') :
                         \A i \in DOMAIN Endpoints : snap[c].items[i] = states'[k][Endpoints[i]]
    BY DEF SnapshotIsAState
  <1>4. PICK k \in snap[c].seq + 1 .. Len(states) :
               \A i \in DOMAIN Endpoints : snap[c].items[i] = states[k][Endpoints[i]]
    BY DEF SnapshotIsAState
  <1>5. k \in snap[c].seq + 1 .. Len(states') /\ states'[k] = states[k]
    BY <1>2, <1>3
  <1> QED
    BY <1>4, <1>5

\* Every step keeps snapshots states.
LEMMA SnapStep == ASSUME TypeOK, SnapInv, [Next]_vars PROVE SnapInv'
  <1> USE Contexts, Constants DEF At, Return, shared
  <1>t. /\ pc \in [Threads -> Pc] /\ states \in Seq([Sensors -> Value]) /\ snapshot_seq \in Nat
        /\ snap \in [Callers -> [seq : Nat, items : Seq(Value)]] /\ value \in [Sensors -> Value]
    BY DEF TypeOK
  <1>i. /\ LockHeld /\ HistoryIsCurrent /\ SeqLags /\ SnapNotAhead /\ FillIsCurrent
        /\ SnapshotIsAState
    BY DEF SnapInv
  <1>a. ASSUME NEW t \in Threads, Aside(t)
        PROVE  SnapInv'
    <2>1. \A u \in Threads : u # t => pc'[u] = pc[u]
      BY <1>a, <1>t DEF Aside
    <2>2. pc'[t] \notin {"commit", "items", "fill"} /\ pc[t] \notin {"commit", "items", "fill"}
      BY <1>a, <1>t DEF Aside
    <2>3. LockHeld' /\ HistoryIsCurrent' /\ SnapNotAhead' /\ SnapshotIsAState'
      BY <1>a, <1>i, <2>1, <2>2 DEF Aside, LockHeld, HistoryIsCurrent, SnapNotAhead, SnapshotIsAState
    <2>4. SeqLags'
      BY <1>a, <1>i, <2>1, <2>2 DEF Aside, SeqLags
    <2>5. FillIsCurrent'
      BY <1>a, <1>i, <2>1, <2>2 DEF Aside, FillIsCurrent
    <2> QED
      BY <2>3, <2>4, <2>5 DEF SnapInv
  <1>s. ASSUME UNCHANGED <<lock, value, snapshot_seq, states, snap, pc>>
        PROVE  SnapInv'
    BY <1>s, <1>i DEF SnapInv, LockHeld, HistoryIsCurrent, SeqLags, SnapNotAhead, FillIsCurrent,
                      SnapshotIsAState
  <1>1. ASSUME NEW t \in Threads, Update(t)
        PROVE  SnapInv'
    <2>1. /\ lock = Free /\ lock' = t /\ pc' = [pc EXCEPT ![t] = "commit"]
          /\ states' = Append(states, value') /\ UNCHANGED <<snapshot_seq, snap>>
      BY <1>1 DEF Update
    <2>2. \A u \in Threads : pc[u] \notin {"commit", "items"}
      BY <1>i, <2>1 DEF LockHeld
    <2>3. \A u \in Threads : pc'[u] = IF u = t THEN "commit" ELSE pc[u]
      BY <1>t, <2>1
    <2>4. LockHeld' /\ SnapNotAhead' /\ FillIsCurrent'
      BY <1>i, <2>1, <2>2, <2>3 DEF LockHeld, SnapNotAhead, FillIsCurrent
    <2>5. Len(states') = Len(states) + 1 /\ states'[Len(states) + 1] = value' /\ states' # <<>>
      <3>1. value' \in [Sensors -> Value]
        BY <1>1, TypeStep DEF Next, ThreadStep, TypeOK
      <3>2. Len(states') = Len(states) + 1 /\ states'[Len(states) + 1] = value'
        BY <1>t, <2>1, <3>1
      <3>3. Len(states) \in Nat /\ Len(<<>>) = 0
        BY <1>t
      <3> QED
        BY <3>2, <3>3
    <2>6. SeqLags' /\ HistoryIsCurrent'
      <3>1. Len(states) = snapshot_seq + 1
        BY <1>i, <2>2 DEF SeqLags
      <3> QED
        BY <1>t, <2>1, <2>3, <2>5, <3>1 DEF SeqLags, HistoryIsCurrent
    <2>7. SnapshotIsAState'
      BY <1>i, <2>1, HistoryGrows
    <2> QED
      BY <2>4, <2>6, <2>7 DEF SnapInv
  <1>2. ASSUME NEW t \in Threads, Commit(t)
        PROVE  SnapInv'
    <2>1. /\ pc[t] = "commit" /\ snapshot_seq' = snapshot_seq + 1
          /\ UNCHANGED <<value, states, snap>>
          /\ \E l \in {"idle", "emit"} : pc' = [pc EXCEPT ![t] = l]
      BY <1>2 DEF Commit
    <2>2. /\ pc'[t] \in {"idle", "emit"}
          /\ \A u \in Threads : u # t => pc'[u] = pc[u] /\ pc[u] \notin {"commit", "items"}
      BY <1>i, <1>t, <2>1 DEF LockHeld
    <2>3. LockHeld' /\ FillIsCurrent'
      BY <1>i, <2>1, <2>2 DEF LockHeld, FillIsCurrent
    <2>4. SeqLags'
      <3>1. Len(states) = snapshot_seq + 2
        BY <1>i, <2>1 DEF SeqLags
      <3> QED
        BY <1>t, <2>1, <2>2, <3>1 DEF SeqLags
    <2>5. HistoryIsCurrent' /\ SnapNotAhead' /\ SnapshotIsAState'
      BY <1>i, <1>t, <2>1 DEF HistoryIsCurrent, SnapNotAhead, SnapshotIsAState
    <2> QED
      BY <2>3, <2>4, <2>5 DEF SnapInv
  <1>3. ASSUME NEW t \in Threads, Emit(t)
        PROVE  SnapInv'
    <2>1. /\ pc[t] = "emit" /\ pc' = [pc EXCEPT ![t] = "idle"]
          /\ UNCHANGED <<lock, value, snapshot_seq, states, snap>>
      BY <1>3 DEF Emit
    <2>2. \A u \in Threads : pc'[u] = IF u = t THEN "idle" ELSE pc[u]
      BY <1>t, <2>1
    <2>3. LockHeld' /\ HistoryIsCurrent' /\ SnapNotAhead' /\ SnapshotIsAState' /\ FillIsCurrent'
      BY <1>i, <2>1, <2>2 DEF LockHeld, HistoryIsCurrent, SnapNotAhead, SnapshotIsAState, FillIsCurrent
    <2>4. SeqLags'
      BY <1>i, <2>1, <2>2 DEF SeqLags
    <2> QED
      BY <2>3, <2>4 DEF SnapInv
  <1>4. ASSUME NEW c \in Callers, GetSnapshot(c)
        PROVE  SnapInv'
    <2>1. /\ pc[c] = "idle" /\ pc' = [pc EXCEPT ![c] = "fill"]
          /\ snap' = [snap EXCEPT ![c] = [seq |-> snapshot_seq, items |-> <<>>]]
          /\ UNCHANGED <<lock, value, snapshot_seq, states>>
      BY <1>4 DEF GetSnapshot, Call
    <2>2. \A u \in Threads : pc'[u] = IF u = c THEN "fill" ELSE pc[u]
      BY <1>t, <2>1
    <2>3. /\ snap'[c].seq = snapshot_seq /\ snap'[c].items = <<>>
          /\ \A b \in Callers : b # c => snap'[b] = snap[b]
      BY <1>t, <2>1
    <2>4. LockHeld' /\ HistoryIsCurrent'
      BY <1>i, <2>1, <2>2 DEF LockHeld, HistoryIsCurrent
    <2>5. SeqLags'
      BY <1>i, <2>1, <2>2 DEF SeqLags
    <2>6. SnapNotAhead' /\ FillIsCurrent'
      BY <1>i, <1>t, <2>1, <2>2, <2>3 DEF SnapNotAhead, FillIsCurrent
    <2>7. SnapshotIsAState'
      <3>1. Len(snap'[c].items) # Len(Endpoints)
        BY <2>3
      <3> QED
        BY <1>i, <2>1, <2>3, <3>1 DEF SnapshotIsAState
    <2> QED
      BY <2>4, <2>5, <2>6, <2>7 DEF SnapInv
  <1>5. ASSUME NEW c \in Callers, FillLock(c)
        PROVE  SnapInv'
    <2>1. /\ pc[c] = "fill" /\ pc' = [pc EXCEPT ![c] = "items"] /\ lock = Free /\ lock' = c
          /\ UNCHANGED <<value, snapshot_seq, states, snap>>
      BY <1>5 DEF FillLock
    <2>2. \A u \in Threads : pc'[u] = IF u = c THEN "items" ELSE pc[u]
      BY <1>t, <2>1
    <2>3. LockHeld' /\ HistoryIsCurrent' /\ SnapNotAhead' /\ SnapshotIsAState'
      BY <1>i, <2>1, <2>2 DEF LockHeld, HistoryIsCurrent, SnapNotAhead, SnapshotIsAState
    <2>4. SeqLags'
      BY <1>i, <2>1, <2>2 DEF SeqLags
    <2>5. FillIsCurrent'
      BY <1>i, <2>1, <2>2 DEF FillIsCurrent
    <2> QED
      BY <2>3, <2>4, <2>5 DEF SnapInv
  <1>6. ASSUME NEW c \in Callers, CopyItem(c)
        PROVE  SnapInv'
    <2> DEFINE n == Len(snap[c].items)
               it == Append(snap[c].items, value[Endpoints[n + 1]])
    <2>1. /\ pc[c] = "items" /\ n < Len(Endpoints)
          /\ snap' = [snap EXCEPT ![c].items = it]
          /\ UNCHANGED <<pc, lock, value, snapshot_seq, states>>
      BY <1>6 DEF CopyItem
    <2>2. /\ snap'[c].seq = snap[c].seq /\ snap'[c].items = it
          /\ \A b \in Callers : b # c => snap'[b] = snap[b]
      BY <1>t, <2>1
    <2>3. snap[c].items \in Seq(Value) /\ n \in Nat
      BY <1>t
    <2>4. Len(it) = n + 1 /\ \A i \in 1 .. n + 1 : it[i] = value[Endpoints[i]]
      <3>1. \A i \in 1 .. n : snap[c].items[i] = value[Endpoints[i]]
        BY <1>i, <2>1 DEF FillIsCurrent
      <3> QED
        BY <2>3, <3>1
    <2>5. LockHeld' /\ HistoryIsCurrent' /\ SeqLags' /\ SnapNotAhead'
      BY <1>i, <2>1, <2>2 DEF LockHeld, HistoryIsCurrent, SeqLags, SnapNotAhead
    <2>6. FillIsCurrent'
      BY <1>i, <2>1, <2>2, <2>4 DEF FillIsCurrent
    <2>7. SnapshotIsAState'
      <3> SUFFICES ASSUME NEW b \in Callers, Len(snap'[b].items) = Len(Endpoints)
                   PROVE  \E k \in snap'[b].seq + 1 .. Len(states) :
                             \A i \in DOMAIN Endpoints : snap'[b].items[i] = states[k][Endpoints[i]]
        BY <2>1 DEF SnapshotIsAState
      <3>1. CASE b # c
        BY <1>i, <2>2, <3>1 DEF SnapshotIsAState
      <3>2. CASE b = c
        <4>1. Len(states) \in snap[c].seq + 1 .. Len(states)
          <5>1. Len(states) \in Nat /\ Len(states) >= snapshot_seq + 1
            BY <1>i, <1>t DEF SeqLags
          <5>2. snap[c].seq <= snapshot_seq /\ snap[c].seq \in Nat
            BY <1>i, <1>t DEF SnapNotAhead
          <5> QED
            BY <1>t, <5>1, <5>2
        <4>2. states[Len(states)] = value
          BY <1>i DEF HistoryIsCurrent
        <4>3. \A i \in DOMAIN Endpoints : it[i] = value[Endpoints[i]]
          BY <2>2, <2>4, <3>2
        <4>4. \A i \in DOMAIN Endpoints : snap'[b].items[i] = states[Len(states)][Endpoints[i]]
          BY <2>2, <3>2, <4>2, <4>3
        <4>5. Len(states) \in snap'[b].seq + 1 .. Len(states)
          BY <2>2, <3>2, <4>1
        <4> QED
          BY <4>4, <4>5
      <3> QED
        BY <3>1, <3>2
    <2> QED
      BY <2>5, <2>6, <2>7 DEF SnapInv
  <1>7. ASSUME NEW c \in Callers, FillDone(c)
        PROVE  SnapInv'
    <2>1. /\ pc[c] = "items" /\ pc' = [pc EXCEPT ![c] = "idle"]
          /\ UNCHANGED <<value, snapshot_seq, states, snap>>
      BY <1>7 DEF FillDone
    <2>2. /\ \A u \in Threads : pc'[u] = IF u = c THEN "idle" ELSE pc[u]
          /\ \A u \in Threads : u # c => pc[u] \notin {"commit", "items"}
      BY <1>i, <1>t, <2>1 DEF LockHeld
    <2>3. LockHeld' /\ HistoryIsCurrent' /\ SnapNotAhead' /\ SnapshotIsAState' /\ FillIsCurrent'
      BY <1>i, <2>1, <2>2 DEF LockHeld, HistoryIsCurrent, SnapNotAhead, SnapshotIsAState, FillIsCurrent
    <2>4. SeqLags'
      BY <1>i, <2>1, <2>2 DEF SeqLags
    <2> QED
      BY <2>3, <2>4 DEF SnapInv
  <1>8. CASE (\E e \in Sensors : Edge(e)) \/ DebounceElapses \/ IrqEnter \/ UNCHANGED vars
    BY <1>8, <1>a, <1>s, OutsideSteps
  <1> QED
    BY <1>1, <1>2, <1>3, <1>4, <1>5, <1>6, <1>7, <1>8, <1>a, AsideSteps DEF Next, ThreadStep

LEMMA SnapInvCorrect == Spec => []SnapInv
  <1>1. Init => SnapInv
    <2> SUFFICES ASSUME Init PROVE SnapInv
      OBVIOUS
    <2>1. LockHeld /\ SnapNotAhead /\ FillIsCurrent
      <3>1. \A t \in Threads : pc[t] = "idle"
        BY DEF Init
      <3>2. \A c \in Callers : pc[c] = "idle" /\ snap[c].seq = 0 /\ snapshot_seq = 0
        BY <3>1, Contexts DEF Init
      <3> QED
        BY <3>1, <3>2 DEF LockHeld, SnapNotAhead, FillIsCurrent
    <2>2. HistoryIsCurrent /\ SeqLags
      BY DEF Init, HistoryIsCurrent, SeqLags
    <2>3. SnapshotIsAState
      BY Constants DEF Init, SnapshotIsAState
    <2> QED
      BY <2>1, <2>2, <2>3 DEF SnapInv
  <1>2. TypeOK /\ SnapInv /\ [Next]_vars => SnapInv'
    BY SnapStep
  <1> QED
    BY <1>1, <1>2, TypeCorrect, PTL DEF Spec

\* A snapshot shows the values of all endpoints at one instant, no older than
\* the update it names, for any number of endpoints and of contexts that update
\* them (sh_fill_snapshot reads snapshot_seq before it takes hub->lock).
THEOREM SnapshotCorrect == Spec => []SnapshotIsAState
  <1>1. SnapInv => SnapshotIsAState
    BY DEF SnapInv
  <1> QED
    BY <1>1, SnapInvCorrect, PTL

----------------------------------------------------------------------------
(* Events *)

\* Every step keeps events behind the updates they report.
LEMMA EventStep == ASSUME TypeOK, SnapInv, EventInv, [Next]_vars PROVE EventInv'
  <1> USE Contexts, Constants DEF At, Return, shared
  <1>t. /\ pc \in [Threads -> Pc] /\ states \in Seq([Sensors -> Value]) /\ snapshot_seq \in Nat
        /\ op \in [Threads -> Op] /\ value \in [Sensors -> Value]
        /\ events \in Seq([e : Sensors, job : Job, val : Value, upd : Nat])
    BY DEF TypeOK
  <1>i. /\ LockHeld /\ HistoryIsCurrent /\ SeqLags
        /\ StoredIsValue /\ ReportIsStored /\ EventFollowsUpdate
    BY DEF SnapInv, EventInv
  <1>l. Len(states) \in Nat /\ snapshot_seq + 1 <= Len(states)
    BY <1>i, <1>t DEF SeqLags
  <1>a. ASSUME NEW t \in Threads, Aside(t)
        PROVE  EventInv'
    <2>1. \A u \in Threads : u # t => pc'[u] = pc[u] /\ op'[u] = op[u]
      BY <1>a, <1>t DEF Aside
    <2>2. pc'[t] \notin {"commit", "emit"}
      BY <1>a, <1>t DEF Aside
    <2> QED
      BY <1>a, <1>i, <2>1, <2>2 DEF Aside, EventInv, StoredIsValue, ReportIsStored, EventFollowsUpdate
  <1>s. ASSUME UNCHANGED <<value, snapshot_seq, states, events, pc, op>>
        PROVE  EventInv'
    BY <1>s, <1>i DEF EventInv, StoredIsValue, ReportIsStored, EventFollowsUpdate
  <1>f. ASSUME NEW c \in Callers, UNCHANGED <<value, snapshot_seq, states, events>>,
               \A u \in Threads : u # c => pc'[u] = pc[u] /\ op'[u] = op[u],
               pc'[c] \notin {"commit", "emit"}
        PROVE  EventInv'
    BY <1>f, <1>i DEF EventInv, StoredIsValue, ReportIsStored, EventFollowsUpdate
  <1>1. ASSUME NEW t \in Threads, Update(t)
        PROVE  EventInv'
    <2>1. /\ lock = Free /\ pc' = [pc EXCEPT ![t] = "commit"]
          /\ value' = [value EXCEPT ![op[t].e] = op[t].val]
          /\ states' = Append(states, value') /\ UNCHANGED <<snapshot_seq, events, op>>
      BY <1>1 DEF Update
    <2>2. \A u \in Threads : pc[u] # "commit" /\ pc'[u] = IF u = t THEN "commit" ELSE pc[u]
      BY <1>i, <1>t, <2>1 DEF LockHeld
    <2>3. value' \in [Sensors -> Value]
      BY <1>1, TypeStep DEF Next, ThreadStep, TypeOK
    <2>4. \A k \in 1 .. Len(states) : states'[k] = states[k]
      BY <1>t, <2>1, <2>3
    <2>5. StoredIsValue'
      <3>1. op[t].e \in Sensors
        BY <1>t DEF Op
      <3>2. value'[op[t].e] = op[t].val
        BY <1>t, <2>1, <3>1
      <3> QED
        BY <2>1, <2>2, <3>2 DEF StoredIsValue
    <2>6. ReportIsStored'
      <3> SUFFICES ASSUME NEW u \in Threads, pc'[u] = "emit"
                   PROVE  /\ op[u].upd \in 1 .. snapshot_seq
                          /\ states'[op[u].upd + 1][op[u].e] = op[u].val
        BY <2>1 DEF ReportIsStored
      <3>1. /\ op[u].upd \in 1 .. snapshot_seq
            /\ states[op[u].upd + 1][op[u].e] = op[u].val
        BY <1>i, <2>2 DEF ReportIsStored
      <3>2. op[u].upd + 1 \in 1 .. Len(states)
        BY <1>l, <1>t, <3>1
      <3> QED
        BY <2>4, <3>1, <3>2
    <2>7. EventFollowsUpdate'
      <3> SUFFICES ASSUME NEW i \in DOMAIN events
                   PROVE  /\ events[i].upd \in 1 .. snapshot_seq
                          /\ states'[events[i].upd + 1][events[i].e] = events[i].val
        BY <2>1 DEF EventFollowsUpdate
      <3>1. /\ events[i].upd \in 1 .. snapshot_seq
            /\ states[events[i].upd + 1][events[i].e] = events[i].val
        BY <1>i DEF EventFollowsUpdate
      <3>2. events[i].upd + 1 \in 1 .. Len(states)
        BY <1>l, <1>t, <3>1
      <3> QED
        BY <2>4, <3>1, <3>2
    <2> QED
      BY <2>5, <2>6, <2>7 DEF EventInv
  <1>2. ASSUME NEW t \in Threads, Commit(t)
        PROVE  EventInv'
    <2>1. /\ pc[t] = "commit" /\ snapshot_seq' = snapshot_seq + 1
          /\ UNCHANGED <<value, states, events>>
      BY <1>2 DEF Commit
    <2>2. \/ pc' = [pc EXCEPT ![t] = "idle"]
          \/ pc' = [pc EXCEPT ![t] = "emit"] /\ op' = [op EXCEPT ![t].upd = snapshot_seq + 1]
      BY <1>2 DEF Commit
    <2>3. \A u \in Threads : u # t => pc'[u] = pc[u] /\ op'[u] = op[u] /\ pc[u] # "commit"
      BY <1>2, <1>i, <1>t, <2>1 DEF LockHeld, Commit
    <2>4. pc'[t] # "commit"
      BY <1>t, <2>2
    <2>5. StoredIsValue'
      BY <2>3, <2>4 DEF StoredIsValue
    <2>6. ReportIsStored'
      <3> SUFFICES ASSUME NEW u \in Threads, pc'[u] = "emit"
                   PROVE  /\ op'[u].upd \in 1 .. snapshot_seq + 1
                          /\ states[op'[u].upd + 1][op'[u].e] = op'[u].val
        BY <2>1 DEF ReportIsStored
      <3>1. CASE u # t
        BY <1>i, <1>t, <2>3, <3>1 DEF ReportIsStored
      <3>2. CASE u = t
        <4>1. op' = [op EXCEPT ![t].upd = snapshot_seq + 1]
          BY <1>t, <2>2, <3>2
        <4>2. /\ op'[t].upd = snapshot_seq + 1 /\ op'[t].e = op[t].e
              /\ op'[t].val = op[t].val
          BY <1>t, <4>1 DEF Op
        <4>3. Len(states) = snapshot_seq + 2
          BY <1>i, <2>1 DEF SeqLags
        <4>4. states[snapshot_seq + 2] = value /\ value[op[t].e] = op[t].val
          BY <1>i, <2>1, <4>3 DEF HistoryIsCurrent, StoredIsValue
        <4>5. snapshot_seq + 1 + 1 = snapshot_seq + 2 /\ snapshot_seq + 1 \in 1 .. snapshot_seq + 1
          BY <1>t
        <4> QED
          BY <3>2, <4>2, <4>4, <4>5
      <3> QED
        BY <3>1, <3>2
    <2>7. EventFollowsUpdate'
      BY <1>i, <1>t, <2>1 DEF EventFollowsUpdate
    <2> QED
      BY <2>5, <2>6, <2>7 DEF EventInv
  <1>3. ASSUME NEW t \in Threads, Emit(t)
        PROVE  EventInv'
    <2> DEFINE ev == [e |-> op[t].e, job |-> op[t].job, val |-> op[t].val, upd |-> op[t].upd]
    <2>1. /\ pc[t] = "emit" /\ pc' = [pc EXCEPT ![t] = "idle"] /\ op' = [op EXCEPT ![t] = NoOp]
          /\ events' = Append(events, ev) /\ UNCHANGED <<value, snapshot_seq, states>>
      BY <1>3 DEF Emit
    <2>2. /\ \A u \in Threads : u # t => pc'[u] = pc[u] /\ op'[u] = op[u]
          /\ pc'[t] = "idle"
      BY <1>t, <2>1
    <2>3. StoredIsValue' /\ ReportIsStored'
      BY <1>i, <2>1, <2>2 DEF StoredIsValue, ReportIsStored
    <2>4. EventFollowsUpdate'
      <3>1. /\ ev.upd \in 1 .. snapshot_seq /\ states[ev.upd + 1][ev.e] = ev.val
        BY <1>i, <2>1 DEF ReportIsStored
      <3>2. ev \in [e : Sensors, job : Job, val : Value, upd : Nat]
        BY <1>t DEF Op
      <3>3. \A i \in DOMAIN events' : (i \in DOMAIN events /\ events'[i] = events[i]) \/ events'[i] = ev
        BY <1>t, <2>1, <3>2
      <3> QED
        BY <1>i, <2>1, <3>1, <3>3 DEF EventFollowsUpdate
    <2> QED
      BY <2>3, <2>4 DEF EventInv
  <1>4. ASSUME NEW c \in Callers, GetSnapshot(c)
        PROVE  EventInv'
    <2>1. /\ UNCHANGED <<value, snapshot_seq, states, events>> /\ pc'[c] = "fill"
          /\ \A u \in Threads : u # c => pc'[u] = pc[u] /\ op'[u] = op[u]
      BY <1>4, <1>t DEF GetSnapshot, Call
    <2> QED
      BY <1>f, <2>1
  <1>5. ASSUME NEW c \in Callers, FillLock(c)
        PROVE  EventInv'
    <2>1. /\ UNCHANGED <<value, snapshot_seq, states, events>> /\ pc'[c] = "items"
          /\ \A u \in Threads : u # c => pc'[u] = pc[u] /\ op'[u] = op[u]
      BY <1>5, <1>t DEF FillLock
    <2> QED
      BY <1>f, <2>1
  <1>6. ASSUME NEW c \in Callers, CopyItem(c)
        PROVE  EventInv'
    BY <1>6, <1>s DEF CopyItem
  <1>7. ASSUME NEW c \in Callers, FillDone(c)
        PROVE  EventInv'
    <2>1. /\ UNCHANGED <<value, snapshot_seq, states, events>> /\ pc'[c] = "idle"
          /\ \A u \in Threads : u # c => pc'[u] = pc[u] /\ op'[u] = op[u]
      BY <1>7, <1>t DEF FillDone
    <2> QED
      BY <1>f, <2>1
  <1>8. CASE (\E e \in Sensors : Edge(e)) \/ DebounceElapses \/ IrqEnter \/ UNCHANGED vars
    BY <1>8, <1>a, <1>s, OutsideSteps
  <1> QED
    BY <1>1, <1>2, <1>3, <1>4, <1>5, <1>6, <1>7, <1>8, <1>a, AsideSteps DEF Next, ThreadStep

\* Whoever is shown an event and then takes a snapshot is shown that update or a
\* later one: sh_update_endpoint_value has counted the update before
\* sh_emit_event pushes the event, and the event's value is the one it stored.
THEOREM EventsCorrect == Spec => []EventFollowsUpdate
  <1>1. Init => EventInv
    BY DEF Init, EventInv, StoredIsValue, ReportIsStored, EventFollowsUpdate
  <1>2. TypeOK /\ SnapInv /\ EventInv /\ [Next]_vars => EventInv'
    BY EventStep
  <1>3. EventInv => EventFollowsUpdate
    BY DEF EventInv
  <1> QED
    BY <1>1, <1>2, <1>3, TypeCorrect, SnapInvCorrect, PTL DEF Spec

----------------------------------------------------------------------------
(* The enabled flag of the value and the configuration *)

LEMMA InUseMeans == \A e \in Sensors : InUse(e) <=> \E t \in Threads : Uses(t, e)
  BY DEF InUse, Uses

\* A step of a context that uses no endpoint, before or after.
LEMMA FlagUnused ==
    ASSUME FlagInv, NEW t \in Threads, UNCHANGED <<cfg, value, crossed>>,
           \A u \in Threads : u # t => pc'[u] = pc[u] /\ op'[u] = op[u],
           \A e \in Sensors : ~Uses(t, e) /\ ~Uses(t, e)'
    PROVE  FlagInv'
  <1>1. \A u \in Threads, e \in Sensors : Uses(u, e)' <=> Uses(u, e)
    BY DEF Uses
  <1>2. \A u \in Threads, e \in Sensors : Uses(u, e) /\ Knows(u, e) => Knows(u, e)'
    BY DEF Knows
  <1>3. SoleUser'
    BY <1>1 DEF FlagInv, SoleUser
  <1>4. UserKnows'
    BY <1>1, <1>2 DEF FlagInv, UserKnows
  <1>5. FlagSaysConfig'
    <2>1. \A e \in Sensors : InUse(e)' <=> InUse(e)
      <3>1. \A e \in Sensors : InUse(e)' <=> \E u \in Threads : Uses(u, e)'
        BY DEF InUse, Uses
      <3> QED
        BY <1>1, <3>1, InUseMeans
    <2> QED
      BY <2>1 DEF FlagInv, FlagSaysConfig
  <1> QED
    BY <1>3, <1>4, <1>5 DEF FlagInv

\* A step of a context that uses endpoint e, and touches no other: it is enough
\* to know what it does when it has the endpoint for itself.
LEMMA FlagWork ==
    ASSUME FlagInv, NEW t \in Threads, NEW e \in Sensors, Uses(t, e), UNCHANGED crossed,
           \A u \in Threads : u # t => pc'[u] = pc[u] /\ op'[u] = op[u],
           \A d \in Sensors : d # e => cfg'[d] = cfg[d] /\ value'[d] = value[d] /\ ~Uses(t, d)',
           ~crossed[e] /\ Uses(t, e)' => Knows(t, e)',
           ~crossed[e] /\ ~Uses(t, e)' => value'[e].enabled = cfg'[e].enabled
    PROVE  FlagInv'
  <1>1. \A u \in Threads, d \in Sensors : Uses(u, d)' => Uses(u, d)
    BY DEF Uses
  <1>2. \A u \in Threads, d \in Sensors : u # t /\ d # e /\ Knows(u, d) => Knows(u, d)'
    BY DEF Knows
  <1>3. SoleUser'
    BY <1>1 DEF FlagInv, SoleUser
  <1>4. UserKnows'
    <2> SUFFICES ASSUME NEW d \in Sensors, ~crossed[d], NEW u \in Threads, Uses(u, d)'
                 PROVE  Knows(u, d)'
      BY DEF UserKnows
    <2>1. CASE u = t
      <3>1. d = e
        BY <2>1
      <3> QED
        BY <2>1, <3>1
    <2>2. CASE u # t
      <3>1. Uses(u, d) /\ Knows(u, d)
        BY <1>1 DEF FlagInv, UserKnows
      <3>2. d # e
        BY <2>2, <3>1 DEF FlagInv, SoleUser
      <3> QED
        BY <1>2, <2>2, <3>1, <3>2
    <2> QED
      BY <2>1, <2>2
  <1>5. FlagSaysConfig'
    <2>1. \A d \in Sensors : InUse(d)' <=> \E u \in Threads : Uses(u, d)'
      BY DEF InUse, Uses
    <2> SUFFICES ASSUME NEW d \in Sensors, ~crossed[d], \A u \in Threads : ~Uses(u, d)'
                 PROVE  value'[d].enabled = cfg'[d].enabled
      BY <2>1 DEF FlagSaysConfig
    <2>2. CASE d = e
      BY <2>2
    <2>3. CASE d # e
      <3>1. ~Uses(t, d)
        BY <2>3 DEF Uses
      <3>2. \A u \in Threads : ~Uses(u, d)
        BY <3>1 DEF Uses
      <3>3. value[d].enabled = cfg[d].enabled
        BY <3>2, InUseMeans DEF FlagInv, FlagSaysConfig
      <3> QED
        BY <2>3, <3>3
    <2> QED
      BY <2>2, <2>3
  <1> QED
    BY <1>3, <1>4, <1>5 DEF FlagInv

\* A context begins to use endpoint e: unless another one does, or the endpoint
\* has been crossed and this is not a SET_SENSOR_CFG, it finds the flag and cfg
\* in agreement.
LEMMA FlagBegin ==
    ASSUME TypeOK, FlagInv, NEW t \in Threads, NEW e \in Sensors, UNCHANGED <<cfg, value>>,
           \A u \in Threads : u # t => pc'[u] = pc[u] /\ op'[u] = op[u],
           \A d \in Sensors : ~Uses(t, d), \A d \in Sensors : Uses(t, d)' => d = e, Uses(t, e)',
           \A d \in Sensors : d # e => (crossed'[d] <=> crossed[d]),
           ~crossed'[e] => ~InUse(e) /\ (~crossed[e] \/ pc'[t] = "setcfg"),
           ~crossed'[e] /\ ~crossed[e] => (value[e].enabled = cfg[e].enabled => Knows(t, e)'),
           pc'[t] = "setcfg" => Knows(t, e)'
    PROVE  FlagInv'
  <1>1. \A u \in Threads, d \in Sensors : u # t => (Uses(u, d)' <=> Uses(u, d))
    BY DEF Uses
  <1>2. \A u \in Threads, d \in Sensors : u # t /\ Knows(u, d) => Knows(u, d)'
    BY DEF Knows
  <1>3. ASSUME ~crossed'[e]
        PROVE  (\A u \in Threads : ~Uses(u, e)) /\ Knows(t, e)'
    <2>1. \A u \in Threads : ~Uses(u, e)
      BY <1>3, InUseMeans
    <2>2. CASE ~crossed[e]
      <3>1. value[e].enabled = cfg[e].enabled
        BY <1>3, <2>2 DEF FlagInv, FlagSaysConfig
      <3> QED
        BY <1>3, <2>1, <2>2, <3>1
    <2>3. CASE crossed[e]
      BY <1>3, <2>1, <2>3
    <2> QED
      BY <2>2, <2>3
  <1>4. SoleUser'
    BY <1>1, <1>3 DEF FlagInv, SoleUser
  <1>5. UserKnows'
    <2> SUFFICES ASSUME NEW d \in Sensors, ~crossed'[d], NEW u \in Threads, Uses(u, d)'
                 PROVE  Knows(u, d)'
      BY DEF UserKnows
    <2>1. CASE u = t
      BY <1>3, <2>1
    <2>2. CASE u # t
      <3>1. Uses(u, d)
        BY <1>1, <2>2
      <3>2. d # e
        BY <1>3, <3>1
      <3> QED
        BY <1>2, <2>2, <3>1, <3>2 DEF FlagInv, UserKnows
    <2> QED
      BY <2>1, <2>2
  <1>6. FlagSaysConfig'
    <2>1. \A d \in Sensors : InUse(d)' <=> \E u \in Threads : Uses(u, d)'
      BY DEF InUse, Uses
    <2> SUFFICES ASSUME NEW d \in Sensors, ~crossed'[d], \A u \in Threads : ~Uses(u, d)'
                 PROVE  value[d].enabled = cfg[d].enabled
      BY <2>1 DEF FlagSaysConfig
    <2>2. d # e
      OBVIOUS
    <2>3. \A u \in Threads : ~Uses(u, d)
      BY <1>1
    <2> QED
      BY <2>2, <2>3, InUseMeans DEF FlagInv, FlagSaysConfig
  <1> QED
    BY <1>4, <1>5, <1>6 DEF FlagInv

\* Every step keeps what the users of uncrossed endpoints know.
LEMMA FlagStep == ASSUME TypeOK, JobAtPc, FlagInv, [Next]_vars PROVE FlagInv'
  <1> USE Contexts, Constants DEF At, Return, shared
  <1>t. /\ pc \in [Threads -> Pc] /\ op \in [Threads -> Op] /\ crossed \in [Sensors -> BOOLEAN]
        /\ cfg \in [Sensors -> Config] /\ value \in [Sensors -> Value]
    BY DEF TypeOK
  <1>s. ASSUME UNCHANGED <<cfg, value, crossed, pc, op>>
        PROVE  FlagInv'
    <2>1. SoleUser'
      BY <1>s, Zenon DEF FlagInv, SoleUser, Uses
    <2>2. UserKnows'
      BY <1>s, Zenon DEF FlagInv, UserKnows, Knows, Uses
    <2>3. FlagSaysConfig'
      BY <1>s, Zenon DEF FlagInv, FlagSaysConfig, InUse
    <2> QED
      BY <2>1, <2>2, <2>3 DEF FlagInv
  <1>e. \A t \in Threads : op[t].e \in Sensors
    BY <1>t DEF Op
  <1>k. \A e \in Sensors, t \in Threads : ~crossed[e] /\ Uses(t, e) => Knows(t, e)
    BY DEF FlagInv, UserKnows
  <1>c. ASSUME NEW c \in Callers, NEW first \in {"sense", "setcfg"}, NEW job \in {"refresh", "cfg"},
               NEW e \in Sensors, NEW k \in Config, Call(c, first, job, e, k),
               first = "setcfg" <=> job = "cfg", UNCHANGED <<cfg, value>>
        PROVE  FlagInv'
    <2> DEFINE o == [NoOp EXCEPT !.job = job, !.e = e, !.cfg = k]
    <2>1. o \in Op /\ o.job = job /\ o.e = e
      BY DEF Op, Job, NoOp
    <2>2. /\ pc[c] = "idle" /\ pc' = [pc EXCEPT ![c] = first] /\ op' = [op EXCEPT ![c] = o]
      BY <1>c DEF Call
    <2>3. /\ \A u \in Threads : u # c => pc'[u] = pc[u] /\ op'[u] = op[u]
          /\ pc'[c] = first /\ op'[c] = o
      BY <1>t, <2>1, <2>2
    <2>4. \A d \in Sensors : ~Uses(c, d)
      BY <2>2 DEF JobAtPc, Uses
    <2>5. Uses(c, e)' /\ \A d \in Sensors : Uses(c, d)' => d = e
      BY <2>1, <2>3 DEF Uses
    <2>6. crossed' = [crossed EXCEPT ![e] = InUse(e) \/ (crossed[e] /\ job # "cfg")]
      BY <1>c, Zenon DEF Call
    <2>7. /\ \A d \in Sensors : d # e => (crossed'[d] <=> crossed[d])
          /\ crossed'[e] <=> (InUse(e) \/ (crossed[e] /\ job # "cfg"))
      BY <1>t, <2>6, Zenon
    <2>8. ~crossed'[e] => ~InUse(e) /\ (~crossed[e] \/ pc'[c] = "setcfg")
      BY <1>c, <2>3, <2>7
    <2>9. (value[e].enabled = cfg[e].enabled) \/ pc'[c] = "setcfg" => Knows(c, e)'
      BY <1>c, <2>1, <2>3 DEF Knows
    <2> QED
      BY <1>c, <2>3, <2>4, <2>5, <2>7, <2>8, <2>9, FlagBegin
  <1>1. CASE (\E e \in Sensors : Edge(e)) \/ DebounceElapses \/ UNCHANGED vars
    BY <1>1, <1>s DEF Edge, DebounceElapses, vars
  <1>2. CASE IrqEnter
    <2>1. CASE HandlerWanted
      <3>t. PICK t \in Threads : t = Irq
        OBVIOUS
      <3>e. PICK e \in Sensors : e = Pir
        OBVIOUS
      <3> DEFINE o == [NoOp EXCEPT !.job = "irq", !.e = Pir]
      <3>1. o \in Op /\ o.job = "irq" /\ o.e = Pir
        BY DEF Op, Job, NoOp
      <3>2. /\ pc[t] = "idle" /\ pc' = [pc EXCEPT ![t] = "sense"] /\ op' = [op EXCEPT ![t] = o]
            /\ UNCHANGED <<cfg, value>> /\ cfg[e].enabled
        BY <3>t, <3>e, <1>2, <2>1 DEF IrqEnter, HandlerWanted
      <3>3. /\ \A u \in Threads : u # t => pc'[u] = pc[u] /\ op'[u] = op[u]
            /\ pc'[t] = "sense" /\ op'[t] = o
        BY <3>t, <3>e, <1>t, <3>1, <3>2
      <3>4. \A d \in Sensors : ~Uses(t, d)
        BY <3>t, <3>e, <3>2 DEF JobAtPc, Uses
      <3>5. Uses(t, e)' /\ \A d \in Sensors : Uses(t, d)' => d = e
        BY <3>t, <3>e, <3>1, <3>3 DEF Uses
      <3>6. crossed' = [crossed EXCEPT ![e] = crossed[e] \/ InUse(e)]
        BY <3>t, <3>e, <1>2, <2>1, Zenon DEF IrqEnter
      <3>7. /\ \A d \in Sensors : d # e => (crossed'[d] <=> crossed[d])
            /\ crossed'[e] <=> crossed[e] \/ InUse(e)
        BY <3>t, <3>e, <1>t, <3>6, Zenon
      <3>8. (value[e].enabled = cfg[e].enabled) => Knows(t, e)'
        BY <3>t, <3>e, <3>1, <3>2, <3>3 DEF Knows
      <3>9. pc'[t] # "setcfg"
        BY <3>t, <3>e, <3>3
      <3>10. ~crossed'[e] => ~InUse(e) /\ (~crossed[e] \/ pc'[t] = "setcfg")
        BY <3>7
      <3>11. UNCHANGED <<cfg, value>>
        BY <3>2
      <3>12. /\ \A u \in Threads : u # t => pc'[u] = pc[u] /\ op'[u] = op[u]
             /\ \A d \in Sensors : d # e => (crossed'[d] <=> crossed[d])
             /\ pc'[t] = "setcfg" => Knows(t, e)'
        BY <3>3, <3>7, <3>9
      <3> QED
        BY <3>4, <3>5, <3>8, <3>10, <3>11, <3>12, FlagBegin
    <2>2. CASE ~HandlerWanted
      BY <1>2, <1>s, <2>2 DEF IrqEnter
    <2> QED
      BY <2>1, <2>2
  <1>3. ASSUME NEW t \in Threads, Sense(t)
        PROVE  FlagInv'
    <2>e. PICK e \in Sensors : e = op[t].e
      BY <1>e
    <2>1. Uses(t, e) /\ pc[t] = "sense" /\ op[t].job \in {"irq", "refresh"}
      BY <2>e, <1>3 DEF Sense, JobAtPc, Uses
    <2>2. /\ UNCHANGED <<cfg, value, crossed>>
          /\ pc' = [pc EXCEPT ![t] = IF op[t].job = "irq" THEN "update" ELSE "build"]
          /\ op' = [op EXCEPT ![t].val = [level |-> input[e], born |-> edges, enabled |-> TRUE]]
      BY <2>e, <1>3 DEF Sense
    <2>3. /\ \A u \in Threads : u # t => pc'[u] = pc[u] /\ op'[u] = op[u]
          /\ pc'[t] = (IF op[t].job = "irq" THEN "update" ELSE "build")
          /\ op'[t].e = e /\ op'[t].job = op[t].job /\ op'[t].val.enabled
      BY <2>e, <1>t, <2>2 DEF Op
    <2>4. ~crossed[e] => Knows(t, e)
      BY <2>e, <1>k, <2>1
    <2>5. ~crossed[e] => Knows(t, e)'
      <3>1. cfg[e].enabled \in BOOLEAN /\ op'[t].val.enabled \in BOOLEAN
        <4>1. op'[t].val.enabled = TRUE
          BY <2>e, <1>t, <2>2 DEF Op
        <4> QED
          BY <4>1, <2>e, <1>k, <1>t DEF Config
      <3>2. ~crossed[e] /\ op[t].job = "irq" => op'[t].val.enabled = cfg[e].enabled
        BY <2>e, <2>1, <2>3, <2>4, <3>1 DEF Knows
      <3>3. ~crossed[e] => value'[e].enabled = cfg'[e].enabled
        BY <2>1, <2>2, <2>4 DEF Knows
      <3>4. CASE op[t].job = "irq"
        <4>1. pc'[t] = "update" /\ UNCHANGED cfg
          BY <2>2, <2>3, <3>4
        <4> QED
          BY <3>2, <3>4, <4>1 DEF Knows
      <3>5. CASE op[t].job # "irq"
        <4>1. pc'[t] = "build"
          BY <2>3, <3>5
        <4> QED
          BY <3>3, <4>1 DEF Knows
      <3> QED
        BY <3>4, <3>5
    <2>6. Uses(t, e)' /\ \A d \in Sensors : d # e => ~Uses(t, d)'
      BY <2>e, <2>1, <2>3 DEF Uses
    <2> QED
      BY <2>e, <1>k, <2>1, <2>2, <2>3, <2>5, <2>6, FlagWork
  <1>13. ASSUME NEW t \in Threads, Build(t)
         PROVE  FlagInv'
    <2>e. PICK e \in Sensors : e = op[t].e
      BY <1>e
    <2>1. Uses(t, e) /\ pc[t] = "build"
      BY <2>e, <1>13 DEF Build, JobAtPc, Uses
    <2>2. /\ UNCHANGED <<cfg, value, crossed>> /\ pc' = [pc EXCEPT ![t] = "update"]
          /\ op' = [op EXCEPT ![t].val.enabled = cfg[e].enabled]
      BY <2>e, <1>13 DEF Build
    <2>3. /\ \A u \in Threads : u # t => pc'[u] = pc[u] /\ op'[u] = op[u]
          /\ pc'[t] = "update" /\ op'[t].e = e /\ op'[t].job = op[t].job
          /\ op'[t].val.enabled = cfg[e].enabled
      BY <2>e, <1>t, <2>2 DEF Op, Value
    <2>4. Knows(t, e)'
      BY <2>e, <2>2, <2>3 DEF Knows
    <2>5. Uses(t, e)' /\ \A d \in Sensors : d # e => ~Uses(t, d)'
      BY <2>e, <2>1, <2>3 DEF Uses
    <2> QED
      BY <2>e, <1>k, <2>1, <2>2, <2>3, <2>4, <2>5, FlagWork
  <1>4. ASSUME NEW t \in Threads, SenseFails(t) \/ Emit(t)
        PROVE  FlagInv'
    <2>e. PICK e \in Sensors : e = op[t].e
      BY <1>e
    <2>1. /\ Uses(t, e) /\ pc[t] \in {"sense", "emit"} /\ UNCHANGED <<cfg, value, crossed>>
          /\ pc' = [pc EXCEPT ![t] = "idle"] /\ op' = [op EXCEPT ![t] = NoOp]
      BY <2>e, <1>4 DEF SenseFails, Emit, JobAtPc, Uses
    <2>2. /\ \A u \in Threads : u # t => pc'[u] = pc[u] /\ op'[u] = op[u]
          /\ \A d \in Sensors : ~Uses(t, d)'
      BY <2>e, <1>t, <2>1 DEF Uses
    <2>3. ~crossed[e] => value[e].enabled = cfg[e].enabled
      BY <2>e, <1>k, <2>1 DEF Knows
    <2> QED
      BY <2>e, <1>k, <2>1, <2>2, <2>3, FlagWork
  <1>5. ASSUME NEW t \in Threads, Update(t)
        PROVE  FlagInv'
    <2>e. PICK e \in Sensors : e = op[t].e
      BY <1>e
    <2>1. /\ Uses(t, e) /\ pc[t] = "update" /\ UNCHANGED <<cfg, crossed, op>>
          /\ pc' = [pc EXCEPT ![t] = "commit"] /\ value' = [value EXCEPT ![e] = op[t].val]
      BY <2>e, <1>5 DEF Update, JobAtPc, Uses
    <2>2. /\ \A u \in Threads : u # t => pc'[u] = pc[u] /\ op'[u] = op[u]
          /\ pc'[t] = "commit" /\ value'[e] = op[t].val
          /\ \A d \in Sensors : d # e => value'[d] = value[d] /\ ~Uses(t, d)'
          /\ Uses(t, e)'
      BY <2>e, <1>t, <1>k, <2>1 DEF Uses
    <2>3. ~crossed[e] => op[t].val.enabled = cfg[e].enabled
      BY <2>e, <1>k, <2>1 DEF Knows
    <2>4. ~crossed[e] => Knows(t, e)'
      BY <2>e, <2>1, <2>2, <2>3 DEF Knows
    <2>5. (~crossed[e] => Knows(t, e)')
      BY <2>e, <2>1, <2>2, <2>3 DEF Knows
    <2> QED
      BY <2>e, <1>k, <2>1, <2>2, <2>5, FlagWork
  <1>6. ASSUME NEW t \in Threads, Commit(t)
        PROVE  FlagInv'
    <2>e. PICK e \in Sensors : e = op[t].e
      BY <1>e
    <2>1. /\ Uses(t, e) /\ pc[t] = "commit" /\ UNCHANGED <<cfg, value, crossed>>
          /\ \/ pc' = [pc EXCEPT ![t] = "idle"] /\ op' = [op EXCEPT ![t] = NoOp]
             \/ pc' = [pc EXCEPT ![t] = "emit"] /\ op' = [op EXCEPT ![t].upd = snapshot_seq + 1]
      BY <2>e, <1>6 DEF Commit, JobAtPc, Uses
    <2>2. \A u \in Threads : u # t => pc'[u] = pc[u] /\ op'[u] = op[u]
      BY <2>e, <1>t, <2>1
    <2>3. \A d \in Sensors : d # e => ~Uses(t, d)'
      BY <2>e, <1>t, <2>1 DEF Uses, Op
    <2>4. ~crossed[e] => value[e].enabled = cfg[e].enabled
      BY <2>e, <1>k, <2>1 DEF Knows
    <2>5. pc'[t] \in {"idle", "emit"}
      BY <2>e, <1>t, <2>1
    <2>6. ~crossed[e] => Knows(t, e)'
      BY <2>e, <2>1, <2>4, <2>5 DEF Knows
    <2> QED
      BY <2>e, <1>k, <2>1, <2>2, <2>3, <2>4, <2>6, FlagWork
  <1>7. ASSUME NEW c \in Callers, WriteCfg(c)
        PROVE  FlagInv'
    <2>e. PICK e \in Sensors : e = op[c].e
      BY <1>e
    <2>1. /\ Uses(c, e) /\ UNCHANGED <<value, crossed, op>>
          /\ pc' = [pc EXCEPT ![c] = "copy"] /\ cfg' = [cfg EXCEPT ![e] = op[c].cfg]
      BY <2>e, <1>7 DEF WriteCfg, JobAtPc, Uses
    <2>2. /\ \A u \in Threads : u # c => pc'[u] = pc[u] /\ op'[u] = op[u]
          /\ pc'[c] = "copy" /\ cfg'[e] = op[c].cfg
          /\ \A d \in Sensors : d # e => cfg'[d] = cfg[d] /\ ~Uses(c, d)'
          /\ Uses(c, e)'
      BY <2>e, <1>t, <1>k, <2>1 DEF Uses
    <2>3. Knows(c, e)'
      BY <2>e, <2>1, <2>2 DEF Knows
    <2> QED
      BY <2>e, <1>k, <2>1, <2>2, <2>3, FlagWork
  <1>8. ASSUME NEW c \in Callers, CopyValue(c)
        PROVE  FlagInv'
    <2>e. PICK e \in Sensors : e = op[c].e
      BY <1>e
    <2>1. /\ Uses(c, e) /\ pc[c] = "copy" /\ UNCHANGED <<cfg, value, crossed>>
          /\ pc' = [pc EXCEPT ![c] = "update"]
          /\ op' = [op EXCEPT ![c].val = [value[e] EXCEPT !.enabled = op[c].cfg.enabled]]
      BY <2>e, <1>8 DEF CopyValue, JobAtPc, Uses
    <2>2. /\ \A u \in Threads : u # c => pc'[u] = pc[u] /\ op'[u] = op[u]
          /\ pc'[c] = "update" /\ op'[c].e = e /\ op'[c].job = op[c].job
          /\ op'[c].val.enabled = op[c].cfg.enabled
      BY <2>e, <1>t, <1>k, <2>1 DEF Op, Value
    <2>3. Uses(c, e)' /\ \A d \in Sensors : d # e => ~Uses(c, d)'
      BY <2>e, <2>1, <2>2 DEF Uses
    <2>4. ~crossed[e] => cfg[e] = op[c].cfg
      BY <2>e, <1>k, <2>1 DEF Knows
    <2>5. ~crossed[e] => Knows(c, e)'
      BY <2>e, <2>1, <2>2, <2>4 DEF Knows
    <2> QED
      BY <2>e, <1>k, <2>1, <2>2, <2>3, <2>5, FlagWork
  <1>9. ASSUME NEW c \in Callers, GetSnapshot(c) \/ FillLock(c) \/ FillDone(c)
        PROVE  FlagInv'
    <2>1. /\ pc[c] \in {"idle", "fill", "items"} /\ UNCHANGED <<cfg, value>>
          /\ \E l : pc' = [pc EXCEPT ![c] = l]
          /\ op' = op \/ \E o \in Op : o.job \in {"snapshot", "none"} /\ op' = [op EXCEPT ![c] = o]
      <3>1. CASE GetSnapshot(c)
        <4>1. /\ [NoOp EXCEPT !.job = "snapshot", !.e = Pir, !.cfg = NoOp.cfg] \in Op
              /\ [NoOp EXCEPT !.job = "snapshot", !.e = Pir, !.cfg = NoOp.cfg].job = "snapshot"
          BY DEF Op, Job, NoOp
        <4> QED
          BY <3>1, <4>1 DEF GetSnapshot, Call
      <3>2. CASE FillLock(c) \/ FillDone(c)
        BY <3>2 DEF FillLock, FillDone
      <3> QED
        BY <1>9, <3>1, <3>2
    <2>2. UNCHANGED crossed
      BY <1>9 DEF GetSnapshot, Call, FillLock, FillDone
    <2>3. op[c].job \in {"none", "snapshot"} /\ op'[c].job \in {"none", "snapshot"}
      <3>1. op[c].job \in {"none", "snapshot"}
        BY <2>1 DEF JobAtPc
      <3> QED
        BY <1>t, <2>1, <3>1
    <2>4. \A u \in Threads : u # c => pc'[u] = pc[u] /\ op'[u] = op[u]
      BY <1>t, <2>1
    <2> QED
      BY <2>1, <2>2, <2>3, <2>4, FlagUnused DEF Uses
  <1>10. ASSUME NEW c \in Callers, CopyItem(c)
         PROVE  FlagInv'
    BY <1>10, <1>s DEF CopyItem
  <1>11. ASSUME NEW c \in Callers, NEW e \in Sensors, Refresh(c, e)
         PROVE  FlagInv'
    BY <1>11, <1>c DEF Refresh
  <1>12. ASSUME NEW c \in Callers, NEW e \in Sensors, NEW k \in Cfgs, SetCfg(c, e, k)
         PROVE  FlagInv'
    BY <1>12, <1>c DEF SetCfg
  <1> QED
    BY <1>1, <1>2, <1>3, <1>4, <1>5, <1>6, <1>7, <1>8, <1>9, <1>10, <1>11, <1>12, <1>13 DEF Next, ThreadStep

\* Whenever nobody is at work on an endpoint, the enabled flag that snapshots
\* show is its configuration's, unless two contexts have used it at once since
\* the last SET_SENSOR_CFG that had it for itself (apply_cfg writes the two in
\* different sections, and the interrupt thread and refresh write the flag too).
THEOREM FlagCorrect == Spec => []FlagSaysConfig
  <1>1. Init => FlagInv
    <2> SUFFICES ASSUME Init PROVE FlagInv
      OBVIOUS
    <2>1. \A t \in Threads, e \in Sensors : ~Uses(t, e)
      BY Constants DEF Init, Uses
    <2>2. \A e \in Sensors : value[e].enabled = cfg[e].enabled
      BY DEF Init, NoOp
    <2> QED
      BY <2>1, <2>2 DEF FlagInv, SoleUser, UserKnows, FlagSaysConfig
  <1>2. TypeOK /\ JobAtPc /\ FlagInv /\ [Next]_vars => FlagInv'
    BY FlagStep
  <1>3. FlagInv => FlagSaysConfig
    BY DEF FlagInv
  <1> QED
    BY <1>1, <1>2, <1>3, TypeCorrect, JobCorrect, PTL DEF Spec

=============================================================================
