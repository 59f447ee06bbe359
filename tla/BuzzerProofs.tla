---------------------------- MODULE BuzzerProofs -----------------------------
(***************************************************************************)
(* Theorems about the buzzer.  Its types hold for any set of processes.    *)
(* What a reader and the configuration are told of the tone holds when one *)
(* process uses the buzzer, as the daemon does: the driver has no lock for *)
(* two, and the assumption of the theorems says so.                        *)
(***************************************************************************)
EXTENDS Buzzer, TLAPS

----------------------------------------------------------------------------
(* Type correctness *)

LEMMA NoOpType == NoOp \in Op
  BY DEF NoOp, Op, Job, Code

LEMMA ValUpdate ==
    ASSUME op \in [Threads -> Op], NEW t \in Threads, NEW b \in BOOLEAN,
           op' = [op EXCEPT ![t].val = b]
    PROVE  /\ op' \in [Threads -> Op] /\ \A u \in Threads : u # t => op'[u] = op[u]
           /\ op'[t].job = op[t].job /\ op'[t].code = op[t].code /\ op'[t].silent = op[t].silent
           /\ op'[t].val = b
  BY DEF Op

LEMMA SilentUpdate ==
    ASSUME op \in [Threads -> Op], NEW t \in Threads, NEW b \in BOOLEAN,
           op' = [op EXCEPT ![t].silent = b]
    PROVE  /\ op' \in [Threads -> Op] /\ \A u \in Threads : u # t => op'[u] = op[u]
           /\ op'[t].job = op[t].job /\ op'[t].code = op[t].code /\ op'[t].val = op[t].val
           /\ op'[t].silent = b
  BY DEF Op

LEMMA MoveKeeps ==
    ASSUME TypeOK, NEW t \in Threads, NEW from, from # "idle", NEW to \in Pc,
           t = Work => to \in WorkPc, At(t, from, to),
           op' \in [Threads -> Op], \A u \in Threads : op'[u].job = op[u].job
    PROVE  pc' \in [Threads -> Pc] /\ PlacesOK'
  <1>1. pc' \in [Threads -> Pc]
    BY DEF TypeOK, At
  <1>2. Work \in Threads /\ op'[Work].job = op[Work].job
    BY DEF Threads
  <1>3. pc'[Work] \in WorkPc
    BY <1>2 DEF TypeOK, PlacesOK, At
  <1>4. pc'[Work] # "idle" => op'[Work].job = "work"
    BY <1>2 DEF TypeOK, PlacesOK, At
  <1>5. ASSUME NEW c \in Callers, pc'[c] # "idle" PROVE op'[c].job \in {"sound", "stop", "cfg"}
    <2>1. c \in Threads /\ op'[c].job = op[c].job
      BY DEF Threads
    <2>2. pc[c] # "idle"
      BY <1>5, <2>1 DEF TypeOK, At
    <2> QED
      BY <2>1, <2>2 DEF TypeOK, PlacesOK
  <1> QED
    BY <1>1, <1>3, <1>4, <1>5 DEF PlacesOK

LEMMA ReturnKeeps ==
    ASSUME TypeOK, NEW t \in Threads, Return(t)
    PROVE  pc' \in [Threads -> Pc] /\ op' \in [Threads -> Op] /\ PlacesOK'
  <1>1. pc' \in [Threads -> Pc] /\ op' \in [Threads -> Op]
    BY NoOpType DEF TypeOK, Return, Pc
  <1>2. \A u \in Threads : pc'[u] = "idle" \/ (pc'[u] = pc[u] /\ op'[u] = op[u])
    BY DEF TypeOK, Return
  <1>3. Work \in Threads /\ Callers \subseteq Threads
    BY DEF Threads
  <1>4. pc'[Work] \in WorkPc /\ (pc'[Work] # "idle" => op'[Work].job = "work")
    BY <1>2, <1>3 DEF TypeOK, PlacesOK, WorkPc
  <1>5. ASSUME NEW c \in Callers, pc'[c] # "idle" PROVE op'[c].job \in {"sound", "stop", "cfg"}
    BY <1>2, <1>3, <1>5 DEF TypeOK, PlacesOK
  <1> QED
    BY <1>1, <1>4, <1>5 DEF PlacesOK

LEMMA CallKeeps ==
    ASSUME TypeOK, NEW c \in Callers, NEW job \in {"sound", "stop", "cfg"},
           NEW arg \in BOOLEAN, NEW code \in Code, Call(c, job, arg, code)
    PROVE  TypeOK'
  <1>1. PICK new \in Op :
           /\ new = [NoOp EXCEPT !.job = job, !.arg = arg, !.code = code]
           /\ new.job = job /\ new.arg = arg /\ new.code = code /\ new.silent = FALSE
    <2> DEFINE new == [NoOp EXCEPT !.job = job, !.arg = arg, !.code = code]
    <2>1. new \in Op /\ new.job = job /\ new.arg = arg /\ new.code = code /\ new.silent = FALSE
      BY DEF NoOp, Op, Job, Code
    <2> HIDE DEF new
    <2>2. \E x \in Op : x = new /\ x.job = job /\ x.arg = arg /\ x.code = code /\ x.silent = FALSE
      BY <2>1
    <2> QED
      BY <2>2 DEF new
  <1>2. op' = [op EXCEPT ![c] = new] /\ c \in Threads
    BY <1>1 DEF Call, Threads
  <1>3. op' \in [Threads -> Op] /\ pc' \in [Threads -> Pc] /\ calls' \in Nat
    BY <1>2 DEF TypeOK, Call, At, Pc
  <1>4. Work \in Threads /\ Work # c
    BY ThreadAssumption DEF Threads
  <1>5. pc'[Work] = pc[Work] /\ op'[Work] = op[Work]
    BY <1>2, <1>4 DEF TypeOK, Call, At
  <1>6. ASSUME NEW k \in Callers, pc'[k] # "idle" PROVE op'[k].job \in {"sound", "stop", "cfg"}
    <2>1. CASE k = c
      BY <1>1, <1>2, <2>1 DEF TypeOK
    <2>2. CASE k # c
      <3>1. k \in Threads
        BY DEF Threads
      <3>2. pc'[k] = pc[k] /\ op'[k] = op[k]
        BY <1>2, <2>2, <3>1 DEF TypeOK, Call, At
      <3> QED
        BY <1>6, <3>2 DEF TypeOK, PlacesOK
    <2> QED
      BY <2>1, <2>2
  <1>7. PlacesOK'
    BY <1>5, <1>6 DEF TypeOK, PlacesOK
  <1> QED
    BY <1>3, <1>7 DEF Call, TypeOK

LEMMA CallerStepKeeps ==
    ASSUME TypeOK, NEW c \in Callers,
           \/ DispatchEnter(c) \/ CfgEnter(c) \/ CancelWork(c)
           \/ FlushWork(c) \/ TestActive(c) \/ Schedule(c)
    PROVE  TypeOK'
  <1>1. c \in Threads /\ c # Work /\ op[c] \in Op /\ op[c].arg \in BOOLEAN
    BY ThreadAssumption DEF Threads, TypeOK, Op
  <1>2. UNCHANGED op => op' \in [Threads -> Op] /\ \A u \in Threads : op'[u].job = op[u].job
    BY DEF TypeOK
  <1>3. CASE DispatchEnter(c)
    <2>1. CASE Return(c)
      BY <1>1, <1>3, <2>1, ReturnKeeps DEF DispatchEnter, TypeOK
    <2>2. CASE pc' = [pc EXCEPT ![c] = "cancel"] /\ UNCHANGED op
      <3>1. At(c, "enter", "cancel") /\ UNCHANGED op
        BY <1>3, <2>2 DEF DispatchEnter, At
      <3>2. pc' \in [Threads -> Pc] /\ op' \in [Threads -> Op] /\ PlacesOK'
        BY <1>1, <1>2, <3>1, MoveKeeps DEF Pc
      <3> QED
        BY <1>3, <3>2 DEF DispatchEnter, TypeOK
    <2> QED
      BY <1>3, <2>1, <2>2 DEF DispatchEnter
  <1>4. CASE CfgEnter(c)
    <2>1. pc' \in [Threads -> Pc] /\ op' \in [Threads -> Op] /\ PlacesOK'
      BY <1>1, <1>2, <1>4, MoveKeeps DEF Pc, CfgEnter
    <2> QED
      BY <1>1, <1>4, <2>1 DEF CfgEnter, TypeOK
  <1>5. CASE CancelWork(c)
    <2>1. pc' \in [Threads -> Pc] /\ op' \in [Threads -> Op] /\ PlacesOK'
      BY <1>1, <1>2, <1>5, MoveKeeps DEF Pc, CancelWork
    <2> QED
      BY <1>5, <2>1 DEF CancelWork, TypeOK
  <1>6. CASE FlushWork(c)
    <2>1. pc[c] = "flush" /\ UNCHANGED op
      BY <1>6 DEF FlushWork, At
    <2>2. AfterFlush(op[c].job) \in Pc
      BY <2>1 DEF TypeOK, PlacesOK, AfterFlush, Pc
    <2>3. pc' \in [Threads -> Pc] /\ op' \in [Threads -> Op] /\ PlacesOK'
      BY <1>1, <1>2, <1>6, <2>1, <2>2, MoveKeeps DEF FlushWork
    <2> QED
      BY <1>6, <2>3 DEF FlushWork, TypeOK
  <1>7. CASE TestActive(c)
    <2>1. op' \in [Threads -> Op] /\ \A u \in Threads : op'[u].job = op[u].job
      BY <1>1, <1>7, SilentUpdate DEF TestActive, TypeOK
    <2>2. (IF active THEN "off" ELSE "build") \in Pc
      BY DEF Pc
    <2>3. pc' \in [Threads -> Pc] /\ PlacesOK'
      BY <1>1, <1>7, <2>1, <2>2, MoveKeeps DEF TestActive
    <2> QED
      BY <1>7, <2>1, <2>3 DEF TestActive, TypeOK
  <1>8. CASE Schedule(c)
    BY <1>1, <1>8, ReturnKeeps DEF Schedule, TypeOK
  <1> QED
    BY <1>3, <1>4, <1>5, <1>6, <1>7, <1>8

LEMMA ThreadStepKeeps ==
    ASSUME TypeOK, NEW t \in Threads,
           \/ PwmOn(t) \/ PwmOff(t) \/ PwmFails(t) \/ Mark(t) \/ Unmark(t)
           \/ BuildValue(t) \/ Publish(t) \/ Emit(t)
    PROVE  TypeOK'
  <1>1. /\ op[t] \in Op /\ op[t].val \in BOOLEAN /\ op[t].code \in Code
        /\ t = Work => pc[t] \in WorkPc /\ (pc[t] # "idle" => op[t].job = "work")
    BY DEF TypeOK, PlacesOK, Op
  <1>2. UNCHANGED op => op' \in [Threads -> Op] /\ \A u \in Threads : op'[u].job = op[u].job
    BY DEF TypeOK
  <1>3. CASE PwmOn(t)
    <2>1. pc' \in [Threads -> Pc] /\ op' \in [Threads -> Op] /\ PlacesOK'
      BY <1>1, <1>2, <1>3, MoveKeeps DEF Pc, WorkPc, PwmOn, At
    <2> QED
      BY <1>3, <2>1 DEF PwmOn, TypeOK
  <1>4. CASE PwmOff(t)
    <2>1. pc' \in [Threads -> Pc] /\ op' \in [Threads -> Op] /\ PlacesOK'
      BY <1>2, <1>4, MoveKeeps DEF Pc, WorkPc, PwmOff
    <2> QED
      BY <1>4, <2>1 DEF PwmOff, TypeOK
  <1>5. CASE PwmFails(t)
    BY <1>5, ReturnKeeps DEF PwmFails, TypeOK
  <1>6. CASE Mark(t) \/ Unmark(t)
    <2>1. pc' \in [Threads -> Pc] /\ op' \in [Threads -> Op] /\ PlacesOK'
      BY <1>2, <1>6, MoveKeeps DEF Pc, WorkPc, Mark, Unmark
    <2> QED
      BY <1>6, <2>1 DEF Mark, Unmark, TypeOK
  <1>7. CASE BuildValue(t)
    <2>1. op' \in [Threads -> Op] /\ \A u \in Threads : op'[u].job = op[u].job
      BY <1>7, ValUpdate DEF BuildValue, TypeOK
    <2>2. pc' \in [Threads -> Pc] /\ PlacesOK'
      BY <1>7, <2>1, MoveKeeps DEF BuildValue, Pc, WorkPc
    <2> QED
      BY <1>7, <2>1, <2>2 DEF BuildValue, TypeOK
  <1>8. CASE Publish(t)
    <2> DEFINE to == IF op[t].silent THEN "build" ELSE "emit"
    <2>1. op' \in [Threads -> Op] /\ \A u \in Threads : op'[u].job = op[u].job
      BY <1>8, SilentUpdate DEF Publish, TypeOK
    <2>2. to \in Pc /\ to \in WorkPc /\ At(t, "publish", to)
      BY <1>8 DEF Publish, At, Pc, WorkPc
    <2>3. pc' \in [Threads -> Pc] /\ PlacesOK'
      BY <2>1, <2>2, MoveKeeps
    <2>4. shown' \in BOOLEAN
      BY <1>1, <1>8 DEF Publish
    <2> QED
      BY <1>8, <2>1, <2>3, <2>4 DEF Publish, TypeOK
  <1>9. CASE Emit(t)
    <2>1. CASE op[t].job = "sound"
      <3>1. At(t, "emit", "schedule") /\ UNCHANGED op /\ t # Work
        BY <1>1, <1>9, <2>1 DEF Emit, Done, At
      <3>2. pc' \in [Threads -> Pc] /\ op' \in [Threads -> Op] /\ PlacesOK'
        BY <1>2, <3>1, MoveKeeps DEF Pc
      <3> QED
        BY <1>1, <1>9, <3>2 DEF Emit, TypeOK
    <2>2. CASE op[t].job # "sound"
      <3>1. Return(t)
        BY <1>9, <2>2 DEF Emit, Done
      <3> QED
        BY <1>1, <1>9, <3>1, ReturnKeeps DEF Emit, TypeOK
    <2> QED
      BY <2>1, <2>2
  <1> QED
    BY <1>3, <1>4, <1>5, <1>6, <1>7, <1>8, <1>9

LEMMA TimerKeeps ==
    ASSUME TypeOK, TimerFires PROVE TypeOK'
  <1>1. PICK new \in Op : new = [NoOp EXCEPT !.job = "work", !.code = "OUTPUT_OFF"]
    BY DEF NoOp, Op, Job, Code
  <1>2. op' = [op EXCEPT ![Work] = new] /\ Work \in Threads
    BY <1>1 DEF TimerFires, Threads
  <1>3. op' \in [Threads -> Op] /\ pc' \in [Threads -> Pc]
    BY <1>2 DEF TypeOK, TimerFires, Pc
  <1>4. \A k \in Callers : pc'[k] = pc[k] /\ op'[k] = op[k]
    BY <1>2, ThreadAssumption DEF TypeOK, TimerFires, Threads
  <1>5. pc'[Work] = "off" /\ op'[Work].job = "work"
    BY <1>1, <1>2 DEF TypeOK, TimerFires, NoOp, Op
  <1>6. PlacesOK'
    BY <1>4, <1>5 DEF TypeOK, PlacesOK, WorkPc
  <1> QED
    BY <1>3, <1>6 DEF TypeOK, TimerFires

LEMMA TypeStep == ASSUME TypeOK, [Next]_vars PROVE TypeOK'
  <1>1. ASSUME NEW c \in Callers, Sound(c) \/ Stop(c) \/ (\E e \in BOOLEAN : SetCfg(c, e))
        PROVE  TypeOK'
    <2>1. \E job \in {"sound", "stop", "cfg"}, arg \in BOOLEAN, code \in Code :
             Call(c, job, arg, code)
      BY <1>1 DEF Sound, Stop, SetCfg, Code
    <2> QED
      BY <2>1, CallKeeps
  <1>2. ASSUME NEW t \in Threads, ThreadStep(t) \/ PwmFails(t) PROVE TypeOK'
    BY <1>2, ThreadStepKeeps, CallerStepKeeps, Zenon DEF ThreadStep
  <1>3. CASE UNCHANGED vars
    BY <1>3 DEF vars, TypeOK, PlacesOK
  <1> QED
    BY <1>1, <1>2, <1>3, TimerKeeps, Zenon DEF Next

LEMMA TypeInit == ASSUME Init PROVE TypeOK
  <1>1. op \in [Threads -> Op] /\ pc \in [Threads -> Pc]
    BY NoOpType DEF Init, Pc
  <1>2. PlacesOK
    BY DEF Init, PlacesOK, WorkPc, Threads
  <1> QED
    BY <1>1, <1>2 DEF Init, TypeOK, Code

\* Every variable keeps its type, and every context its place, whoever and
\* however many use the buzzer: the wait for stop_work continues with the action
\* or the configuration that asked for it, and the work never waits for itself
\* (sh_buzzer_dispatch, sh_buzzer_apply_cfg, sh_buzzer_stop_workfn).
THEOREM TypeCorrect == Spec => []TypeOK
  <1>1. Init => TypeOK
    BY TypeInit
  <1>2. TypeOK /\ [Next]_vars => TypeOK'
    BY TypeStep
  <1> QED
    BY <1>1, <1>2, PTL DEF Spec

----------------------------------------------------------------------------
(* One process that uses the buzzer *)

\* The steps of a call that come after the work has been cancelled.
Past == {"test", "on", "mark", "off", "unmark", "build", "publish", "emit", "schedule"}

\* Between a change of the PWM and the publication that tells of it.
Telling == {"mark", "unmark", "build", "publish", "emit"}

\* What context t is doing fits its place and what it says of it.
JobFits(t) ==
    /\ op[t].code = "OUTPUT_ON" <=> op[t].job = "sound"
    /\ op[t].silent => op[t].job = "cfg"

Jobs(c) ==
    /\ JobFits(c) /\ JobFits(Work)
    /\ pc[c] # "idle" => op[c].job \in {"sound", "stop", "cfg"}
    /\ pc[c] \in {"on", "mark", "schedule"} => op[c].job = "sound"
    /\ pc[c] = "test" => op[c].job = "cfg"
    /\ pc[c] \in {"off", "unmark"} => op[c].job # "sound"
    /\ pc[Work] \in {"idle", "off", "unmark", "build", "publish", "emit"}
    /\ pc[Work] # "idle" => op[Work].job = "work"

\* A call that has cancelled the work is alone until it schedules it again.
Alone(c) ==
    /\ pc[c] \in Past => pc[Work] = "idle" /\ timer = "idle"
    /\ pc[c] = "flush" => timer = "canceling"

\* What context t knows of the PWM at its place.
Knows(t) ==
    /\ pc[t] = "mark" => pwm = "on"
    /\ pc[t] = "unmark" => pwm = "off"
    /\ pc[t] \in {"build", "publish", "emit"} => (pwm = "on" <=> op[t].job = "sound")
    /\ pc[t] = "publish" => (op[t].val <=> active)
    /\ pc[t] = "emit" => (shown <=> active)

\* When nobody is about to tell, everyone has been told.
Truth(c) ==
    /\ Knows(c) /\ Knows(Work)
    /\ pc[c] \notin {"mark", "unmark"} /\ pc[Work] \notin {"mark", "unmark"} =>
          (active <=> pwm = "on")
    /\ pc[c] \notin Telling /\ pc[Work] \notin Telling =>
          (shown <=> pwm = "on") /\ (event = "OUTPUT_ON" <=> pwm = "on")

\* The call that disables the buzzer is the one that silences it.
Silencing(c) ==
    ~enabled =>
        /\ \/ pwm = "off" \/ refused = "off"
           \/ pc[c] \in {"cancel", "flush", "test", "off"} /\ op[c].job = "cfg"
        /\ pc[c] \notin {"idle", "enter"} => op[c].job = "cfg"

\* A tone has its end pending, or the worker, or the call that began it or
\* is about to stop it, is on its way there.
Ending(c) ==
    pwm = "on" => \/ timer = "pending" \/ pc[Work] = "off" \/ refused # "no"
                  \/ pc[c] \in Past \cup {"flush"}

BuzzerInv(c) == Jobs(c) /\ Alone(c) /\ Truth(c) /\ Silencing(c) /\ Ending(c)

LEMMA Contexts ==
    ASSUME NEW c, Callers = {c}
    PROVE  Threads = {c, Work} /\ c # Work
  BY ThreadAssumption DEF Threads

LEMMA Booleans ==
    ASSUME TypeOK, NEW t \in Threads
    PROVE  /\ enabled \in BOOLEAN /\ active \in BOOLEAN /\ shown \in BOOLEAN
           /\ refused \in {"no", "on", "off"} /\ op[t].val \in BOOLEAN /\ op[t].silent \in BOOLEAN
  BY DEF TypeOK, Op

LEMMA CallSolo ==
    ASSUME TypeOK, NEW c, Callers = {c}, BuzzerInv(c), TypeOK',
           NEW job \in {"sound", "stop", "cfg"}, NEW arg \in BOOLEAN, NEW code \in Code,
           code = "OUTPUT_ON" <=> job = "sound",
           Call(c, job, arg, code)
    PROVE  BuzzerInv(c)'
  <1>1. Threads = {c, Work} /\ c # Work
    BY Contexts
  <1>2. /\ pc[c] = "idle" /\ pc'[c] = "enter"
        /\ pc'[Work] = pc[Work] /\ op'[Work] = op[Work]
        /\ UNCHANGED <<enabled, pwm, active, shown, event, timer, refused>>
    BY <1>1 DEF Call, At, TypeOK
  <1>3. op'[c].job = job /\ op'[c].code = code /\ op'[c].silent = FALSE
    BY <1>1 DEF Call, TypeOK, NoOp
  <1>4. Jobs(c)'
    BY <1>2, <1>3 DEF BuzzerInv, Jobs, JobFits
  <1>5. Alone(c)'
    BY <1>2, <1>3 DEF Alone, Past
  <1>6. Truth(c)'
    BY <1>2, <1>3 DEF BuzzerInv, Truth, Knows, Telling
  <1>7. Silencing(c)'
    BY <1>2, <1>3 DEF BuzzerInv, Silencing
  <1>8. Ending(c)'
    BY <1>2 DEF BuzzerInv, Ending, Truth, Knows, Jobs, Alone, Past
  <1> QED
    BY <1>4, <1>5, <1>6, <1>7, <1>8 DEF BuzzerInv

\* A step after which nothing has changed but the place of one context.
LEMMA ReturnSolo ==
    ASSUME TypeOK, NEW c, Callers = {c}, NEW t \in Threads, Return(t)
    PROVE  /\ pc'[t] = "idle" /\ op'[t].job = "none" /\ op'[t].code = "NONE"
           /\ op'[t].silent = FALSE
           /\ \A u \in {c, Work} : u # t => pc'[u] = pc[u] /\ op'[u] = op[u]
  BY Contexts DEF Return, TypeOK, NoOp

LEMMA DispatchSolo ==
    ASSUME TypeOK, NEW c, Callers = {c}, BuzzerInv(c), DispatchEnter(c)
    PROVE  BuzzerInv(c)'
  <1>1. Threads = {c, Work} /\ c # Work
    BY Contexts
  <1>2. /\ pc[c] = "enter" /\ pc'[Work] = pc[Work] /\ op'[Work] = op[Work]
        /\ UNCHANGED <<enabled, pwm, active, shown, event, timer, refused>>
        /\ \/ enabled /\ pc'[c] = "cancel" /\ op'[c] = op[c]
           \/ /\ pc'[c] = "idle" /\ op'[c].job = "none"
              /\ op'[c].code = "NONE" /\ op'[c].silent = FALSE
    <2>1. CASE enabled
      BY <1>1, <2>1 DEF DispatchEnter, TypeOK
    <2>2. CASE ~enabled
      <3>1. Return(c)
        BY <2>2 DEF DispatchEnter
      <3> QED
        BY <1>1, <3>1, ReturnSolo DEF DispatchEnter
    <2> QED
      BY <2>1, <2>2
  <1>4. Jobs(c)'
    BY <1>2 DEF BuzzerInv, Jobs, JobFits
  <1>5. Alone(c)'
    BY <1>2 DEF Alone, Past
  <1>6. Truth(c)'
    BY <1>2 DEF BuzzerInv, Truth, Knows, Telling
  <1>7. Silencing(c)'
    BY <1>2 DEF BuzzerInv, Silencing
  <1>8. Ending(c)'
    BY <1>2 DEF BuzzerInv, Ending, Truth, Knows, Jobs, Alone, Past
  <1> QED
    BY <1>4, <1>5, <1>6, <1>7, <1>8 DEF BuzzerInv

LEMMA CfgSolo ==
    ASSUME TypeOK, NEW c, Callers = {c}, BuzzerInv(c), CfgEnter(c)
    PROVE  BuzzerInv(c)'
  <1>1. Threads = {c, Work} /\ c # Work
    BY Contexts
  <1>2. /\ pc[c] = "enter" /\ pc'[c] = "cancel" /\ op[c].job = "cfg" /\ op'[c] = op[c]
        /\ pc'[Work] = pc[Work] /\ op'[Work] = op[Work]
        /\ UNCHANGED <<pwm, active, shown, event, timer, refused>>
    BY <1>1 DEF CfgEnter, At, TypeOK
  <1>3. /\ enabled \in BOOLEAN /\ active \in BOOLEAN /\ refused \in {"no", "on", "off"}
        /\ pwm \in {"on", "off"} /\ op[c].val \in BOOLEAN /\ op[c].silent \in BOOLEAN
    BY <1>1, Booleans DEF TypeOK
  <1>4. Jobs(c)'
    BY <1>2, <1>3 DEF BuzzerInv, Jobs, JobFits
  <1>5. Alone(c)'
    BY <1>2 DEF BuzzerInv, Alone, Jobs, Past
  <1>6. Truth(c)'
    BY <1>2, <1>3 DEF BuzzerInv, Truth, Knows, Telling, Jobs, JobFits, Alone, Past
  <1>7. Silencing(c)'
    BY <1>2, <1>3 DEF BuzzerInv, Silencing, Truth, Knows, Jobs, Alone, Past
  <1>8. Ending(c)'
    BY <1>2, <1>3 DEF BuzzerInv, Ending, Truth, Knows, Jobs, Alone, Past
  <1> QED
    BY <1>4, <1>5, <1>6, <1>7, <1>8 DEF BuzzerInv

LEMMA CancelSolo ==
    ASSUME TypeOK, NEW c, Callers = {c}, BuzzerInv(c), CancelWork(c)
    PROVE  BuzzerInv(c)'
  <1>1. Threads = {c, Work} /\ c # Work
    BY Contexts
  <1>2. /\ pc[c] = "cancel" /\ pc'[c] = "flush" /\ op'[c] = op[c]
        /\ pc'[Work] = pc[Work] /\ op'[Work] = op[Work]
        /\ timer' = "canceling" /\ UNCHANGED <<enabled, pwm, active, shown, event, refused>>
    BY <1>1 DEF CancelWork, At, TypeOK
  <1>3. /\ enabled \in BOOLEAN /\ active \in BOOLEAN /\ refused \in {"no", "on", "off"}
        /\ pwm \in {"on", "off"} /\ op[c].val \in BOOLEAN /\ op[c].silent \in BOOLEAN
    BY <1>1, Booleans DEF TypeOK
  <1>4. Jobs(c)'
    BY <1>2, <1>3 DEF BuzzerInv, Jobs, JobFits
  <1>5. Alone(c)'
    BY <1>2 DEF BuzzerInv, Alone, Jobs, Past
  <1>6. Truth(c)'
    BY <1>2, <1>3 DEF BuzzerInv, Truth, Knows, Telling, Jobs, JobFits, Alone, Past
  <1>7. Silencing(c)'
    BY <1>2, <1>3 DEF BuzzerInv, Silencing, Truth, Knows, Jobs, Alone, Past
  <1>8. Ending(c)'
    BY <1>2, <1>3 DEF BuzzerInv, Ending, Truth, Knows, Jobs, Alone, Past
  <1> QED
    BY <1>4, <1>5, <1>6, <1>7, <1>8 DEF BuzzerInv

LEMMA FlushSolo ==
    ASSUME TypeOK, NEW c, Callers = {c}, BuzzerInv(c), FlushWork(c)
    PROVE  BuzzerInv(c)'
  <1>1. Threads = {c, Work} /\ c # Work
    BY Contexts
  <1>2. /\ pc[c] = "flush" /\ pc[Work] = "idle" /\ op'[c] = op[c]
        /\ pc'[Work] = pc[Work] /\ op'[Work] = op[Work]
        /\ timer' = "idle" /\ UNCHANGED <<enabled, pwm, active, shown, event, refused>>
        /\ \/ op[c].job = "sound" /\ pc'[c] = "on"
           \/ op[c].job = "stop" /\ pc'[c] = "off"
           \/ op[c].job = "cfg" /\ pc'[c] = "test"
    <2>1. pc[c] = "flush" /\ pc'[c] = AfterFlush(op[c].job) /\ pc'[Work] = pc[Work]
      BY <1>1 DEF FlushWork, At, TypeOK
    <2>2. op[c].job \in {"sound", "stop", "cfg"}
      BY <2>1 DEF BuzzerInv, Jobs
    <2> QED
      BY <2>1, <2>2 DEF FlushWork, AfterFlush
  <1>3. /\ enabled \in BOOLEAN /\ active \in BOOLEAN /\ refused \in {"no", "on", "off"}
        /\ pwm \in {"on", "off"} /\ op[c].val \in BOOLEAN /\ op[c].silent \in BOOLEAN
    BY <1>1, Booleans DEF TypeOK
  <1>4. Jobs(c)'
    BY <1>2, <1>3 DEF BuzzerInv, Jobs, JobFits
  <1>5. Alone(c)'
    BY <1>2 DEF BuzzerInv, Alone, Jobs, Past
  <1>6. Truth(c)'
    BY <1>2, <1>3 DEF BuzzerInv, Truth, Knows, Telling, Jobs, JobFits, Alone, Past
  <1>7. Silencing(c)'
    BY <1>2, <1>3 DEF BuzzerInv, Silencing, Truth, Knows, Jobs, Alone, Past
  <1>8. Ending(c)'
    BY <1>2, <1>3 DEF BuzzerInv, Ending, Truth, Knows, Jobs, Alone, Past
  <1> QED
    BY <1>4, <1>5, <1>6, <1>7, <1>8 DEF BuzzerInv

LEMMA TestSolo ==
    ASSUME TypeOK, NEW c, Callers = {c}, BuzzerInv(c), TestActive(c)
    PROVE  BuzzerInv(c)'
  <1>1. Threads = {c, Work} /\ c # Work
    BY Contexts
  <1>2. /\ pc[c] = "test" /\ op'[c].job = op[c].job /\ op'[c].code = op[c].code
        /\ pc'[Work] = pc[Work] /\ op'[Work] = op[Work]
        /\ UNCHANGED <<enabled, pwm, active, shown, event, timer, refused>>
        /\ op'[c].silent = active
        /\ pc'[c] = IF active THEN "off" ELSE "build"
    BY <1>1, SilentUpdate DEF TestActive, At, TypeOK
  <1>3. /\ enabled \in BOOLEAN /\ active \in BOOLEAN /\ refused \in {"no", "on", "off"}
        /\ pwm \in {"on", "off"} /\ op[c].val \in BOOLEAN /\ op[c].silent \in BOOLEAN
    BY <1>1, Booleans DEF TypeOK
  <1>4. Jobs(c)'
    BY <1>2, <1>3 DEF BuzzerInv, Jobs, JobFits
  <1>5. Alone(c)'
    BY <1>2 DEF BuzzerInv, Alone, Jobs, Past
  <1>6. Truth(c)'
    BY <1>2, <1>3 DEF BuzzerInv, Truth, Knows, Telling, Jobs, JobFits, Alone, Past
  <1>7. Silencing(c)'
    BY <1>2, <1>3 DEF BuzzerInv, Silencing, Truth, Knows, Jobs, Alone, Past
  <1>8. Ending(c)'
    BY <1>2, <1>3 DEF BuzzerInv, Ending, Truth, Knows, Jobs, Alone, Past
  <1> QED
    BY <1>4, <1>5, <1>6, <1>7, <1>8 DEF BuzzerInv

LEMMA ScheduleSolo ==
    ASSUME TypeOK, NEW c, Callers = {c}, BuzzerInv(c), Schedule(c)
    PROVE  BuzzerInv(c)'
  <1>1. Threads = {c, Work} /\ c # Work
    BY Contexts
  <1>2. /\ pc[c] = "schedule" /\ pc'[c] = "idle"
        /\ op'[c].job = "none" /\ op'[c].code = "NONE" /\ op'[c].silent = FALSE
        /\ pc'[Work] = pc[Work] /\ op'[Work] = op[Work]
        /\ timer' = (IF timer = "idle" THEN "pending" ELSE timer)
        /\ UNCHANGED <<enabled, pwm, active, shown, event, refused>>
    BY <1>1, ReturnSolo DEF Schedule
  <1>3. /\ enabled \in BOOLEAN /\ active \in BOOLEAN /\ refused \in {"no", "on", "off"}
        /\ pwm \in {"on", "off"} /\ op[c].val \in BOOLEAN /\ op[c].silent \in BOOLEAN
    BY <1>1, Booleans DEF TypeOK
  <1>4. Jobs(c)'
    BY <1>2, <1>3 DEF BuzzerInv, Jobs, JobFits
  <1>5. Alone(c)'
    BY <1>2 DEF BuzzerInv, Alone, Jobs, Past
  <1>6. Truth(c)'
    BY <1>2, <1>3 DEF BuzzerInv, Truth, Knows, Telling, Jobs, JobFits, Alone, Past
  <1>7. Silencing(c)'
    BY <1>2, <1>3 DEF BuzzerInv, Silencing, Truth, Knows, Jobs, Alone, Past
  <1>8. Ending(c)'
    BY <1>2, <1>3 DEF BuzzerInv, Ending, Truth, Knows, Jobs, Alone, Past
  <1> QED
    BY <1>4, <1>5, <1>6, <1>7, <1>8 DEF BuzzerInv

LEMMA TimerSolo ==
    ASSUME TypeOK, NEW c, Callers = {c}, BuzzerInv(c), TimerFires
    PROVE  BuzzerInv(c)'
  <1>1. Threads = {c, Work} /\ c # Work
    BY Contexts
  <1>2. /\ timer = "pending" /\ pc[Work] = "idle" /\ pc'[Work] = "off"
        /\ op'[Work].job = "work" /\ op'[Work].code = "OUTPUT_OFF" /\ op'[Work].silent = FALSE
        /\ pc'[c] = pc[c] /\ op'[c] = op[c]
        /\ timer' = "idle" /\ UNCHANGED <<enabled, pwm, active, shown, event, refused>>
    BY <1>1 DEF TimerFires, TypeOK, NoOp
  <1>3. /\ enabled \in BOOLEAN /\ active \in BOOLEAN /\ refused \in {"no", "on", "off"}
        /\ pwm \in {"on", "off"} /\ op[c].val \in BOOLEAN /\ op[c].silent \in BOOLEAN
    BY <1>1, Booleans DEF TypeOK
  <1>4. Jobs(c)'
    BY <1>2, <1>3 DEF BuzzerInv, Jobs, JobFits
  <1>5. Alone(c)'
    BY <1>2 DEF BuzzerInv, Alone, Jobs, Past
  <1>6. Truth(c)'
    BY <1>2, <1>3 DEF BuzzerInv, Truth, Knows, Telling, Jobs, JobFits, Alone, Past
  <1>7. Silencing(c)'
    BY <1>2, <1>3 DEF BuzzerInv, Silencing, Truth, Knows, Jobs, Alone, Past
  <1>8. Ending(c)'
    BY <1>2, <1>3 DEF BuzzerInv, Ending, Truth, Knows, Jobs, Alone, Past
  <1> QED
    BY <1>4, <1>5, <1>6, <1>7, <1>8 DEF BuzzerInv

LEMMA PwmOnSolo ==
    ASSUME TypeOK, NEW c, Callers = {c}, BuzzerInv(c), NEW t \in Threads, PwmOn(t)
    PROVE  BuzzerInv(c)'
  <1>1. Threads = {c, Work} /\ c # Work
    BY Contexts
  <1>2. /\ pc[t] = "on" /\ pc'[t] = "mark" /\ op'[t] = op[t]
        /\ pwm' = "on" /\ refused' = "no" /\ UNCHANGED <<enabled, active, shown, event, timer>>
        /\ \A u \in {c, Work} : u # t => pc'[u] = pc[u] /\ op'[u] = op[u]
    BY <1>1 DEF PwmOn, At, TypeOK
  <1>3. /\ enabled \in BOOLEAN /\ active \in BOOLEAN /\ refused \in {"no", "on", "off"}
        /\ pwm \in {"on", "off"} /\ op[t].val \in BOOLEAN /\ op[t].silent \in BOOLEAN
    BY <1>1, Booleans DEF TypeOK
  <1>4. Jobs(c)'
    BY <1>1, <1>2, <1>3 DEF BuzzerInv, Jobs, JobFits
  <1>5. Alone(c)'
    BY <1>1, <1>2 DEF BuzzerInv, Alone, Jobs, Past
  <1>6. Truth(c)'
    BY <1>1, <1>2, <1>3 DEF BuzzerInv, Truth, Knows, Telling, Jobs, JobFits, Alone, Past
  <1>7. Silencing(c)'
    BY <1>1, <1>2, <1>3 DEF BuzzerInv, Silencing, Truth, Knows, Jobs, Alone, Past
  <1>8. Ending(c)'
    BY <1>1, <1>2, <1>3 DEF BuzzerInv, Ending, Truth, Knows, Jobs, Alone, Past
  <1> QED
    BY <1>4, <1>5, <1>6, <1>7, <1>8 DEF BuzzerInv

LEMMA PwmOffSolo ==
    ASSUME TypeOK, NEW c, Callers = {c}, BuzzerInv(c), NEW t \in Threads, PwmOff(t)
    PROVE  BuzzerInv(c)'
  <1>1. Threads = {c, Work} /\ c # Work
    BY Contexts
  <1>2. /\ pc[t] = "off" /\ pc'[t] = "unmark" /\ op'[t] = op[t]
        /\ pwm' = "off" /\ refused' = "no" /\ UNCHANGED <<enabled, active, shown, event, timer>>
        /\ \A u \in {c, Work} : u # t => pc'[u] = pc[u] /\ op'[u] = op[u]
    BY <1>1 DEF PwmOff, At, TypeOK
  <1>3. /\ enabled \in BOOLEAN /\ active \in BOOLEAN /\ refused \in {"no", "on", "off"}
        /\ pwm \in {"on", "off"} /\ op[t].val \in BOOLEAN /\ op[t].silent \in BOOLEAN
    BY <1>1, Booleans DEF TypeOK
  <1>4. Jobs(c)'
    BY <1>1, <1>2, <1>3 DEF BuzzerInv, Jobs, JobFits
  <1>5. Alone(c)'
    BY <1>1, <1>2 DEF BuzzerInv, Alone, Jobs, Past
  <1>6. Truth(c)'
    BY <1>1, <1>2, <1>3 DEF BuzzerInv, Truth, Knows, Telling, Jobs, JobFits, Alone, Past
  <1>7. Silencing(c)'
    BY <1>1, <1>2, <1>3 DEF BuzzerInv, Silencing, Truth, Knows, Jobs, Alone, Past
  <1>8. Ending(c)'
    BY <1>1, <1>2, <1>3 DEF BuzzerInv, Ending, Truth, Knows, Jobs, Alone, Past
  <1> QED
    BY <1>4, <1>5, <1>6, <1>7, <1>8 DEF BuzzerInv

LEMMA PwmFailsSolo ==
    ASSUME TypeOK, NEW c, Callers = {c}, BuzzerInv(c), NEW t \in Threads, PwmFails(t)
    PROVE  BuzzerInv(c)'
  <1>1. Threads = {c, Work} /\ c # Work
    BY Contexts
  <1>2. /\ pc[t] \in {"on", "off"} /\ pc'[t] = "idle" /\ op'[t].job = "none"
        /\ op'[t].code = "NONE" /\ op'[t].silent = FALSE
        /\ refused' = pc[t] /\ UNCHANGED <<enabled, pwm, active, shown, event, timer>>
        /\ \A u \in {c, Work} : u # t => pc'[u] = pc[u] /\ op'[u] = op[u]
    BY <1>1, ReturnSolo DEF PwmFails
  <1>3. /\ enabled \in BOOLEAN /\ active \in BOOLEAN /\ refused \in {"no", "on", "off"}
        /\ pwm \in {"on", "off"} /\ op[t].val \in BOOLEAN /\ op[t].silent \in BOOLEAN
    BY <1>1, Booleans DEF TypeOK
  <1>4. Jobs(c)'
    BY <1>1, <1>2, <1>3 DEF BuzzerInv, Jobs, JobFits
  <1>5. Alone(c)'
    BY <1>1, <1>2 DEF BuzzerInv, Alone, Jobs, Past
  <1>6. Truth(c)'
    BY <1>1, <1>2, <1>3 DEF BuzzerInv, Truth, Knows, Telling, Jobs, JobFits, Alone, Past
  <1>7. Silencing(c)'
    BY <1>1, <1>2, <1>3 DEF BuzzerInv, Silencing, Truth, Knows, Jobs, Alone, Past
  <1>8. Ending(c)'
    BY <1>1, <1>2, <1>3 DEF BuzzerInv, Ending, Truth, Knows, Jobs, Alone, Past
  <1> QED
    BY <1>4, <1>5, <1>6, <1>7, <1>8 DEF BuzzerInv

LEMMA MarkSolo ==
    ASSUME TypeOK, NEW c, Callers = {c}, BuzzerInv(c), NEW t \in Threads, Mark(t)
    PROVE  BuzzerInv(c)'
  <1>1. Threads = {c, Work} /\ c # Work
    BY Contexts
  <1>2. /\ pc[t] = "mark" /\ pc'[t] = "build" /\ op'[t] = op[t]
        /\ active' = TRUE /\ UNCHANGED <<enabled, pwm, shown, event, timer, refused>>
        /\ \A u \in {c, Work} : u # t => pc'[u] = pc[u] /\ op'[u] = op[u]
    BY <1>1 DEF Mark, At, TypeOK
  <1>3. /\ enabled \in BOOLEAN /\ active \in BOOLEAN /\ refused \in {"no", "on", "off"}
        /\ pwm \in {"on", "off"} /\ op[t].val \in BOOLEAN /\ op[t].silent \in BOOLEAN
    BY <1>1, Booleans DEF TypeOK
  <1>4. Jobs(c)'
    BY <1>1, <1>2, <1>3 DEF BuzzerInv, Jobs, JobFits
  <1>5. Alone(c)'
    BY <1>1, <1>2 DEF BuzzerInv, Alone, Jobs, Past
  <1>6. Truth(c)'
    BY <1>1, <1>2, <1>3 DEF BuzzerInv, Truth, Knows, Telling, Jobs, JobFits, Alone, Past
  <1>7. Silencing(c)'
    BY <1>1, <1>2, <1>3 DEF BuzzerInv, Silencing, Truth, Knows, Jobs, Alone, Past
  <1>8. Ending(c)'
    BY <1>1, <1>2, <1>3 DEF BuzzerInv, Ending, Truth, Knows, Jobs, Alone, Past
  <1> QED
    BY <1>4, <1>5, <1>6, <1>7, <1>8 DEF BuzzerInv

LEMMA UnmarkSolo ==
    ASSUME TypeOK, NEW c, Callers = {c}, BuzzerInv(c), NEW t \in Threads, Unmark(t)
    PROVE  BuzzerInv(c)'
  <1>1. Threads = {c, Work} /\ c # Work
    BY Contexts
  <1>2. /\ pc[t] = "unmark" /\ pc'[t] = "build" /\ op'[t] = op[t]
        /\ active' = FALSE /\ UNCHANGED <<enabled, pwm, shown, event, timer, refused>>
        /\ \A u \in {c, Work} : u # t => pc'[u] = pc[u] /\ op'[u] = op[u]
    BY <1>1 DEF Unmark, At, TypeOK
  <1>3. /\ enabled \in BOOLEAN /\ active \in BOOLEAN /\ refused \in {"no", "on", "off"}
        /\ pwm \in {"on", "off"} /\ op[t].val \in BOOLEAN /\ op[t].silent \in BOOLEAN
    BY <1>1, Booleans DEF TypeOK
  <1>4. Jobs(c)'
    BY <1>1, <1>2, <1>3 DEF BuzzerInv, Jobs, JobFits
  <1>5. Alone(c)'
    BY <1>1, <1>2 DEF BuzzerInv, Alone, Jobs, Past
  <1>6. Truth(c)'
    BY <1>1, <1>2, <1>3 DEF BuzzerInv, Truth, Knows, Telling, Jobs, JobFits, Alone, Past
  <1>7. Silencing(c)'
    BY <1>1, <1>2, <1>3 DEF BuzzerInv, Silencing, Truth, Knows, Jobs, Alone, Past
  <1>8. Ending(c)'
    BY <1>1, <1>2, <1>3 DEF BuzzerInv, Ending, Truth, Knows, Jobs, Alone, Past
  <1> QED
    BY <1>4, <1>5, <1>6, <1>7, <1>8 DEF BuzzerInv

LEMMA BuildSolo ==
    ASSUME TypeOK, NEW c, Callers = {c}, BuzzerInv(c), NEW t \in Threads, BuildValue(t)
    PROVE  BuzzerInv(c)'
  <1>1. Threads = {c, Work} /\ c # Work
    BY Contexts
  <1>2. /\ pc[t] = "build" /\ pc'[t] = "publish" /\ op'[t].job = op[t].job
        /\ op'[t].code = op[t].code /\ op'[t].silent = op[t].silent /\ op'[t].val = active
        /\ UNCHANGED <<enabled, pwm, active, shown, event, timer, refused>>
        /\ \A u \in {c, Work} : u # t => pc'[u] = pc[u] /\ op'[u] = op[u]
    BY <1>1, ValUpdate DEF BuildValue, At, TypeOK
  <1>3. /\ enabled \in BOOLEAN /\ active \in BOOLEAN /\ refused \in {"no", "on", "off"}
        /\ pwm \in {"on", "off"} /\ op[t].val \in BOOLEAN /\ op[t].silent \in BOOLEAN
    BY <1>1, Booleans DEF TypeOK
  <1>4. Jobs(c)'
    BY <1>1, <1>2, <1>3 DEF BuzzerInv, Jobs, JobFits
  <1>5. Alone(c)'
    BY <1>1, <1>2 DEF BuzzerInv, Alone, Jobs, Past
  <1>6. Truth(c)'
    BY <1>1, <1>2, <1>3 DEF BuzzerInv, Truth, Knows, Telling, Jobs, JobFits, Alone, Past
  <1>7. Silencing(c)'
    BY <1>1, <1>2, <1>3 DEF BuzzerInv, Silencing, Truth, Knows, Jobs, Alone, Past
  <1>8. Ending(c)'
    BY <1>1, <1>2, <1>3 DEF BuzzerInv, Ending, Truth, Knows, Jobs, Alone, Past
  <1> QED
    BY <1>4, <1>5, <1>6, <1>7, <1>8 DEF BuzzerInv

LEMMA PublishSolo ==
    ASSUME TypeOK, NEW c, Callers = {c}, BuzzerInv(c), NEW t \in Threads, Publish(t)
    PROVE  BuzzerInv(c)'
  <1>1. Threads = {c, Work} /\ c # Work
    BY Contexts
  <1>2. /\ pc[t] = "publish" /\ pc'[t] = IF op[t].silent THEN "build" ELSE "emit"
        /\ op'[t].job = op[t].job /\ op'[t].code = op[t].code /\ op'[t].silent = FALSE
        /\ shown' = op[t].val /\ UNCHANGED <<enabled, pwm, active, event, timer, refused>>
        /\ \A u \in {c, Work} : u # t => pc'[u] = pc[u] /\ op'[u] = op[u]
    BY <1>1, SilentUpdate DEF Publish, TypeOK
  <1>3. /\ enabled \in BOOLEAN /\ active \in BOOLEAN /\ refused \in {"no", "on", "off"}
        /\ pwm \in {"on", "off"} /\ op[t].val \in BOOLEAN /\ op[t].silent \in BOOLEAN
    BY <1>1, Booleans DEF TypeOK
  <1>4. Jobs(c)'
    BY <1>1, <1>2, <1>3 DEF BuzzerInv, Jobs, JobFits
  <1>5. Alone(c)'
    BY <1>1, <1>2 DEF BuzzerInv, Alone, Jobs, Past
  <1>6. Truth(c)'
    BY <1>1, <1>2, <1>3 DEF BuzzerInv, Truth, Knows, Telling, Jobs, JobFits, Alone, Past
  <1>7. Silencing(c)'
    BY <1>1, <1>2, <1>3 DEF BuzzerInv, Silencing, Truth, Knows, Jobs, Alone, Past
  <1>8. Ending(c)'
    BY <1>1, <1>2, <1>3 DEF BuzzerInv, Ending, Truth, Knows, Jobs, Alone, Past
  <1> QED
    BY <1>4, <1>5, <1>6, <1>7, <1>8 DEF BuzzerInv

LEMMA EmitSolo ==
    ASSUME TypeOK, NEW c, Callers = {c}, BuzzerInv(c), NEW t \in Threads, Emit(t)
    PROVE  BuzzerInv(c)'
  <1>1. Threads = {c, Work} /\ c # Work
    BY Contexts
  <1>2. /\ pc[t] = "emit" /\ event' = op[t].code
        /\ UNCHANGED <<enabled, pwm, active, shown, timer, refused>>
        /\ \/ op[t].job = "sound" /\ pc'[t] = "schedule" /\ op'[t] = op[t]
           \/ /\ op[t].job # "sound" /\ pc'[t] = "idle" /\ op'[t].job = "none"
              /\ op'[t].code = "NONE" /\ op'[t].silent = FALSE
        /\ \A u \in {c, Work} : u # t => pc'[u] = pc[u] /\ op'[u] = op[u]
    <2>1. CASE op[t].job = "sound"
      BY <1>1, <2>1 DEF Emit, Done, TypeOK
    <2>2. CASE op[t].job # "sound"
      <3>1. Return(t)
        BY <2>2 DEF Emit, Done
      <3> QED
        BY <2>2, <3>1, ReturnSolo DEF Emit
    <2> QED
      BY <2>1, <2>2
  <1>3. /\ enabled \in BOOLEAN /\ active \in BOOLEAN /\ refused \in {"no", "on", "off"}
        /\ pwm \in {"on", "off"} /\ op[t].val \in BOOLEAN /\ op[t].silent \in BOOLEAN
    BY <1>1, Booleans DEF TypeOK
  <1>4. Jobs(c)'
    BY <1>1, <1>2, <1>3 DEF BuzzerInv, Jobs, JobFits
  <1>5. Alone(c)'
    BY <1>1, <1>2 DEF BuzzerInv, Alone, Jobs, Past
  <1>6. Truth(c)'
    BY <1>1, <1>2, <1>3 DEF BuzzerInv, Truth, Knows, Telling, Jobs, JobFits, Alone, Past
  <1>7. Silencing(c)'
    BY <1>1, <1>2, <1>3 DEF BuzzerInv, Silencing, Truth, Knows, Jobs, Alone, Past
  <1>8. Ending(c)'
    BY <1>1, <1>2, <1>3 DEF BuzzerInv, Ending, Truth, Knows, Jobs, Alone, Past
  <1> QED
    BY <1>4, <1>5, <1>6, <1>7, <1>8 DEF BuzzerInv

LEMMA SoloStep ==
    ASSUME NEW c, Callers = {c}, TypeOK, BuzzerInv(c), [Next]_vars
    PROVE  BuzzerInv(c)'
  <1>1. TypeOK'
    BY TypeStep
  <1>2. CASE \E k \in Callers : Sound(k) \/ Stop(k) \/ \E e \in BOOLEAN : SetCfg(k, e)
    <2>1. \E job \in {"sound", "stop", "cfg"}, arg \in BOOLEAN, code \in Code :
             (code = "OUTPUT_ON" <=> job = "sound") /\ Call(c, job, arg, code)
      BY <1>2 DEF Sound, Stop, SetCfg, Code
    <2> QED
      BY <1>1, <2>1, CallSolo
  <1>3. ASSUME NEW t \in Threads, ThreadStep(t) \/ PwmFails(t) PROVE BuzzerInv(c)'
    <2>1. CASE \/ PwmOn(t) \/ PwmOff(t) \/ PwmFails(t) \/ Mark(t) \/ Unmark(t)
               \/ BuildValue(t) \/ Publish(t) \/ Emit(t)
      BY <2>1, PwmOnSolo, PwmOffSolo, PwmFailsSolo, MarkSolo, UnmarkSolo, BuildSolo, PublishSolo,
         EmitSolo, Zenon
    <2>2. CASE /\ t \in Callers
               /\ \/ DispatchEnter(t) \/ CfgEnter(t)
                  \/ CancelWork(t) \/ FlushWork(t) \/ TestActive(t) \/ Schedule(t)
      <3>1. t = c
        BY <2>2
      <3> QED
        BY <2>2, <3>1, DispatchSolo, CfgSolo, CancelSolo, FlushSolo, TestSolo, ScheduleSolo, Zenon
    <2> QED
      BY <1>3, <2>1, <2>2, Zenon DEF ThreadStep
  <1>4. CASE UNCHANGED vars
    BY <1>4 DEF vars, BuzzerInv, Jobs, JobFits, Alone, Truth, Knows, Silencing, Ending
  <1> QED
    BY <1>2, <1>3, <1>4, TimerSolo, Zenon DEF Next

LEMMA SoloInit == ASSUME NEW c, Callers = {c}, Init PROVE BuzzerInv(c)
  <1>1. /\ pc[c] = "idle" /\ pc[Work] = "idle"
        /\ \A t \in {c, Work} : op[t].job = "none" /\ op[t].code = "NONE" /\ op[t].silent = FALSE
    BY Contexts DEF Init, NoOp
  <1>2. Jobs(c) /\ Alone(c)
    BY <1>1 DEF Jobs, JobFits, Alone, Past
  <1>3. Truth(c) /\ Silencing(c) /\ Ending(c)
    BY <1>1 DEF Init, Truth, Knows, Silencing, Ending
  <1> QED
    BY <1>2, <1>3 DEF BuzzerInv

LEMMA SoloInv == ASSUME NEW c, Callers = {c} PROVE Spec => [](TypeOK /\ BuzzerInv(c))
  <1>1. Init => TypeOK /\ BuzzerInv(c)
    BY TypeInit, SoloInit
  <1>2. TypeOK /\ BuzzerInv(c) /\ [Next]_vars => TypeOK' /\ BuzzerInv(c)'
    BY TypeStep, SoloStep
  <1> QED
    BY <1>1, <1>2, PTL DEF Spec

\* While one process uses the buzzer, priv->active and SH_FLAG_ACTIVE say what
\* the PWM does whenever no call and no work item runs, however calls, the end
\* of a tone and errors of the PWM interleave (sh_buzzer_commit_state).
THEOREM StateCorrect == ASSUME NEW c, Callers = {c} PROVE Spec => []StateIsTruth
  <1>1. TypeOK /\ BuzzerInv(c) => StateIsTruth
    BY Contexts DEF BuzzerInv, Truth, Telling, StateIsTruth, Quiet
  <1> QED
    BY <1>1, SoloInv, PTL

\* The last event a reader of the device got tells whether a tone sounds, under
\* the same assumption (the events of sh_buzzer_commit_state).
THEOREM LastEventCorrect == ASSUME NEW c, Callers = {c} PROVE Spec => []LastEventIsTruth
  <1>1. TypeOK /\ BuzzerInv(c) => LastEventIsTruth
    BY Contexts DEF BuzzerInv, Truth, Telling, LastEventIsTruth, Quiet
  <1> QED
    BY <1>1, SoloInv, PTL

\* Under the same assumption a disabled buzzer is silent between calls, unless
\* the PWM refused to be stopped: SET_SENSOR_CFG waits for the work that is running
\* before it looks at priv->active, which tells the truth also of a tone that a
\* refused ALERT has left on (sh_buzzer_apply_cfg).
THEOREM DisabledCorrect == ASSUME NEW c, Callers = {c} PROVE Spec => []DisabledIsSilent
  <1>1. TypeOK /\ BuzzerInv(c) => DisabledIsSilent
    BY Contexts DEF BuzzerInv, Silencing, DisabledIsSilent, Quiet
  <1> QED
    BY <1>1, SoloInv, PTL

\* A tone has an end in sight unless the last thing asked of the PWM, a stop or
\* the tone of an ALERT, was refused.
EndUnlessRefused == pwm = "on" => timer = "pending" \/ ~Quiet \/ refused # "no"

\* Under the same assumption a tone loses its end in one way only: the PWM refuses
\* to stop it, or refuses the next ALERT, which has cancelled its stop_work
\* (sh_buzzer_dispatch).
THEOREM EndCorrect == ASSUME NEW c, Callers = {c} PROVE Spec => []EndUnlessRefused
  <1>1. TypeOK /\ BuzzerInv(c) => EndUnlessRefused
    BY Contexts DEF BuzzerInv, Ending, EndUnlessRefused, Quiet, Past
  <1> QED
    BY <1>1, SoloInv, PTL

RefusesNothing == refused = "no"

LEMMA RefusalNeedsFailure == ASSUME PwmMayFail = FALSE PROVE Spec => []RefusesNothing
  <1>1. Init => RefusesNothing
    BY DEF Init, RefusesNothing
  <1>2. RefusesNothing /\ [Next]_vars => RefusesNothing'
    BY DEF RefusesNothing, Next, vars, ThreadStep, Sound, Stop, SetCfg, Call, DispatchEnter,
           CfgEnter, CancelWork, FlushWork, TimerFires, Schedule, PwmOn, PwmOff, PwmFails,
           TestActive, Mark, Unmark, BuildValue, Publish, Emit
  <1> QED
    BY <1>1, <1>2, PTL DEF Spec

\* With one process and a PWM that refuses nothing every tone has its end in sight:
\* the delayed work is pending, or a call or the worker that stops it runs
\* (docs/02-architecture-deep-dive.md).  Neither assumption can be dropped: run
\* buzzer_two_callers, and an ALERT that is refused while another one sounds.
THEOREM ToneCorrect ==
    ASSUME NEW c, Callers = {c}, PwmMayFail = FALSE
    PROVE  Spec => []ToneWillEnd
  <1>1. RefusesNothing /\ EndUnlessRefused => ToneWillEnd
    BY DEF RefusesNothing, EndUnlessRefused, ToneWillEnd
  <1>2. Spec => []EndUnlessRefused
    BY EndCorrect
  <1>3. Spec => []RefusesNothing
    BY RefusalNeedsFailure
  <1> QED
    BY <1>1, <1>2, <1>3, PTL
=============================================================================
