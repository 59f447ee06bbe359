-------------------------- MODULE LifecycleProofs ---------------------------
(***************************************************************************)
(* What Lifecycle promises, proved for any number of processes and calls:  *)
(* whatever the probe took is given back once (GivenBackOnce), and with    *)
(* nobody at the device file nothing outlives the memory and the I2C       *)
(* client it uses (NothingOutlivesItsMemory).                              *)
(***************************************************************************)
EXTENDS Lifecycle, TLAPS

----------------------------------------------------------------------------
(* Type correctness *)

LEMMA FlagUpdate ==
    ASSUME NEW S, NEW f \in [S -> BOOLEAN], NEW x, NEW b \in BOOLEAN
    PROVE  [f EXCEPT ![x] = b] \in [S -> BOOLEAN]
  OBVIOUS

LEMMA ArmedTypes ==
    ASSUME TypeOK, NEW e \in Endpoint
    PROVE  Armed(e) \in [Timed -> {"raw", "idle", "pending", "canceling"}]
  BY DEF TypeOK, Armed

\* The place of sh_probe that each step of it is at.
LEMMA ProbeOrder ==
    /\ Len(Probing) = 13
    /\ \A e \in Endpoint : Doing(e, "claim") =>
          phase = "probe" /\ ((step = 1 /\ e = "pir") \/ (step = 4 /\ e = "sht20") \/ (step = 10 /\ e = "buzzer"))
    /\ \A e \in Endpoint : Doing(e, "register") =>
          phase = "probe" /\ ((step = 2 /\ e = "pir") \/ (step = 6 /\ e = "sht20") \/ (step = 12 /\ e = "buzzer"))
    /\ \A e \in Timed : Doing(e, "init") =>
          phase = "probe" /\ ((step = 8 /\ e = "sht20") \/ (step = 11 /\ e = "buzzer"))
    /\ \A e \in Timed : Doing(e, "back") =>
          phase = "probe" /\ ((step = 7 /\ e = "sht20") \/ (step = 13 /\ e = "buzzer"))
    /\ Doing("pir", "irq") => phase = "probe" /\ step = 3
    /\ Doing("sht20", "client") => phase = "probe" /\ step = 5
    /\ Doing("sht20", "arm") => phase = "probe" /\ step = 9
  <1>1. Len(Probing) = 13 /\ DOMAIN Probing = 1 .. 13
    BY DEF Probing
  <1>2. ASSUME NEW i \in 1 .. 13
        PROVE  \/ i = 1 /\ Probing[i] = <<"pir", "claim">>
               \/ i = 2 /\ Probing[i] = <<"pir", "register">>
               \/ i = 3 /\ Probing[i] = <<"pir", "irq">>
               \/ i = 4 /\ Probing[i] = <<"sht20", "claim">>
               \/ i = 5 /\ Probing[i] = <<"sht20", "client">>
               \/ i = 6 /\ Probing[i] = <<"sht20", "register">>
               \/ i = 7 /\ Probing[i] = <<"sht20", "back">>
               \/ i = 8 /\ Probing[i] = <<"sht20", "init">>
               \/ i = 9 /\ Probing[i] = <<"sht20", "arm">>
               \/ i = 10 /\ Probing[i] = <<"buzzer", "claim">>
               \/ i = 11 /\ Probing[i] = <<"buzzer", "init">>
               \/ i = 12 /\ Probing[i] = <<"buzzer", "register">>
               \/ i = 13 /\ Probing[i] = <<"buzzer", "back">>
    BY DEF Probing
  <1>3. \A e, s : Doing(e, s) => phase = "probe" /\ step \in 1 .. 13 /\ Probing[step] = <<e, s>>
    BY <1>1 DEF Doing
  <1>4. ASSUME NEW e, NEW s, Doing(e, s)
        PROVE  /\ phase = "probe"
               /\ \/ step = 1 /\ e = "pir" /\ s = "claim"
                  \/ step = 2 /\ e = "pir" /\ s = "register"
                  \/ step = 3 /\ e = "pir" /\ s = "irq"
                  \/ step = 4 /\ e = "sht20" /\ s = "claim"
                  \/ step = 5 /\ e = "sht20" /\ s = "client"
                  \/ step = 6 /\ e = "sht20" /\ s = "register"
                  \/ step = 7 /\ e = "sht20" /\ s = "back"
                  \/ step = 8 /\ e = "sht20" /\ s = "init"
                  \/ step = 9 /\ e = "sht20" /\ s = "arm"
                  \/ step = 10 /\ e = "buzzer" /\ s = "claim"
                  \/ step = 11 /\ e = "buzzer" /\ s = "init"
                  \/ step = 12 /\ e = "buzzer" /\ s = "register"
                  \/ step = 13 /\ e = "buzzer" /\ s = "back"
    BY <1>2, <1>3, <1>4
  <1>5. \A e \in Endpoint : Doing(e, "claim") \/ Doing(e, "register") =>
          phase = "probe" /\ step \in {1, 2, 4, 6, 10, 12}
    BY <1>4
  <1>6. ASSUME NEW e \in Endpoint, Doing(e, "claim")
        PROVE  (step = 1 /\ e = "pir") \/ (step = 4 /\ e = "sht20") \/ (step = 10 /\ e = "buzzer")
    BY <1>4, <1>6
  <1>7. ASSUME NEW e \in Endpoint, Doing(e, "register")
        PROVE  (step = 2 /\ e = "pir") \/ (step = 6 /\ e = "sht20") \/ (step = 12 /\ e = "buzzer")
    BY <1>4, <1>7
  <1>9. ASSUME NEW e \in Timed, Doing(e, "init")
        PROVE  phase = "probe" /\ ((step = 8 /\ e = "sht20") \/ (step = 11 /\ e = "buzzer"))
    BY <1>4, <1>9
  <1>10. ASSUME NEW e \in Timed, Doing(e, "back")
        PROVE  phase = "probe" /\ ((step = 7 /\ e = "sht20") \/ (step = 13 /\ e = "buzzer"))
    BY <1>4, <1>10
  <1>8. /\ Doing("pir", "irq") => phase = "probe" /\ step = 3
        /\ Doing("sht20", "client") => phase = "probe" /\ step = 5
        /\ Doing("sht20", "arm") => phase = "probe" /\ step = 9
    BY <1>4
  <1> QED
    BY <1>1, <1>5, <1>6, <1>7, <1>8, <1>9, <1>10

LEMMA DoneTypes ==
    ASSUME TypeOK, phase = "probe", step \in 1 .. 13, Done
    PROVE  /\ IF phase' = "probe" THEN step' \in -1 .. Len(Probing) ELSE step' \in Undoing
           /\ phase' \in {"probe", "bound"} /\ dev' \in Endpoint /\ exposed' \in BOOLEAN
  <1>1. Len(Probing) = 13
    BY ProbeOrder
  <1>2. CASE step = 13
    BY <1>1, <1>2 DEF Done, TypeOK, Undoing
  <1>3. CASE step # 13
    BY <1>1, <1>3 DEF Done, TypeOK
  <1> QED
    BY <1>2, <1>3

LEMMA UnwindTypes ==
    ASSUME TypeOK, NEW s \in Undoing, NEW e \in Endpoint, Unwind(s, e)
    PROVE  /\ IF phase' = "probe" THEN step' \in -1 .. Len(Probing) ELSE step' \in Undoing
           /\ phase' \in {"unwind"} /\ dev' \in Endpoint /\ exposed' \in BOOLEAN
  BY DEF TypeOK, Unwind

LEMMA FailTypes ==
    ASSUME TypeOK, NEW e \in Endpoint, FailAt(e)
    PROVE  /\ IF phase' = "probe" THEN step' \in -1 .. Len(Probing) ELSE step' \in Undoing
           /\ phase' \in {"unwind"} /\ dev' \in Endpoint /\ exposed' \in BOOLEAN
  <1>1. dev \in Endpoint /\ "pir" \in Endpoint /\ "sht20" \in Endpoint
        /\ "misc" \in Undoing /\ "find" \in Undoing
    BY DEF TypeOK, Endpoint, Undoing
  <1>2. Unwind("misc", dev) \/ Unwind("find", "pir") \/ Unwind("find", "sht20")
    BY DEF FailAt, Endpoint
  <1> QED
    BY <1>1, <1>2, UnwindTypes

ThreadTypes ==
    /\ phase \in {"probe", "bound", "unwind", "remove", "gone"}
    /\ IF phase = "probe" THEN step \in -1 .. Len(Probing) ELSE step \in Undoing
    /\ dev \in Endpoint /\ exposed \in BOOLEAN

LEMMA ProbeTypes == ASSUME TypeOK, Probe PROVE TypeOK'
  <1> USE DEF device, works, process
  <1>d. ASSUME phase = "probe", step \in 1 .. 13, Done PROVE ThreadTypes'
    BY <1>d, DoneTypes DEF ThreadTypes
  <1>f. ASSUME NEW e \in Endpoint, FailAt(e) PROVE ThreadTypes'
    BY <1>f, FailTypes DEF ThreadTypes
  <1>u. ASSUME NEW s \in Undoing, Unwind(s, dev) PROVE ThreadTypes'
    BY <1>u, UnwindTypes DEF ThreadTypes, TypeOK
  <1>1. CASE Allocate
    <2>1. phase = "probe" /\ step = -1 /\ alive' \in BOOLEAN
      BY <1>1 DEF Allocate, TypeOK
    <2>2. CASE step' = 0 /\ UNCHANGED <<phase, dev, exposed>>
      BY <1>1, <2>1, <2>2, ProbeOrder DEF Allocate, TypeOK
    <2>3. CASE Unwind("free", dev)
      <3>1. ThreadTypes'
        BY <1>u, <2>3 DEF Undoing
      <3> QED
        BY <1>1, <2>1, <3>1 DEF Allocate, TypeOK, ThreadTypes
    <2> QED
      BY <1>1, <2>2, <2>3 DEF Allocate
  <1>2. CASE MiscRegister
    <2>1. phase = "probe" /\ step = 0 /\ node' \in BOOLEAN
      BY <1>2 DEF MiscRegister, TypeOK
    <2>2. CASE Done
      BY <1>2, <2>1, <2>2, ProbeOrder DEF MiscRegister, Done, TypeOK, memory
    <2>3. CASE Unwind("irq", dev)
      <3>1. ThreadTypes'
        BY <1>u, <2>3 DEF Undoing
      <3> QED
        BY <1>2, <2>1, <3>1 DEF MiscRegister, TypeOK, ThreadTypes, memory
    <2> QED
      BY <1>2, <2>2, <2>3 DEF MiscRegister
  <1>3. CASE SkipBuzzer
    BY <1>3 DEF SkipBuzzer, TypeOK, Undoing, memory
  <1>4. ASSUME NEW e \in Endpoint, Claim(e) PROVE TypeOK'
    <2>1. phase = "probe" /\ step \in 1 .. 13
      BY <1>4, ProbeOrder DEF Claim
    <2>2. ThreadTypes'
      BY <1>4, <1>d, <1>f, <2>1 DEF Claim
    <2>3. held' \in [{"adapter", "client"} -> Int]
      BY <1>4 DEF Claim, TypeOK
    <2> QED
      BY <1>4, <2>2, <2>3 DEF Claim, TypeOK, ThreadTypes, memory
  <1>5. CASE NewClient
    <2>1. phase = "probe" /\ step \in 1 .. 13
      BY <1>5, ProbeOrder DEF NewClient
    <2>2. ThreadTypes'
      BY <1>5, <1>d, <1>f, <2>1 DEF NewClient, Endpoint
    <2>3. held' \in [{"adapter", "client"} -> Int]
      BY <1>5 DEF NewClient, TypeOK
    <2> QED
      BY <1>5, <2>2, <2>3 DEF NewClient, TypeOK, ThreadTypes, memory
  <1>6. ASSUME NEW e \in Endpoint, Register(e) PROVE TypeOK'
    <2>1. phase = "probe" /\ step \in 1 .. 13
      BY <1>6, ProbeOrder DEF Register
    <2>2. ThreadTypes'
      BY <1>6, <1>d, <2>1 DEF Register
    <2>3. registered' \in [Endpoint -> BOOLEAN]
      BY <1>6, FlagUpdate DEF Register, TypeOK
    <2> QED
      BY <1>6, <2>2, <2>3 DEF Register, TypeOK, ThreadTypes
  <1>7. ASSUME NEW e \in Timed, SetBack(e) PROVE TypeOK'
    <2>1. phase = "probe" /\ step \in 1 .. 13
      BY <1>7, ProbeOrder DEF SetBack
    <2>2. ThreadTypes'
      BY <1>7, <1>d, <2>1 DEF SetBack
    <2>3. back' \in [Timed -> BOOLEAN]
      BY <1>7, FlagUpdate DEF SetBack, TypeOK
    <2> QED
      BY <1>7, <2>2, <2>3 DEF SetBack, TypeOK, ThreadTypes
  <1>8. ASSUME NEW e \in Timed, InitWork(e) PROVE TypeOK'
    <2>1. phase = "probe" /\ step \in 1 .. 13
      BY <1>8, ProbeOrder DEF InitWork
    <2>2. ThreadTypes'
      BY <1>8, <1>d, <2>1 DEF InitWork
    <2>3. timer' \in [Timed -> {"raw", "idle", "pending", "canceling"}]
      BY <1>8 DEF InitWork, TypeOK
    <2> QED
      BY <1>8, <2>2, <2>3 DEF InitWork, TypeOK, ThreadTypes, memory
  <1>9. CASE RequestIrq
    <2>1. phase = "probe" /\ step \in 1 .. 13
      BY <1>9, ProbeOrder DEF RequestIrq
    <2>2. ThreadTypes'
      BY <1>9, <1>d, <1>f, <2>1 DEF RequestIrq, Endpoint
    <2> QED
      BY <1>9, <2>2 DEF RequestIrq, TypeOK, ThreadTypes, memory
  <1>10. CASE ArmSht20
    <2>1. phase = "probe" /\ step \in 1 .. 13
      BY <1>10, ProbeOrder DEF ArmSht20
    <2>2. ThreadTypes'
      BY <1>10, <1>d, <2>1 DEF ArmSht20
    <2>3. timer' \in [Timed -> {"raw", "idle", "pending", "canceling"}]
      BY <1>10, ArmedTypes DEF ArmSht20, Endpoint
    <2> QED
      BY <1>10, <2>2, <2>3 DEF ArmSht20, TypeOK, ThreadTypes, memory
  <1> QED
    BY <1>1, <1>2, <1>3, <1>4, <1>5, <1>6, <1>7, <1>8, <1>9, <1>10 DEF Probe

LEMMA NextEndpointTypes ==
    ASSUME TypeOK, NextEndpoint
    PROVE  step' \in Undoing /\ dev' \in Endpoint
  BY DEF TypeOK, NextEndpoint, Endpoint, Undoing

LEMMA PutTypes ==
    ASSUME TypeOK, NEW e \in Endpoint
    PROVE  PutBack(e) \in [{"adapter", "client"} -> Int]
  BY DEF TypeOK, PutBack

LEMMA TearTypes == ASSUME TypeOK, TearDown \/ Remove PROVE TypeOK'
  <1> USE DEF device, works, process, memory
  <1>1. CASE Remove
    BY <1>1 DEF Remove, TypeOK, Endpoint, Undoing
  <1>2. CASE Find
    <2>1. step' \in Undoing /\ dev' \in Endpoint
      BY <1>2, NextEndpointTypes DEF Find, TypeOK, Undoing
    <2> QED
      BY <1>2, <2>1 DEF Find, TypeOK
  <1>3. CASE Unlist
    <2>1. step' \in Undoing /\ dev' \in Endpoint
      BY <1>3, NextEndpointTypes DEF Unlist
    <2>2. registered' \in [Endpoint -> BOOLEAN]
      BY <1>3, FlagUpdate DEF Unlist, TypeOK
    <2> QED
      BY <1>3, <2>1, <2>2 DEF Unlist, TypeOK
  <1>4. CASE Cancel \/ Flush
    BY <1>4 DEF Cancel, Flush, Undo, TypeOK, Undoing
  <1>5. CASE Put
    BY <1>5, PutTypes DEF Put, Undo, TypeOK, Undoing
  <1>6. CASE Sweep
    <2>1. held' \in [{"adapter", "client"} -> Int]
      BY <1>6, PutTypes DEF Sweep, TypeOK, Endpoint
    <2> QED
      BY <1>6, <2>1 DEF Sweep, Undo, TypeOK, Undoing, Timed
  <1>7. CASE MiscDeregister \/ FreeIrq \/ FreeMemory
    BY <1>7 DEF MiscDeregister, FreeIrq, FreeMemory, Undo, TypeOK, Undoing
  <1> QED
    BY <1>1, <1>2, <1>3, <1>4, <1>5, <1>6, <1>7 DEF TearDown

LEMMA TypeStep == ASSUME TypeOK, [Next]_vars PROVE TypeOK'
  <1> USE DEF thread, memory, device, works, process
  <1>1. CASE IrqEnter \/ IrqReturn
    BY <1>1 DEF IrqEnter, IrqReturn, TypeOK
  <1>2. ASSUME NEW e \in Timed, TimerFires(e) PROVE TypeOK'
    <2>1. running' \in [Timed -> BOOLEAN]
      BY <1>2, FlagUpdate DEF TimerFires, TypeOK
    <2> QED
      BY <1>2, <2>1 DEF TimerFires, TypeOK
  <1>3. ASSUME NEW e \in Timed, WorkReturns(e) PROVE TypeOK'
    <2>1. running' \in [Timed -> BOOLEAN]
      BY <1>3, FlagUpdate DEF WorkReturns, TypeOK
    <2>2. timer' \in [Timed -> {"raw", "idle", "pending", "canceling"}]
      BY <1>3, ArmedTypes DEF WorkReturns, TypeOK, Endpoint
    <2> QED
      BY <1>3, <2>1, <2>2 DEF WorkReturns, TypeOK
  <1>4. ASSUME NEW c \in Callers, Open(c) \/ Close(c) PROVE TypeOK'
    <2>1. file' \in [Callers -> BOOLEAN]
      BY <1>4, FlagUpdate DEF Open, Close, TypeOK
    <2>2. exposed' \in BOOLEAN
      BY <1>4 DEF Open, Close, TypeOK
    <2> QED
      BY <1>4, <2>1, <2>2 DEF Open, Close, TypeOK
  <1>5. ASSUME NEW c \in Callers, CallOnFreed(c) \/ (\E e \in Endpoint : Call(c, e)) PROVE TypeOK'
    <2>1. calls' \in 0 .. MaxCalls
      BY <1>5, CallsAssumption DEF CallOnFreed, Call, TypeOK
    <2> QED
      BY <1>5, <2>1 DEF CallOnFreed, Call, At, TypeOK
  <1>6. ASSUME NEW c \in Callers, Enter(c) \/ ExchangeEnds(c) \/ CancelRaw(c) \/ Commit(c) PROVE TypeOK'
    BY <1>6 DEF Enter, ExchangeEnds, CancelRaw, Commit, At, TypeOK
  <1>7. ASSUME NEW c \in Callers, CallCancels(c) \/ CallFlushes(c) PROVE TypeOK'
    BY <1>7 DEF CallCancels, CallFlushes, At, TypeOK
  <1>8. ASSUME NEW c \in Callers, CallArms(c) PROVE TypeOK'
    <2>1. target[c] \in Endpoint
      BY DEF TypeOK
    <2>2. timer' \in [Timed -> {"raw", "idle", "pending", "canceling"}]
      BY <1>8, <2>1, ArmedTypes DEF CallArms, TypeOK
    <2> QED
      BY <1>8, <2>2 DEF CallArms, At, TypeOK
  <1>9. CASE UNCHANGED vars
    BY <1>9 DEF vars, TypeOK
  <1> QED
    BY <1>1, <1>2, <1>3, <1>4, <1>5, <1>6, <1>7, <1>8, <1>9, ProbeTypes, TearTypes
       DEF Next, CallerStep

\* Every variable keeps its type; so the position of sh_probe and the step of the
\* tear-down tell at any time how far each has come (sensor_hub_core.c).
THEOREM TypeCorrect == Spec => []TypeOK
  <1>1. ASSUME Init PROVE TypeOK
    <2>1. step = -1 /\ phase = "probe" /\ Len(Probing) = 13
      BY <1>1, ProbeOrder DEF Init
    <2>2. step \in -1 .. Len(Probing) /\ 0 \in 0 .. MaxCalls
      BY <2>1, CallsAssumption
    <2>3. dev \in Endpoint /\ target \in [Callers -> Endpoint] /\ calls \in 0 .. MaxCalls
      BY <1>1, <2>2 DEF Init, Endpoint
    <2>4. /\ registered \in [Endpoint -> BOOLEAN] /\ back \in [Timed -> BOOLEAN]
          /\ running \in [Timed -> BOOLEAN] /\ file \in [Callers -> BOOLEAN]
      BY <1>1 DEF Init
    <2>5. /\ timer \in [Timed -> {"raw", "idle", "pending", "canceling"}]
          /\ held \in [{"adapter", "client"} -> Int]
      BY <1>1 DEF Init
    <2> QED
      BY <1>1, <2>1, <2>2, <2>3, <2>4, <2>5 DEF Init, TypeOK
  <1>2. TypeOK /\ [Next]_vars => TypeOK'
    BY TypeStep
  <1> QED
    BY <1>1, <1>2, PTL DEF Spec
----------------------------------------------------------------------------
(* What is given back *)

Tearing == phase \in {"unwind", "remove"}

\* The tear-down is done with an endpoint.
Passed(e) ==
    \/ phase = "gone"
    \/ Tearing /\ step \in {"sweep", "misc", "irq", "free"}
    \/ Tearing /\ <<dev, e>> \in {<<"sht20", "buzzer">>, <<"pir", "buzzer">>, <<"pir", "sht20">>}

\* Which endpoints are registered.
Registry ==
    /\ phase = "probe" => (registered["sht20"] <=> step > 6) /\ (registered["buzzer"] <=> step > 12)
    /\ phase = "bound" => registered["sht20"]
    /\ \A e \in Timed : Passed(e) => ~registered[e]
    /\ Tearing /\ step \in {"cancel", "flush", "put"} => dev \in Timed /\ registered[dev]
    /\ Tearing /\ step = "unlist" => registered[dev]

\* The SHT20 holds its I2C client: the sampling needs it.
Holding == registered["sht20"] /\ ~(Tearing /\ dev = "sht20" /\ step = "unlist")

\* The adapter is taken two steps before the endpoint is registered, the client
\* one; from there on, both are held exactly while the endpoint is registered.
HeldCounts ==
    IF phase = "probe"
    THEN /\ held["adapter"] = (IF step > 4 THEN 1 ELSE 0)
         /\ held["client"] = (IF step > 5 THEN 1 ELSE 0)
    ELSE \A r \in {"adapter", "client"} : held[r] = (IF Holding THEN 1 ELSE 0)

NodeGone ==
    /\ phase = "probe" /\ step <= 0 => ~node
    /\ Tearing /\ step \in {"irq", "free"} => ~node
    /\ phase = "gone" => ~node

IrqGone ==
    /\ phase = "probe" /\ step <= 3 => irq = "none"
    /\ Tearing /\ step = "free" => irq = "none"
    /\ phase = "gone" => irq = "none"

GiveInv == Registry /\ HeldCounts /\ NodeGone /\ IrqGone

\* What a step of sh_probe changes, by its place.
Forward ==
    /\ UNCHANGED <<dev, exposed>>
    /\ \/ phase' = "probe" /\ step' = step + 1 /\ step \in -1 .. 12
       \/ phase' = "bound" /\ step' = "none" /\ step \in {10, 13}
    /\ step = -1 => alive'
    /\ step # -1 => UNCHANGED alive
    /\ step # 0 => UNCHANGED node
    /\ \A e \in Endpoint : registered[e] => registered'[e]
    /\ step = 6 => registered'["sht20"]
    /\ step = 12 => registered'["buzzer"]
    /\ step # 6 => registered'["sht20"] = registered["sht20"]
    /\ step # 12 => registered'["buzzer"] = registered["buzzer"]
    /\ step = 4 => held'["adapter"] = held["adapter"] + 1
    /\ step # 4 => held'["adapter"] = held["adapter"]
    /\ step = 5 => held'["client"] = held["client"] + 1
    /\ step # 5 => held'["client"] = held["client"]
    /\ step # 9 => timer'["sht20"] \in {timer["sht20"], "idle"}
    /\ timer'["buzzer"] \in {timer["buzzer"], "idle"}
    /\ step # 3 => UNCHANGED irq

Backward ==
    /\ phase' = "unwind" /\ exposed' = (\E c \in Callers : file[c])
    /\ UNCHANGED <<alive, node, registered, timer, irq>>
    /\ held' = IF step = 5 THEN [held EXCEPT !.adapter = @ - 1] ELSE held
    /\ \/ step = -1 /\ step' = "free"
       \/ step = 0 /\ step' = "irq"
       \/ step \in {1, 3} /\ step' = "misc"
       \/ step \in {4, 5} /\ step' = "find" /\ dev' = "pir"
       \/ step = 10 /\ step' = "find" /\ dev' = "sht20"

LEMMA DonePlace ==
    ASSUME TypeOK, phase = "probe", step \in 1 .. 13, Done
    PROVE  /\ UNCHANGED <<dev, exposed>>
           /\ \/ phase' = "probe" /\ step' = step + 1 /\ step \in -1 .. 12
              \/ phase' = "bound" /\ step' = "none" /\ step \in {10, 13}
  BY ProbeOrder DEF Done

LEMMA ProbeSteps ==
    ASSUME TypeOK, Probe
    PROVE  /\ phase = "probe" /\ step \in -1 .. 13
           /\ UNCHANGED <<running, file, cpc, target>>
           /\ Forward \/ Backward
  <1> USE DEF device, works, process
  <1>t. /\ registered \in [Endpoint -> BOOLEAN] /\ held \in [{"adapter", "client"} -> Int]
        /\ timer \in [Timed -> {"raw", "idle", "pending", "canceling"}]
    BY DEF TypeOK
  <1>e. Endpoint = {"pir", "sht20", "buzzer"} /\ Timed = {"sht20", "buzzer"}
    BY DEF Endpoint, Timed
  <1>1. ASSUME Allocate PROVE Forward \/ Backward
    <2>1. /\ phase = "probe" /\ step = -1
          /\ UNCHANGED <<registered, node, held, timer, irq>>
      BY <1>1 DEF Allocate
    <2>2. CASE alive' = TRUE /\ step' = 0 /\ UNCHANGED <<phase, dev, exposed>>
      BY <1>t, <2>1, <2>2 DEF Forward
    <2>3. CASE Unwind("free", dev) /\ UNCHANGED alive
      BY <2>1, <2>3 DEF Backward, Unwind
    <2> QED
      BY <1>1, <2>2, <2>3 DEF Allocate
  <1>2. ASSUME MiscRegister PROVE Forward \/ Backward
    <2>1. Done => phase' = "probe" /\ step' = step + 1 /\ UNCHANGED <<dev, exposed>>
      BY <1>2, ProbeOrder DEF MiscRegister, Done
    <2>2. /\ phase = "probe" /\ step = 0
          /\ UNCHANGED <<alive, registered, held, timer, irq>>
      BY <1>2 DEF MiscRegister, memory
    <2>3. CASE Done
      BY <1>t, <2>1, <2>2, <2>3 DEF Forward
    <2>4. CASE Unwind("irq", dev) /\ UNCHANGED node
      BY <2>2, <2>4 DEF Backward, Unwind
    <2> QED
      BY <1>2, <2>3, <2>4 DEF MiscRegister
  <1>3. ASSUME SkipBuzzer PROVE Forward \/ Backward
    <2>1. step = 10 /\ phase = "probe"
      BY <1>3, <1>e, ProbeOrder DEF SkipBuzzer
    <2> QED
      BY <1>3, <1>t, <2>1 DEF SkipBuzzer, Forward, memory
  <1>4. ASSUME NEW e \in Endpoint, Claim(e)
        PROVE  phase = "probe" /\ step \in 1 .. 13 /\ (Forward \/ Backward)
    <2>1. phase = "probe" /\ ((step = 1 /\ e = "pir") \/ (step = 4 /\ e = "sht20") \/ (step = 10 /\ e = "buzzer"))
      BY <1>4, ProbeOrder DEF Claim
    <2>2. CASE Done /\ held' = IF e = "sht20" THEN [held EXCEPT !.adapter = @ + 1] ELSE held
      <3>1. /\ UNCHANGED <<dev, exposed>>
            /\ \/ phase' = "probe" /\ step' = step + 1 /\ step \in -1 .. 12
               \/ phase' = "bound" /\ step' = "none" /\ step \in {10, 13}
        BY <2>1, <2>2, DonePlace
      <3>2. /\ step = 4 => held'["adapter"] = held["adapter"] + 1
            /\ step # 4 => held'["adapter"] = held["adapter"]
            /\ held'["client"] = held["client"]
        BY <1>t, <2>1, <2>2
      <3> QED
        BY <1>4, <1>t, <2>1, <3>1, <3>2 DEF Claim, Forward, memory
    <2>3. CASE FailAt(e) /\ UNCHANGED held
      <3>1. \/ step = 1 /\ Unwind("misc", dev)
            \/ step = 4 /\ Unwind("find", "pir")
            \/ step = 10 /\ Unwind("find", "sht20")
        BY <2>1, <2>3 DEF FailAt
      <3>2. UNCHANGED <<alive, node, registered, timer, irq, held>>
        BY <1>4, <2>3 DEF Claim, memory
      <3> QED
        <4>1. CASE step = 1 /\ Unwind("misc", dev)
          BY <2>1, <3>2, <4>1 DEF Backward, Unwind
        <4>2. CASE step = 4 /\ Unwind("find", "pir")
          BY <2>1, <3>2, <4>2 DEF Backward, Unwind
        <4>3. CASE step = 10 /\ Unwind("find", "sht20")
          BY <2>1, <3>2, <4>3 DEF Backward, Unwind
        <4> QED
          BY <3>1, <4>1, <4>2, <4>3
    <2> QED
      BY <1>4, <2>1, <2>2, <2>3 DEF Claim
  <1>5. ASSUME NewClient PROVE Forward \/ Backward
    <2>1. phase = "probe" /\ step = 5
      BY <1>5, ProbeOrder DEF NewClient
    <2>2. CASE Done /\ held' = [held EXCEPT !.client = @ + 1]
      <3>1. UNCHANGED <<dev, exposed>> /\ phase' = "probe" /\ step' = step + 1
        BY <2>1, <2>2, DonePlace
      <3> QED
        BY <1>5, <1>t, <2>1, <2>2, <3>1 DEF NewClient, Forward, memory
    <2>3. CASE FailAt("sht20") /\ held' = [held EXCEPT !.adapter = @ - 1]
      <3>1. Unwind("find", "pir")
        BY <2>3 DEF FailAt
      <3> QED
        BY <1>5, <2>1, <2>3, <3>1 DEF NewClient, Backward, Unwind, memory
    <2> QED
      BY <1>5, <2>2, <2>3 DEF NewClient
  <1>6. ASSUME NEW e \in Endpoint, Register(e)
        PROVE  phase = "probe" /\ step \in 1 .. 13 /\ Forward
    <2>1. phase = "probe" /\ ((step = 2 /\ e = "pir") \/ (step = 6 /\ e = "sht20") \/ (step = 12 /\ e = "buzzer"))
      BY <1>6, ProbeOrder DEF Register
    <2>2. UNCHANGED <<dev, exposed>> /\ phase' = "probe" /\ step' = step + 1
      BY <1>6, <2>1, DonePlace DEF Register
    <2>3. registered' = [registered EXCEPT ![e] = TRUE] /\ registered' \in [Endpoint -> BOOLEAN]
      BY <1>6, <1>t, FlagUpdate DEF Register
    <2>4. \A x \in Endpoint : x # e => registered'[x] = registered[x]
      BY <1>t, <2>3
    <2>5. registered'[e] = TRUE
      BY <1>t, <2>3
    <2>6. /\ step = 6 => registered'["sht20"]
          /\ step = 12 => registered'["buzzer"]
          /\ step # 6 => registered'["sht20"] = registered["sht20"]
          /\ step # 12 => registered'["buzzer"] = registered["buzzer"]
      BY <1>e, <2>1, <2>4, <2>5
    <2> QED
      <3>1. UNCHANGED <<alive, node, timer, irq, held>>
        BY <1>6 DEF Register
      <3>2. step \in {2, 6, 12} /\ registered' \in [Endpoint -> BOOLEAN]
        BY <2>1, <2>3
      <3>3. \A x \in Endpoint : registered[x] => registered'[x]
        BY <2>4, <2>5
      <3> QED
        BY <2>1, <2>2, <2>6, <3>1, <3>2, <3>3 DEF Forward
  <1>7. ASSUME NEW e \in Timed, SetBack(e) \/ InitWork(e)
        PROVE  phase = "probe" /\ step \in 1 .. 13 /\ Forward
    <2>1. /\ phase = "probe" /\ step \in {7, 8, 11, 13}
          /\ step \in {8, 11} => timer' = [timer EXCEPT ![e] = "idle"]
          /\ step = 8 => e = "sht20"
          /\ step \in {7, 13} => UNCHANGED timer
      BY <1>7, ProbeOrder DEF SetBack, InitWork
    <2>2. /\ UNCHANGED <<dev, exposed>>
          /\ \/ phase' = "probe" /\ step' = step + 1 /\ step \in -1 .. 12
             \/ phase' = "bound" /\ step' = "none" /\ step \in {10, 13}
      BY <1>7, <2>1, DonePlace DEF SetBack, InitWork
    <2>3. UNCHANGED <<alive, node, registered, held, irq>>
      BY <1>7 DEF SetBack, InitWork, memory
    <2>4. /\ step # 9 => timer'["sht20"] \in {timer["sht20"], "idle"}
          /\ timer'["buzzer"] \in {timer["buzzer"], "idle"}
      BY <1>7, <1>t, <1>e, <2>1, ProbeOrder DEF InitWork, SetBack
    <2> QED
      BY <1>t, <2>1, <2>2, <2>3, <2>4 DEF Forward
  <1>8. ASSUME RequestIrq PROVE Forward \/ Backward
    <2>1. phase = "probe" /\ step = 3
      BY <1>8, ProbeOrder DEF RequestIrq
    <2>2. CASE Done
      <3>1. UNCHANGED <<dev, exposed>> /\ phase' = "probe" /\ step' = step + 1
        BY <2>1, <2>2, DonePlace
      <3> QED
        BY <1>8, <1>t, <2>1, <3>1 DEF RequestIrq, Forward, memory
    <2>3. CASE FailAt("pir") /\ UNCHANGED irq
      <3>1. Unwind("misc", dev)
        BY <2>3 DEF FailAt
      <3> QED
        BY <1>8, <2>1, <2>3, <3>1 DEF RequestIrq, Backward, Unwind, memory
    <2> QED
      BY <1>8, <2>2, <2>3 DEF RequestIrq
  <1>9. ASSUME ArmSht20 PROVE Forward \/ Backward
    <2>1. phase = "probe" /\ step = 9
      BY <1>9, ProbeOrder DEF ArmSht20
    <2>2. UNCHANGED <<dev, exposed>> /\ phase' = "probe" /\ step' = step + 1
      BY <1>9, <2>1, DonePlace DEF ArmSht20
    <2>3. timer'["buzzer"] = timer["buzzer"]
      BY <1>9, <1>t DEF ArmSht20, Armed
    <2> QED
      BY <1>9, <1>t, <2>1, <2>2, <2>3 DEF ArmSht20, Forward, memory
  <1>10. UNCHANGED <<running, file, cpc, target>>
    BY DEF Probe, Allocate, MiscRegister, SkipBuzzer, NewClient, RequestIrq, ArmSht20, Claim,
           Register, SetBack, InitWork
  <1>11. phase = "probe" /\ step \in -1 .. 13
    <2>1. CASE Allocate \/ MiscRegister
      BY <2>1 DEF Allocate, MiscRegister
    <2>2. CASE SkipBuzzer \/ NewClient \/ RequestIrq \/ ArmSht20
      BY <2>2, ProbeOrder DEF SkipBuzzer, NewClient, RequestIrq, ArmSht20, Endpoint
    <2> QED
      BY <1>4, <1>6, <1>7, <2>1, <2>2 DEF Probe
  <1>12. Forward \/ Backward
    BY <1>1, <1>2, <1>3, <1>4, <1>5, <1>6, <1>7, <1>8, <1>9 DEF Probe
  <1> QED
    BY <1>10, <1>11, <1>12

LEMMA ForwardGives == ASSUME TypeOK, phase = "probe", step \in -1 .. 13, Forward, GiveInv PROVE GiveInv'
  <1> USE DEF GiveInv
  <1>1. /\ registered["sht20"] \in BOOLEAN /\ registered["buzzer"] \in BOOLEAN
        /\ registered["sht20"] <=> step > 6
        /\ registered["buzzer"] <=> step > 12
        /\ held["adapter"] = (IF step > 4 THEN 1 ELSE 0)
        /\ held["client"] = (IF step > 5 THEN 1 ELSE 0)
        /\ step <= 0 => ~node
        /\ step <= 3 => irq = "none"
    BY DEF TypeOK, Registry, HeldCounts, NodeGone, IrqGone, Endpoint
  <1>2. CASE phase' = "probe" /\ step' = step + 1 /\ step \in -1 .. 12
    <2>1. ~Tearing' /\ \A e \in Timed : ~Passed(e)'
      BY <1>2 DEF Tearing, Passed
    <2>2. registered'["sht20"] <=> step' > 6
      BY <1>1, <1>2 DEF Forward
    <2>3. registered'["buzzer"] <=> step' > 12
      BY <1>1, <1>2 DEF Forward
    <2>4. Registry'
      BY <1>2, <2>1, <2>2, <2>3 DEF Registry
    <2>5. HeldCounts'
      <3>1. held'["adapter"] = (IF step' > 4 THEN 1 ELSE 0)
        BY <1>1, <1>2 DEF Forward
      <3>2. held'["client"] = (IF step' > 5 THEN 1 ELSE 0)
        BY <1>1, <1>2 DEF Forward
      <3> QED
        BY <1>2, <3>1, <3>2 DEF HeldCounts
    <2>6. NodeGone' /\ IrqGone'
      BY <1>1, <1>2, <2>1 DEF Forward, NodeGone, IrqGone
    <2> QED
      BY <2>4, <2>5, <2>6
  <1>3. CASE phase' = "bound" /\ step' = "none" /\ step \in {10, 13}
    <2>1. ~Tearing' /\ \A e \in Timed : ~Passed(e)'
      BY <1>3 DEF Tearing, Passed
    <2>2. registered'["sht20"]
      BY <1>1, <1>3 DEF Forward
    <2>3. Registry'
      BY <1>3, <2>1, <2>2 DEF Registry
    <2>4. HeldCounts'
      <3>1. held'["adapter"] = 1 /\ held'["client"] = 1
        BY <1>1, <1>3 DEF Forward
      <3> QED
        BY <1>3, <2>1, <2>2, <3>1 DEF HeldCounts, Holding
    <2>5. NodeGone' /\ IrqGone'
      BY <1>3, <2>1 DEF NodeGone, IrqGone
    <2> QED
      BY <2>3, <2>4, <2>5
  <1> QED
    BY <1>2, <1>3 DEF Forward

LEMMA BackwardGives == ASSUME TypeOK, phase = "probe", step \in -1 .. 13, Backward, GiveInv PROVE GiveInv'
  <1> USE DEF GiveInv
  <1>1. /\ registered["sht20"] <=> step > 6
        /\ registered["buzzer"] <=> step > 12
        /\ held["adapter"] = (IF step > 4 THEN 1 ELSE 0)
        /\ held["client"] = (IF step > 5 THEN 1 ELSE 0)
        /\ step <= 0 => ~node
        /\ step <= 3 => irq = "none"
        /\ held \in [{"adapter", "client"} -> Int]
    BY DEF TypeOK, Registry, HeldCounts, NodeGone, IrqGone
  <1>2. phase' = "unwind" /\ Tearing' /\ UNCHANGED <<node, registered, irq>>
    BY DEF Backward, Tearing
  <1>3. CASE step = 10
    <2>1. step' = "find" /\ dev' = "sht20" /\ held' = held
      BY <1>3 DEF Backward
    <2>2. registered'["sht20"] /\ ~registered'["buzzer"]
      BY <1>1, <1>2, <1>3
    <2>3. Registry'
      BY <1>2, <2>1, <2>2 DEF Registry, Passed, Timed
    <2>4. HeldCounts'
      BY <1>1, <1>2, <1>3, <2>1, <2>2 DEF HeldCounts, Holding
    <2> QED
      BY <1>2, <2>1, <2>3, <2>4 DEF NodeGone, IrqGone
  <1>4. CASE step # 10
    <2>1. ~registered'["sht20"] /\ ~registered'["buzzer"]
      BY <1>1, <1>2, <1>4 DEF Backward
    <2>2. Registry'
      BY <1>2, <1>4, <2>1 DEF Registry, Backward, Timed
    <2>3. held'["adapter"] = 0 /\ held'["client"] = 0
      BY <1>1, <1>4 DEF Backward
    <2>4. HeldCounts'
      BY <1>2, <2>1, <2>3 DEF HeldCounts, Holding
    <2>5. NodeGone' /\ IrqGone'
      BY <1>1, <1>2, <1>4 DEF Backward, NodeGone, IrqGone
    <2> QED
      BY <2>2, <2>4, <2>5
  <1> QED
    BY <1>3, <1>4

LEMMA TearGives == ASSUME TypeOK, GiveInv, TearDown \/ Remove PROVE GiveInv'
  <1> USE DEF GiveInv, Tearing, memory, device
  <1>t. /\ dev \in {"pir", "sht20", "buzzer"} /\ registered \in [Endpoint -> BOOLEAN]
        /\ held \in [{"adapter", "client"} -> Int]
    BY DEF TypeOK, Endpoint
  <1>e. Endpoint = {"pir", "sht20", "buzzer"} /\ Timed = {"sht20", "buzzer"}
    BY DEF Endpoint, Timed
  <1>n. ASSUME Tearing, UNCHANGED phase, NextEndpoint, ~registered'[dev], held' = held,
               \A e \in Endpoint : registered'[e] => registered[e],
               registered'["sht20"] <=> Holding, UNCHANGED <<node, irq>>,
               step \in {"find", "unlist"}
        PROVE  GiveInv'
    <2>1. \/ dev = "buzzer" /\ step' = "find" /\ dev' = "sht20"
          \/ dev = "sht20" /\ step' = "find" /\ dev' = "pir"
          \/ dev = "pir" /\ dev' = "pir" /\ step' \in {"sweep", "misc"}
      BY <1>n, <1>t DEF NextEndpoint
    <2>2. \A e \in Timed : Passed(e)' => e = dev \/ Passed(e)
      BY <1>n, <1>e, <2>1 DEF Passed
    <2>3. Registry'
      BY <1>n, <1>e, <2>1, <2>2 DEF Registry
    <2>4. HeldCounts'
      BY <1>n, <1>e, <2>1 DEF HeldCounts, Holding
    <2>5. NodeGone' /\ IrqGone'
      BY <1>n, <2>1 DEF NodeGone, IrqGone
    <2> QED
      BY <2>3, <2>4, <2>5
  <1>1. CASE Remove
    BY <1>1, <1>e DEF Remove, Registry, HeldCounts, Holding, NodeGone, IrqGone, Passed
  <1>2. CASE Find /\ ~registered[dev]
    BY <1>2, <1>n DEF Find, Holding
  <1>3. CASE Find /\ registered[dev]
    BY <1>3, <1>e, <1>t DEF Find, Registry, HeldCounts, Holding, NodeGone, IrqGone, Passed
  <1>4. CASE Cancel \/ Flush
    BY <1>4 DEF Cancel, Flush, Undo, Registry, HeldCounts, Holding, NodeGone, IrqGone, Passed
  <1>5. CASE Put
    <2>1. /\ Tearing /\ step = "put" /\ dev \in Timed /\ registered[dev]
          /\ UNCHANGED <<phase, dev, registered, node, irq>> /\ step' = "unlist"
      BY <1>5 DEF Put, Undo, Registry
    <2>2. HeldCounts'
      <3>1. CASE dev = "sht20"
        <4>1. \A r \in {"adapter", "client"} : held[r] = 1
          BY <2>1, <3>1 DEF HeldCounts, Holding
        <4>2. \A r \in {"adapter", "client"} : held'[r] = held[r] - 1
          BY <1>5, <1>t, <3>1 DEF Put, PutBack
        <4>3. ~Holding'
          BY <2>1, <3>1 DEF Holding
        <4> QED
          BY <2>1, <4>1, <4>2, <4>3 DEF HeldCounts
      <3>2. CASE dev # "sht20"
        <4>1. held' = held
          BY <1>5, <3>2 DEF Put, PutBack
        <4> QED
          BY <2>1, <3>2, <4>1 DEF HeldCounts, Holding
      <3> QED
        BY <3>1, <3>2
    <2>3. Registry' /\ NodeGone' /\ IrqGone'
      BY <2>1 DEF Registry, NodeGone, IrqGone, Passed
    <2> QED
      BY <2>2, <2>3
  <1>6. CASE Unlist
    <2>1. /\ Tearing /\ step = "unlist" /\ NextEndpoint /\ UNCHANGED <<phase, held, node, irq>>
          /\ registered' = [registered EXCEPT ![dev] = FALSE]
      BY <1>6 DEF Unlist
    <2>2. /\ ~registered'[dev]
          /\ \A e \in Endpoint : registered'[e] => registered[e]
          /\ \A e \in Endpoint : e # dev => registered'[e] = registered[e]
      BY <1>t, <1>e, <2>1
    <2>3. registered'["sht20"] <=> Holding
      BY <1>e, <1>t, <2>1, <2>2 DEF Holding
    <2> QED
      BY <1>n, <2>1, <2>2, <2>3
  <1>7. CASE Sweep
    <2>1. /\ phase \in {"unwind", "remove"} /\ step = "sweep" /\ step' = "misc"
          /\ UNCHANGED <<phase, dev, registered, node, irq>>
      BY <1>7 DEF Sweep, Undo
    <2>2. ~registered["sht20"]
      BY <2>1, <1>e DEF Registry, Passed
    <2>3. held' = held
      BY <1>7, <2>2 DEF Sweep
    <2> QED
      BY <2>1, <2>3 DEF Registry, HeldCounts, Holding, NodeGone, IrqGone, Passed
  <1>8. CASE MiscDeregister \/ FreeIrq
    BY <1>8 DEF MiscDeregister, FreeIrq, Undo, Registry, HeldCounts, Holding, NodeGone, IrqGone, Passed
  <1>9. CASE FreeMemory
    <2>1. /\ phase \in {"unwind", "remove"} /\ step = "free" /\ phase' = "gone"
          /\ UNCHANGED <<dev, registered, node, irq, held>>
      BY <1>9 DEF FreeMemory, Undo
    <2>2. ~registered["sht20"] /\ ~registered["buzzer"]
      BY <2>1, <1>e DEF Registry, Passed
    <2> QED
      BY <1>e, <2>1, <2>2 DEF Registry, HeldCounts, Holding, NodeGone, IrqGone
  <1> QED
    BY <1>1, <1>2, <1>3, <1>4, <1>5, <1>6, <1>7, <1>8, <1>9 DEF TearDown

\* Only sh_probe, sh_remove, error paths and the interrupt change what GiveInv
\* speaks of.
LEMMA OtherSteps ==
    ASSUME [Next]_vars, ~Probe, ~TearDown, ~Remove
    PROVE  UNCHANGED <<phase, step, dev, alive, registered, node, held>>
  BY DEF Next, vars, thread, memory, device, works, process, IrqEnter, IrqReturn, TimerFires, WorkReturns,
         Open, Close, CallOnFreed, Call, CallerStep, Enter, ExchangeEnds, CancelRaw, CallCancels,
         CallFlushes, Commit, CallArms

LEMMA IrqSteps ==
    ASSUME [Next]_vars, ~Probe, ~TearDown, ~Remove
    PROVE  UNCHANGED irq \/ (irq # "none" /\ irq' # "none")
  BY DEF Next, vars, thread, memory, device, works, process, IrqEnter, IrqReturn, TimerFires, WorkReturns,
         Open, Close, CallOnFreed, Call, CallerStep, Enter, ExchangeEnds, CancelRaw, CallCancels,
         CallFlushes, Commit, CallArms

LEMMA GiveStep == ASSUME TypeOK, GiveInv, [Next]_vars PROVE GiveInv'
  <1>1. CASE Probe
    BY <1>1, ProbeSteps, ForwardGives, BackwardGives
  <1>2. CASE TearDown \/ Remove
    BY <1>2, TearGives
  <1>3. CASE ~Probe /\ ~TearDown /\ ~Remove
    <2>1. /\ UNCHANGED <<phase, step, dev, alive, registered, node, held>>
          /\ UNCHANGED irq \/ (irq # "none" /\ irq' # "none")
      BY <1>3, OtherSteps, IrqSteps
    <2> QED
      BY <2>1 DEF GiveInv, Registry, HeldCounts, Holding, NodeGone, IrqGone, Passed, Tearing
  <1> QED
    BY <1>1, <1>2, <1>3

LEMMA GiveInvCorrect == Spec => []GiveInv
  <1>1. Init => GiveInv
    BY DEF Init, GiveInv, Registry, HeldCounts, NodeGone, IrqGone, Passed, Tearing, Timed, Endpoint
  <1>2. TypeOK /\ GiveInv /\ [Next]_vars => GiveInv'
    BY GiveStep
  <1> QED
    BY <1>1, <1>2, TypeCorrect, PTL DEF Spec

\* Wherever the probe fails, and whoever interferes with the tear-down, the I2C
\* adapter and client are put back once and never twice, and the device file and
\* the interrupt are gone at the end (sh_probe, sh_remove, sh_sht20_remove).
THEOREM GiveBackCorrect == Spec => []GivenBackOnce
  <1>1. TypeOK /\ GiveInv => GivenBackOnce
    <2> SUFFICES ASSUME TypeOK, GiveInv PROVE GivenBackOnce
      OBVIOUS
    <2>1. held \in [{"adapter", "client"} -> Int] /\ DOMAIN held = {"adapter", "client"}
      BY DEF TypeOK
    <2>2. \A r \in DOMAIN held : held[r] \in {0, 1}
      BY <2>1 DEF GiveInv, HeldCounts
    <2>3. ASSUME phase = "gone" PROVE held = [r \in DOMAIN held |-> 0] /\ ~node /\ irq = "none"
      <3>1. ~Holding
        BY <2>3 DEF GiveInv, Registry, Passed, Holding, Timed
      <3>2. \A r \in DOMAIN held : held[r] = 0
        BY <2>1, <2>3, <3>1 DEF GiveInv, HeldCounts
      <3>3. held = [r \in DOMAIN held |-> 0]
        BY <2>1, <3>2
      <3> QED
        BY <2>3, <3>3 DEF GiveInv, NodeGone, IrqGone
    <2> QED
      BY <2>2, <2>3 DEF GivenBackOnce
  <1> QED
    BY <1>1, TypeCorrect, GiveInvCorrect, PTL
----------------------------------------------------------------------------
(* What outlives what *)

\* The work of an endpoint does not run and is not going to.
Resting(e) == ~running[e] /\ timer[e] # "pending"

MemoryGone ==
    ~alive => \/ phase = "probe" /\ step = -1
              \/ phase = "unwind" /\ step = "free"
              \/ phase = "gone"

\* Who is in a call has the file open, and his endpoint is registered at least
\* until the tear-down begins.
CallsInFile ==
    \A c \in Callers :
        /\ cpc[c] # "idle" => file[c]
        /\ cpc[c] \notin {"idle", "lost"} /\ phase \in {"probe", "bound"} => registered[target[c]]
        /\ cpc[c] = "exchange" => target[c] = "sht20"
        /\ cpc[c] \in {"cancel", "flush", "commit", "arm"} => target[c] \in Timed

\* Exposure is a matter of the tear-down.
ExposedMeansOpen ==
    /\ phase \in {"probe", "bound"} => ~exposed
    /\ phase \notin {"probe", "bound"} /\ ~exposed => \A c \in Callers : ~file[c]

\* Unless it is exposed, an endpoint out of the registry rests, and so does
\* one that is about to leave it.
RestsUnlisted ==
    ~exposed =>
        \A e \in Timed :
            ~registered[e] \/ (Tearing /\ dev = e /\ step \in {"put", "unlist"}) => Resting(e)

\* While the tear-down waits for the work, nobody arms it.
CancelKeeps ==
    ~exposed /\ Tearing /\ step = "flush" => timer[dev] = "canceling"

\* Nobody opens a device file that does not exist yet.
NoFileYet == phase = "probe" /\ step <= 0 => \A c \in Callers : ~file[c]

LifeInv == NoFileYet /\ MemoryGone /\ CallsInFile /\ ExposedMeansOpen /\ RestsUnlisted /\ CancelKeeps

LEMMA ProbeLives == ASSUME TypeOK, GiveInv, LifeInv, Probe PROVE LifeInv'
  <1> USE DEF LifeInv
  <1>1. /\ phase = "probe" /\ step \in -1 .. 13
        /\ UNCHANGED <<running, file, cpc, target>>
        /\ Forward \/ Backward
    BY ProbeSteps
  <1>2. /\ ~exposed /\ (~alive => step = -1)
        /\ step > 6 => registered["sht20"]
        /\ Timed = {"sht20", "buzzer"} /\ Timed \subseteq Endpoint
    BY <1>1 DEF ExposedMeansOpen, MemoryGone, GiveInv, Registry, Timed, Endpoint
  <1>3. CASE Forward
    <2>1. phase' \in {"probe", "bound"} /\ ~Tearing' /\ ~exposed'
      BY <1>2, <1>3 DEF Forward, Tearing
    <2>2. CallsInFile'
      <3>1. target \in [Callers -> Endpoint]
        BY DEF TypeOK
      <3>2. \A e \in Endpoint : registered[e] => registered'[e]
        BY <1>3 DEF Forward
      <3> QED
        BY <1>1, <3>1, <3>2 DEF CallsInFile
    <2>3. MemoryGone'
      BY <1>1, <1>2, <1>3 DEF MemoryGone, Forward
    <2>4. RestsUnlisted'
      <3>1. ASSUME NEW e \in Timed, ~registered'[e] PROVE Resting(e)'
        <4>1. ~registered[e] /\ Resting(e)
          BY <1>2, <1>3, <3>1 DEF Forward, RestsUnlisted
        <4>2. timer'[e] \in {timer[e], "idle"}
          BY <1>2, <1>3, <4>1 DEF Forward
        <4> QED
          BY <1>1, <4>1, <4>2 DEF Resting
      <3> QED
        BY <2>1, <3>1 DEF RestsUnlisted
    <2>5. ExposedMeansOpen' /\ CancelKeeps' /\ NoFileYet'
      BY <1>1, <1>3, <2>1 DEF ExposedMeansOpen, CancelKeeps, NoFileYet, Forward
    <2> QED
      BY <2>2, <2>3, <2>4, <2>5
  <1>4. CASE Backward
    <2>1. /\ phase' = "unwind" /\ exposed' = (\E c \in Callers : file'[c])
          /\ step' \in {"free", "irq", "misc", "find"} /\ (step = -1 => step' = "free")
          /\ UNCHANGED <<alive, registered, timer>>
      BY <1>1, <1>4 DEF Backward
    <2>2. CallsInFile'
      BY <1>1, <2>1 DEF CallsInFile
    <2>3. MemoryGone' /\ CancelKeeps'
      BY <1>2, <2>1 DEF MemoryGone, CancelKeeps
    <2>4. ExposedMeansOpen' /\ NoFileYet'
      BY <2>1 DEF ExposedMeansOpen, NoFileYet
    <2>5. RestsUnlisted'
      BY <1>1, <1>2, <2>1 DEF RestsUnlisted, Resting, Tearing
    <2> QED
      BY <2>2, <2>3, <2>4, <2>5
  <1> QED
    BY <1>1, <1>3, <1>4

LEMMA TearLives == ASSUME TypeOK, GiveInv, LifeInv, TearDown \/ Remove PROVE LifeInv'
  <1> USE DEF LifeInv, memory, device, works, process
  <1>t. /\ timer \in [Timed -> {"raw", "idle", "pending", "canceling"}]
        /\ registered \in [Endpoint -> BOOLEAN] /\ Timed \subseteq Endpoint
    BY DEF TypeOK, Timed, Endpoint
  <1>1. CASE Remove
    <2>1. /\ phase = "bound" /\ phase' = "remove" /\ step' = "find"
          /\ exposed' = (\E c \in Callers : file[c])
          /\ UNCHANGED <<alive, registered, file, timer, running, cpc, target>>
      BY <1>1 DEF Remove
    <2>2. ~exposed /\ alive
      BY <2>1 DEF ExposedMeansOpen, MemoryGone
    <2>3. RestsUnlisted'
      BY <2>1, <2>2 DEF RestsUnlisted, Resting, Tearing
    <2> QED
      BY <2>1, <2>2, <2>3 DEF MemoryGone, CallsInFile, ExposedMeansOpen, CancelKeeps, NoFileYet
  <1>2. CASE TearDown
    <2>1. /\ Tearing /\ phase' \in {phase, "gone"} /\ UNCHANGED <<exposed, running, file, cpc, target>>
          /\ ~Remove
      BY <1>2 DEF TearDown, Find, Cancel, Flush, Put, Unlist, Sweep, MiscDeregister, FreeIrq, FreeMemory,
                  Undo, Remove, Tearing
    <2>2. CallsInFile' /\ ExposedMeansOpen' /\ NoFileYet'
      BY <2>1 DEF CallsInFile, ExposedMeansOpen, NoFileYet, Tearing
    <2>3. MemoryGone'
      <3>1. CASE FreeMemory
        BY <3>1 DEF FreeMemory, MemoryGone
      <3>2. CASE ~FreeMemory
        <4>1. UNCHANGED <<alive, phase>> /\ (step = "free" => phase = "remove")
          BY <1>2, <3>2 DEF TearDown, Find, Cancel, Flush, Put, Unlist, Sweep, MiscDeregister, FreeIrq, Undo
        <4> QED
          BY <2>1, <4>1 DEF MemoryGone, Tearing
      <3> QED
        BY <3>1, <3>2
    <2>4. CASE Cancel
      <3>1. /\ step' = "flush" /\ timer' = [timer EXCEPT ![dev] = "canceling"] /\ dev \in Timed
            /\ UNCHANGED <<phase, dev, registered>>
        BY <2>4 DEF Cancel, Undo, GiveInv, Registry, Tearing
      <3>2. timer'[dev] = "canceling" /\ \A e \in Timed : timer'[e] \in {timer[e], "canceling"}
        BY <1>t, <3>1
      <3>3. RestsUnlisted'
        BY <2>1, <3>1, <3>2 DEF RestsUnlisted, Resting
      <3>4. CancelKeeps'
        BY <3>1, <3>2 DEF CancelKeeps
      <3> QED
        BY <2>2, <2>3, <3>3, <3>4
    <2>5. CASE Flush
      <3>1. /\ step' = "put" /\ timer' = [timer EXCEPT ![dev] = "idle"] /\ ~running[dev]
            /\ UNCHANGED <<phase, dev, registered>>
        BY <2>5 DEF Flush, Undo, AtRest
      <3>2. /\ \A e \in Timed : timer'[e] \in {timer[e], "idle"}
            /\ dev \in Timed => timer'[dev] = "idle"
        BY <1>t, <3>1
      <3>3. RestsUnlisted'
        BY <2>1, <3>1, <3>2 DEF RestsUnlisted, Resting
      <3>4. CancelKeeps'
        BY <3>1 DEF CancelKeeps
      <3> QED
        BY <2>2, <2>3, <3>3, <3>4
    <2>6. CASE Unlist
      <3>1. /\ step' \in {"find", "sweep", "misc"} /\ registered' = [registered EXCEPT ![dev] = FALSE]
            /\ UNCHANGED timer /\ step = "unlist"
        BY <2>6 DEF Unlist, NextEndpoint, TypeOK, Endpoint
      <3>2. \A e \in Timed : e # dev => registered'[e] = registered[e]
        BY <1>t, <3>1
      <3>3. RestsUnlisted'
        BY <2>1, <3>1, <3>2 DEF RestsUnlisted, Resting
      <3> QED
        BY <2>2, <2>3, <3>1, <3>3 DEF CancelKeeps
    <2>7. CASE Sweep
      <3>1. /\ step' = "misc" /\ UNCHANGED registered
            /\ \A e \in Timed : timer'[e] \in {timer[e], "idle"}
        BY <2>7 DEF Sweep, Undo
      <3>2. RestsUnlisted' /\ CancelKeeps'
        BY <2>1, <3>1 DEF RestsUnlisted, Resting, CancelKeeps
      <3> QED
        BY <2>2, <2>3, <3>2
    <2>8. CASE Find
      <3>1. step' \in {"find", "cancel", "unlist", "sweep", "misc"} /\ UNCHANGED <<registered, timer>>
        BY <2>8 DEF Find, NextEndpoint, TypeOK, Endpoint
      <3>2. ASSUME step' = "unlist" PROVE dev' = dev /\ dev \notin Timed
        BY <2>8, <3>2 DEF Find, NextEndpoint, TypeOK, Endpoint
      <3>3. step' # "put"
        BY <3>1
      <3>4. RestsUnlisted' /\ CancelKeeps'
        BY <2>1, <3>1, <3>2, <3>3 DEF RestsUnlisted, Resting, CancelKeeps
      <3> QED
        BY <2>2, <2>3, <3>4
    <2>9. CASE Put
      <3>1. step = "put" /\ step' = "unlist" /\ UNCHANGED <<phase, dev, registered, timer>>
        BY <2>9 DEF Put, Undo
      <3>2. RestsUnlisted' /\ CancelKeeps'
        BY <2>1, <3>1 DEF RestsUnlisted, Resting, CancelKeeps, Tearing
      <3> QED
        BY <2>2, <2>3, <3>2
    <2>10. CASE MiscDeregister \/ FreeIrq \/ FreeMemory
      <3>1. step' \in {"irq", "free", "none"} /\ UNCHANGED <<registered, timer>>
        BY <2>10 DEF MiscDeregister, FreeIrq, FreeMemory, Undo
      <3>2. RestsUnlisted' /\ CancelKeeps'
        BY <2>1, <3>1 DEF RestsUnlisted, Resting, CancelKeeps
      <3> QED
        BY <2>2, <2>3, <3>2
    <2> QED
      BY <1>2, <2>4, <2>5, <2>6, <2>7, <2>8, <2>9, <2>10 DEF TearDown
  <1> QED
    BY <1>1, <1>2

LEMMA ThreadUnchanged ==
    ASSUME [Next]_vars, ~Probe, ~TearDown, ~Remove
    PROVE  UNCHANGED <<phase, step, dev, alive, registered, node>>
  BY OtherSteps

\* A step of a call changes the work of its own endpoint only, and when the
\* driver is not torn down, or exposed, that endpoint is registered.
LEMMA CallLives ==
    ASSUME TypeOK, LifeInv, NEW c \in Callers, UNCHANGED <<thread, memory, file, running, target, exposed>>,
           file[c], cpc[c] # "idle", cpc[c] # "lost",
           NEW p, cpc' = [cpc EXCEPT ![c] = p],
           p = "exchange" => target[c] = "sht20",
           p \in {"cancel", "flush", "commit", "arm"} => target[c] \in Timed,
           \A e \in Timed : e # target[c] => timer'[e] = timer[e]
    PROVE  LifeInv'
  <1> USE DEF LifeInv, thread, memory
  <1>t. cpc \in [Callers -> {"idle", "enter", "exchange", "cancel", "flush", "commit", "arm", "lost"}]
    BY DEF TypeOK
  <1>1. \A d \in Callers : cpc'[d] = IF d = c THEN p ELSE cpc[d]
    BY <1>t
  <1>2. CallsInFile'
    BY <1>1 DEF CallsInFile
  <1>3. exposed \/ phase \in {"probe", "bound"}
    BY DEF ExposedMeansOpen
  <1>4. phase \in {"probe", "bound"} => registered[target[c]]
    BY DEF CallsInFile
  <1>5. RestsUnlisted'
    BY <1>3, <1>4 DEF RestsUnlisted, Resting, Tearing
  <1> QED
    BY <1>2, <1>3, <1>5 DEF MemoryGone, ExposedMeansOpen, CancelKeeps, NoFileYet, Tearing

LEMMA CallerLives ==
    ASSUME TypeOK, GiveInv, LifeInv, NEW c \in Callers,
           Open(c) \/ Close(c) \/ CallOnFreed(c) \/ CallerStep(c) \/ (\E e \in Endpoint : Call(c, e))
    PROVE  LifeInv'
  <1> USE DEF device, works, process
  <1>t. /\ cpc \in [Callers -> {"idle", "enter", "exchange", "cancel", "flush", "commit", "arm", "lost"}]
        /\ file \in [Callers -> BOOLEAN] /\ target \in [Callers -> Endpoint]
        /\ timer \in [Timed -> {"raw", "idle", "pending", "canceling"}]
        /\ phase \in {"probe", "bound", "unwind", "remove", "gone"}
    BY DEF TypeOK
  <1>c. cpc[c] # "idle" => file[c]
    BY DEF LifeInv, CallsInFile
  <1>f. target[c] \in Timed \/ cpc[c] \notin {"cancel", "flush", "commit", "arm"}
    BY DEF LifeInv, CallsInFile
  <1>1. CASE Open(c)
    <2>1. /\ UNCHANGED <<phase, step, dev, alive, registered, timer, running, cpc, target>>
          /\ file' = [file EXCEPT ![c] = TRUE] /\ exposed' = (exposed \/ phase \in {"unwind", "remove"})
          /\ node
      BY <1>1 DEF Open, thread, memory
    <2>2. phase # "gone" /\ \A d \in Callers : file[d] => file'[d]
      BY <1>t, <2>1 DEF GiveInv, NodeGone
    <2>3. ExposedMeansOpen' /\ NoFileYet'
      BY <1>t, <2>1, <2>2 DEF LifeInv, ExposedMeansOpen, NoFileYet, GiveInv, NodeGone
    <2>4. CallsInFile'
      BY <2>1, <2>2 DEF LifeInv, CallsInFile
    <2>5. RestsUnlisted' /\ CancelKeeps' /\ MemoryGone'
      BY <2>1 DEF LifeInv, RestsUnlisted, Resting, CancelKeeps, MemoryGone, Tearing
    <2> QED
      BY <2>3, <2>4, <2>5 DEF LifeInv
  <1>2. CASE Close(c)
    <2>1. /\ UNCHANGED <<phase, step, dev, alive, registered, timer, running, cpc, target, exposed>>
          /\ file' = [file EXCEPT ![c] = FALSE] /\ cpc[c] = "idle"
      BY <1>2 DEF Close, thread, memory
    <2>2. \A d \in Callers : (file'[d] => file[d]) /\ (d # c => file'[d] = file[d])
      BY <1>t, <2>1
    <2>3. CallsInFile' /\ ExposedMeansOpen' /\ NoFileYet'
      BY <2>1, <2>2 DEF LifeInv, CallsInFile, ExposedMeansOpen, NoFileYet
    <2>4. RestsUnlisted' /\ CancelKeeps' /\ MemoryGone'
      BY <2>1 DEF LifeInv, RestsUnlisted, Resting, CancelKeeps, MemoryGone, Tearing
    <2> QED
      BY <2>3, <2>4 DEF LifeInv
  <1>3. ASSUME CallOnFreed(c) \/ (\E e \in Endpoint : Call(c, e)) PROVE LifeInv'
    <2>1. /\ UNCHANGED <<phase, step, dev, alive, registered, timer, running, file, exposed>>
          /\ file[c]
      BY <1>3 DEF CallOnFreed, Call, thread, memory
    <2>2. /\ cpc'[c] \in {"lost", "enter"} /\ (cpc'[c] = "enter" => registered[target'[c]])
          /\ \A d \in Callers : d # c => cpc'[d] = cpc[d] /\ target'[d] = target[d]
      BY <1>3, <1>t DEF CallOnFreed, Call, At
    <2>3. CallsInFile'
      BY <2>1, <2>2 DEF LifeInv, CallsInFile
    <2>4. RestsUnlisted' /\ CancelKeeps' /\ MemoryGone' /\ ExposedMeansOpen' /\ NoFileYet'
      BY <2>1 DEF LifeInv, RestsUnlisted, Resting, CancelKeeps, MemoryGone, ExposedMeansOpen, NoFileYet,
                  Tearing
    <2> QED
      BY <2>3, <2>4 DEF LifeInv
  <1>4. CASE Enter(c)
    <2>1. PICK p \in {"idle", "exchange", "cancel"} :
             /\ cpc' = [cpc EXCEPT ![c] = p] /\ cpc[c] = "enter"
             /\ p = "exchange" => target[c] = "sht20"
             /\ p = "cancel" => target[c] \in Timed
      BY <1>4 DEF Enter, At
    <2>2. /\ p = "exchange" => target[c] = "sht20"
          /\ p \in {"cancel", "flush", "commit", "arm"} => target[c] \in Timed
      BY <2>1
    <2> QED
      BY <1>4, <1>c, <2>1, <2>2, CallLives DEF Enter
  <1>5. CASE ExchangeEnds(c) \/ CancelRaw(c) \/ CallCancels(c) \/ CallFlushes(c) \/ Commit(c) \/ CallArms(c)
    <2>1. PICK p \in {"idle", "lost", "flush", "commit", "arm"} :
             cpc' = [cpc EXCEPT ![c] = p] /\ cpc[c] \in {"exchange", "cancel", "flush", "commit", "arm"}
             /\ (cpc[c] = "exchange" => p = "idle")
      BY <1>5 DEF ExchangeEnds, CancelRaw, CallCancels, CallFlushes, Commit, CallArms, At
    <2>2. UNCHANGED <<thread, memory, file, running, target, exposed>>
      BY <1>5 DEF ExchangeEnds, CancelRaw, CallCancels, CallFlushes, Commit, CallArms
    <2>3. \A e \in Timed : e # target[c] => timer'[e] = timer[e]
      BY <1>5, <1>t DEF ExchangeEnds, CancelRaw, CallCancels, CallFlushes, Commit, CallArms, Armed
    <2>4. /\ p = "exchange" => target[c] = "sht20"
          /\ p \in {"cancel", "flush", "commit", "arm"} => target[c] \in Timed
      BY <2>1, <1>f
    <2> QED
      BY <1>c, <2>1, <2>2, <2>3, <2>4, CallLives
  <1> QED
    BY <1>1, <1>2, <1>3, <1>4, <1>5 DEF CallerStep

LEMMA LifeStep == ASSUME TypeOK, GiveInv, LifeInv, [Next]_vars PROVE LifeInv'
  <1>t. /\ timer \in [Timed -> {"raw", "idle", "pending", "canceling"}] /\ running \in [Timed -> BOOLEAN]
    BY DEF TypeOK
  <1> USE DEF thread, memory, device, works, process
  <1>1. CASE IrqEnter \/ IrqReturn \/ UNCHANGED vars
    BY <1>1 DEF IrqEnter, IrqReturn, vars, LifeInv, MemoryGone, CallsInFile, ExposedMeansOpen, RestsUnlisted,
                CancelKeeps, NoFileYet, Resting, Tearing
  <1>2. ASSUME NEW e \in Timed, TimerFires(e) \/ WorkReturns(e) PROVE LifeInv'
    <2>1. /\ UNCHANGED <<phase, step, dev, alive, registered, file, cpc, target, exposed>>
          /\ \A d \in Timed : d # e => timer'[d] = timer[d] /\ running'[d] = running[d]
          /\ ~Resting(e) /\ (timer[e] = "canceling" => timer'[e] = "canceling")
      BY <1>2, <1>t DEF TimerFires, WorkReturns, Armed, Resting
    <2>2. RestsUnlisted'
      BY <2>1 DEF LifeInv, RestsUnlisted, Resting, Tearing
    <2>3. dev \in Timed \/ step # "flush" \/ ~Tearing
      BY DEF GiveInv, Registry
    <2>4. CancelKeeps'
      BY <2>1, <2>3 DEF LifeInv, CancelKeeps, Tearing
    <2> QED
      BY <2>1, <2>2, <2>4 DEF LifeInv, MemoryGone, CallsInFile, ExposedMeansOpen, NoFileYet
  <1> QED
    BY <1>1, <1>2, ProbeLives, TearLives, CallerLives DEF Next

LEMMA LifeInvCorrect == Spec => []LifeInv
  <1>1. Init => LifeInv
    BY DEF Init, LifeInv, NoFileYet, MemoryGone, CallsInFile, ExposedMeansOpen, RestsUnlisted,
           CancelKeeps, Resting, Tearing
  <1>2. TypeOK /\ GiveInv /\ LifeInv /\ [Next]_vars => LifeInv'
    BY LifeStep
  <1> QED
    BY <1>1, <1>2, TypeCorrect, GiveInvCorrect, PTL DEF Spec

\* When nobody has the device file open while the driver is torn down, nothing
\* outlives what it uses: no handler, work or call the memory, and no work or
\* call the I2C client, however the probe failed, tones ended and calls cancelled
\* the work (sh_remove, the cancel_delayed_work_sync of each endpoint, devres).
THEOREM LifetimeCorrect == Spec => []NothingOutlivesItsMemory
  <1>1. TypeOK /\ GiveInv /\ LifeInv => NothingOutlivesItsMemory
    <2> SUFFICES ASSUME TypeOK, GiveInv, LifeInv, ~exposed
                 PROVE  /\ ~alive => /\ irq # "running"
                                     /\ \A e \in Timed : ~running[e] /\ timer[e] # "pending"
                                     /\ \A c \in Callers : cpc[c] = "idle"
                        /\ held.client = 0 => /\ ~running["sht20"]
                                              /\ \A c \in Callers : cpc[c] # "exchange"
      BY DEF NothingOutlivesItsMemory
    <2>t. /\ Timed = {"sht20", "buzzer"} /\ phase \in {"probe", "bound", "unwind", "remove", "gone"}
      BY DEF Timed, TypeOK
    <2>i. phase \notin {"probe", "bound"} => \A c \in Callers : cpc[c] = "idle"
      BY DEF LifeInv, ExposedMeansOpen, CallsInFile
    <2>1. ASSUME ~alive PROVE /\ irq # "running"
                              /\ \A e \in Timed : ~running[e] /\ timer[e] # "pending"
                              /\ \A c \in Callers : cpc[c] = "idle"
      <3>1. \/ phase = "probe" /\ step = -1
            \/ Tearing /\ step = "free"
            \/ phase = "gone"
        BY <2>1 DEF LifeInv, MemoryGone, Tearing
      <3>2. irq = "none" /\ ~node
        BY <3>1 DEF GiveInv, IrqGone, NodeGone
      <3>3. \A e \in Timed : ~registered[e]
        BY <2>t, <3>1 DEF GiveInv, Registry, Passed, Tearing
      <3>4. \A e \in Timed : Resting(e)
        BY <3>3 DEF LifeInv, RestsUnlisted
      <3>5. \A c \in Callers : cpc[c] = "idle"
        <4>1. CASE phase = "probe" /\ step = -1
          <5>0. step <= 0
            BY <4>1
          <5>1. \A c \in Callers : ~file[c]
            BY <4>1, <5>0 DEF LifeInv, NoFileYet
          <5> QED
            BY <5>1 DEF LifeInv, CallsInFile
        <4>2. CASE phase \notin {"probe", "bound"}
          BY <2>i, <4>2
        <4> QED
          BY <3>1, <4>1, <4>2 DEF Tearing
      <3> QED
        BY <3>2, <3>4, <3>5 DEF Resting
    <2>2. ASSUME held.client = 0 PROVE ~running["sht20"] /\ \A c \in Callers : cpc[c] # "exchange"
      <3>1. ~registered["sht20"] \/ (Tearing /\ dev = "sht20" /\ step = "unlist")
        BY <2>2 DEF GiveInv, HeldCounts, Holding, Registry, TypeOK
      <3>2. Resting("sht20")
        BY <3>1, <2>t DEF LifeInv, RestsUnlisted
      <3>3. ASSUME NEW c \in Callers, cpc[c] = "exchange" PROVE FALSE
        BY <2>i, <2>t, <3>1, <3>3 DEF LifeInv, CallsInFile, Tearing
      <3> QED
        BY <3>2, <3>3 DEF Resting
    <2> QED
      BY <2>1, <2>2
  <1> QED
    BY <1>1, TypeCorrect, GiveInvCorrect, LifeInvCorrect, PTL
=============================================================================
