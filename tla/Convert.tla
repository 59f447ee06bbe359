------------------------------ MODULE Convert -------------------------------
(***************************************************************************)
(* The arithmetic of the program: what the driver makes of the bytes of    *)
(* the SHT20, what it asks of the PWM for a frequency and a duty, and      *)
(* where the daemon puts the pixels of a camera frame before it encodes    *)
(* it.  Functions of their arguments only; the theorems hold for all       *)
(* arguments the types of the code allow.                                  *)
(***************************************************************************)
EXTENDS Integers, TLAPS

Byte == 0 .. 255
U32 == {n \in Nat : n < 4294967296}
S32 == {n \in Int : -2147483648 <= n /\ n < 2147483648}

----------------------------------------------------------------------------
(* sh_sht20_do_sample *)

\* The two low bits of a measurement are status bits.
Raw(hi, lo) == 256 * hi + 4 * (lo \div 4)

\* The products need 34 bits; the code takes s64.
TempMc(raw) == -46850 + (175720 * raw) \div 65536
HumiMrh(raw) == -6000 + (125000 * raw) \div 65536

----------------------------------------------------------------------------
(* sh_buzzer_apply_pwm, with the parameters sanitized before *)

\* The cast (u32) of an s32 parameter.
AsU32(n) == n % 4294967296

SanitizeFreq(freq_hz) == IF freq_hz = 0 THEN 2400 ELSE freq_hz

SanitizeDuty(duty_permille) == IF duty_permille \in 1 .. 1000 THEN duty_permille ELSE 500

DivRoundClosest(x, d) == (x + d \div 2) \div d

PeriodNs(freq_hz) == DivRoundClosest(1000000000, freq_hz)

DutyNs(period_ns, duty_permille) ==
    LET ns == DivRoundClosest(period_ns * duty_permille, 1000)
    IN  IF ns = 0 THEN period_ns \div 2 ELSE ns

----------------------------------------------------------------------------
(* nv12_to_i420: the byte that row y, column x of each plane is copied to  *)

\* Row y, column x of a plane with rows of w bytes.
Cell(w, x, y) == y * w + x

YAt(w, x, y) == Cell(w, x, y)
UAt(w, h, x, y) == w * h + Cell(w \div 2, x, y)
VAt(w, h, x, y) == w * h + (w * h) \div 4 + Cell(w \div 2, x, y)

\* malloc(width * height * 3 / 2)
BufferSize(w, h) == (w * h * 3) \div 2

----------------------------------------------------------------------------
(* The sensor *)

\* Whatever two bytes arrive, the values lie between -46.85 and 128.86 degrees
\* and between -6 and 118.99 percent, so the s32 they are stored in never
\* overflows, although the product that they are computed from would.
THEOREM SampleInRange ==
    ASSUME NEW hi \in Byte, NEW lo \in Byte
    PROVE  /\ -46850 <= TempMc(Raw(hi, lo)) /\ TempMc(Raw(hi, lo)) <= 128859
           /\ -6000 <= HumiMrh(Raw(hi, lo)) /\ HumiMrh(Raw(hi, lo)) <= 118992
<1> PICK raw \in Int : raw = Raw(hi, lo)
  BY DEF Byte, Raw
<1>1. 0 <= raw /\ raw <= 65532
  <2>1. lo \div 4 \in Int /\ 0 <= lo \div 4 /\ lo \div 4 <= 63
    BY DEF Byte
  <2> QED
    BY <2>1 DEF Byte, Raw
<1>2. 0 <= (175720 * raw) \div 65536 /\ (175720 * raw) \div 65536 <= 175709
  BY <1>1
<1>3. 0 <= (125000 * raw) \div 65536 /\ (125000 * raw) \div 65536 <= 124992
  BY <1>1
<1> QED
  BY <1>2, <1>3 DEF TempMc, HumiMrh

\* The conversion loses nothing: of two different measurements the larger is
\* reported as the larger, in both units, despite the division.
THEOREM SampleKeepsOrder ==
    ASSUME NEW hi \in Byte, NEW lo \in Byte, NEW hi2 \in Byte, NEW lo2 \in Byte,
           Raw(hi, lo) < Raw(hi2, lo2)
    PROVE  /\ TempMc(Raw(hi, lo)) < TempMc(Raw(hi2, lo2))
           /\ HumiMrh(Raw(hi, lo)) < HumiMrh(Raw(hi2, lo2))
<1> PICK a \in Int, b \in Int : a = Raw(hi, lo) /\ b = Raw(hi2, lo2)
  BY DEF Byte, Raw
<1>1. a + 4 <= b
  <2>1. PICK p \in Int, q \in Int : p = lo \div 4 /\ q = lo2 \div 4
    BY DEF Byte
  <2> QED
    BY <2>1 DEF Byte, Raw
<1>2. (175720 * a) \div 65536 < (175720 * b) \div 65536
  BY <1>1
<1>3. (125000 * a) \div 65536 < (125000 * b) \div 65536
  BY <1>1
<1> QED
  BY <1>2, <1>3 DEF TempMc, HumiMrh

----------------------------------------------------------------------------
(* The tone *)

\* Rounded division is within half a divisor of the quotient.
LEMMA RoundedDivision ==
    ASSUME NEW x \in Nat, NEW d \in Nat, d > 0
    PROVE  /\ DivRoundClosest(x, d) \in Nat
           /\ d * DivRoundClosest(x, d) <= x + d \div 2
           /\ x + d \div 2 < d * DivRoundClosest(x, d) + d
<1> PICK n \in Nat : n = x + d \div 2
  OBVIOUS
<1>1. n \div d \in Nat /\ d * (n \div d) <= n /\ n < d * (n \div d) + d
  OBVIOUS
<1> QED
  BY <1>1 DEF DivRoundClosest

LEMMA PeriodRounds ==
    ASSUME NEW freq_hz \in Nat, freq_hz > 0
    PROVE  \E p \in Nat : /\ p = PeriodNs(freq_hz)
                          /\ freq_hz * p <= 1000000000 + freq_hz \div 2
                          /\ 1000000000 + freq_hz \div 2 < freq_hz * p + freq_hz
<1>1. PICK ns \in Nat : ns = 1000000000
  BY SMT
<1>2. /\ DivRoundClosest(ns, freq_hz) \in Nat
      /\ freq_hz * DivRoundClosest(ns, freq_hz) <= ns + freq_hz \div 2
      /\ ns + freq_hz \div 2 < freq_hz * DivRoundClosest(ns, freq_hz) + freq_hz
  BY Zenon, RoundedDivision
<1> QED
  BY SMT, <1>1, <1>2 DEF PeriodNs

\* Only a frequency above 2 GHz gets a period of 0, which the PWM refuses.
LEMMA PeriodVanishes ==
    ASSUME NEW freq_hz \in Nat, freq_hz > 0
    PROVE  /\ PeriodNs(freq_hz) \in Nat
           /\ PeriodNs(freq_hz) = 0 <=> freq_hz > 2000000000
<1> PICK p \in Nat : /\ p = PeriodNs(freq_hz)
                     /\ freq_hz * p <= 1000000000 + freq_hz \div 2
                     /\ 1000000000 + freq_hz \div 2 < freq_hz * p + freq_hz
  BY SMT, PeriodRounds
<1>1. CASE p = 0
  BY SMT, <1>1
<1>2. CASE p > 0
  <2>1. freq_hz <= freq_hz * p
    BY SMT, <1>2
  <2> QED
    BY SMT, <1>2, <2>1
<1> QED
  BY SMT, <1>1, <1>2

\* Rounding does not take a duty past the period.
LEMMA DutyRounds ==
    ASSUME NEW p \in Nat, NEW s \in Nat, s <= 1000
    PROVE  \E ns \in Nat : ns = DivRoundClosest(p * s, 1000) /\ ns <= p
<1>1. PICK x \in Nat : x = p * s /\ x <= 1000 * p
  OBVIOUS
<1>2. PICK d \in Nat : d = 1000
  OBVIOUS
<1>3. d > 0
  BY <1>2
<1>4. DivRoundClosest(x, d) \in Nat /\ d * DivRoundClosest(x, d) <= x + d \div 2
  BY Zenon, <1>3, RoundedDivision
<1> QED
  BY SMT, <1>1, <1>2, <1>4

\* Every frequency up to 2 GHz, whatever the duty asked for, gives a state that
\* the PWM accepts: a period, and a duty that is not longer than it.
THEOREM PwmStateAccepted ==
    ASSUME NEW freq_hz \in U32, NEW duty_permille \in U32,
           SanitizeFreq(freq_hz) <= 2000000000
    PROVE  LET period_ns == PeriodNs(SanitizeFreq(freq_hz))
           IN  /\ period_ns > 0
               /\ DutyNs(period_ns, SanitizeDuty(duty_permille)) <= period_ns
<1> PICK f \in Nat : f = SanitizeFreq(freq_hz) /\ f > 0
  BY SMT DEF U32, SanitizeFreq
<1> PICK s \in Nat : s = SanitizeDuty(duty_permille) /\ s <= 1000
  BY SMT DEF U32, SanitizeDuty
<1> PICK p \in Nat : p = PeriodNs(f) /\ p > 0
  BY SMT, PeriodVanishes
<1> PICK ns \in Nat : ns = DivRoundClosest(p * s, 1000) /\ ns <= p
  BY SMT, DutyRounds
<1>1. p \div 2 <= p
  BY SMT
<1> QED
  BY SMT, <1>1 DEF DutyNs

\* A negative parameter becomes a frequency that the PWM refuses: it is never
\* taken for another tone.
THEOREM NegativeParameterRefused ==
    ASSUME NEW n \in S32, n < 0
    PROVE  PeriodNs(SanitizeFreq(AsU32(n))) = 0
<1>1. AsU32(n) = n + 4294967296
  BY SMT DEF S32, AsU32
<1>2. AsU32(n) \in Nat /\ AsU32(n) > 2000000000
  BY SMT, <1>1 DEF S32
<1> QED
  BY SMT, <1>2, PeriodVanishes DEF SanitizeFreq

\* A tone can be heard whatever duty was asked for: up to 500 MHz the PWM is
\* high for at least one nanosecond of each period.
THEOREM ToneIsHeard ==
    ASSUME NEW freq_hz \in Nat, freq_hz > 0, freq_hz <= 500000000, NEW duty_permille \in U32
    PROVE  DutyNs(PeriodNs(freq_hz), SanitizeDuty(duty_permille)) > 0
<1> PICK s \in Nat : s = SanitizeDuty(duty_permille) /\ s <= 1000
  BY SMT DEF U32, SanitizeDuty
<1> PICK p \in Nat : /\ p = PeriodNs(freq_hz)
                     /\ 1000000000 + freq_hz \div 2 < freq_hz * p + freq_hz
  BY SMT, PeriodRounds
<1>1. p >= 2
  <2>1. freq_hz * p > freq_hz
    BY SMT
  <2> QED
    BY SMT, <2>1
<1>2. PICK ns \in Nat : ns = DivRoundClosest(p * s, 1000)
  BY SMT, DutyRounds
<1> QED
  BY SMT, <1>1, <1>2 DEF DutyNs

----------------------------------------------------------------------------
(* The picture *)

\* Cells of a plane of w columns and h rows: in the plane, and all different.
LEMMA CellsOfPlane ==
    ASSUME NEW w \in Nat, NEW h \in Nat, NEW x \in Nat, NEW y \in Nat, x < w, y < h
    PROVE  /\ Cell(w, x, y) \in Nat
           /\ Cell(w, x, y) < w * h
           /\ \A x2, y2 \in Nat : x2 < w /\ Cell(w, x2, y2) = Cell(w, x, y) => x2 = x /\ y2 = y
<1>1. y * w \in Nat /\ y * w + w <= w * h
  <2>1. (y + 1) * w <= h * w
    OBVIOUS
  <2> QED
    BY <2>1
<1>2. ASSUME NEW x2 \in Nat, NEW y2 \in Nat, x2 < w, y2 * w + x2 = y * w + x
      PROVE  x2 = x /\ y2 = y
  <2>1. CASE y2 < y
    <3>1. (y2 + 1) * w <= y * w
      BY <2>1
    <3> QED
      BY <3>1, <1>2
  <2>2. CASE y < y2
    <3>1. (y + 1) * w <= y2 * w
      BY <2>2
    <3> QED
      BY <3>1, <1>2
  <2> QED
    BY <2>1, <2>2, <1>2
<1> QED
  BY <1>1, <1>2 DEF Cell

\* The Y, U and V planes of a picture with even sides follow each other and fill
\* the buffer without overlapping, so no pixel overwrites another one's and
\* none is written past the end (CellsOfPlane: nor within its plane).
THEOREM PlanesFillBuffer ==
    ASSUME NEW a \in Nat, NEW b \in Nat,
           NEW x \in Nat, NEW y \in Nat, x < 2 * a, y < 2 * b,
           NEW u \in Nat, NEW v \in Nat, u < a, v < b
    PROVE  LET w == 2 * a
               h == 2 * b
           IN  /\ 0 <= YAt(w, x, y) /\ YAt(w, x, y) < w * h
               /\ w * h <= UAt(w, h, u, v) /\ UAt(w, h, u, v) < w * h + (w * h) \div 4
               /\ w * h + (w * h) \div 4 <= VAt(w, h, u, v)
               /\ VAt(w, h, u, v) < BufferSize(w, h)
<1> PICK n \in Nat : n = a * b
  OBVIOUS
<1>1. (2 * a) * (2 * b) = 4 * n
  OBVIOUS
<1>2. (4 * n) \div 4 = n /\ (4 * n * 3) \div 2 = 6 * n /\ (2 * a) \div 2 = a
  OBVIOUS
<1>3. Cell(2 * a, x, y) \in Nat /\ Cell(2 * a, x, y) < 4 * n
  <2>1. PICK w \in Nat, h \in Nat : w = 2 * a /\ h = 2 * b
    OBVIOUS
  <2>2. x < w /\ y < h
    BY <2>1
  <2>3. Cell(w, x, y) \in Nat /\ Cell(w, x, y) < w * h
    BY Zenon, <2>2, CellsOfPlane
  <2> QED
    BY <1>1, <2>1, <2>3
<1>4. Cell(a, u, v) \in Nat /\ Cell(a, u, v) < n
  BY Zenon, CellsOfPlane
<1> QED
  BY <1>1, <1>2, <1>3, <1>4 DEF YAt, UAt, VAt, BufferSize

=============================================================================
