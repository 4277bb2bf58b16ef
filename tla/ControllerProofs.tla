--------------------------- MODULE ControllerProofs ---------------------------
(***************************************************************************)
(* Proofs about the control law, for every resolution of the rate, the     *)
(* usage and the slot, every limit, and any number of members and threads. *)
(***************************************************************************)
EXTENDS Controller, TLAPS

(* A quotient is the number of times that the divisor fits in.             *)
LEMMA Quotient ==
  ASSUME NEW a \in Int, NEW m \in Nat \ {0}
  PROVE  /\ a \div m \in Int
         /\ m * (a \div m) <= a /\ a < m * (a \div m) + m
OBVIOUS

LEMMA QuotientBounds ==
  ASSUME NEW a \in Int, NEW b \in Int, NEW m \in Nat \ {0}
  PROVE  /\ a <= m * b => a \div m <= b
         /\ m * b <= a => b <= a \div m
<1> DEFINE q == a \div m
<1>1. q \in Int /\ m * q <= a /\ a < m * q + m
  BY Quotient
<1> HIDE DEF q
<1>2. ASSUME a <= m * b, q > b PROVE FALSE
  <2>1. q >= b + 1
    BY <1>1, <1>2
  <2>2. m * q >= m * (b + 1)
    BY <1>1, <2>1
  <2> QED
    BY <1>1, <1>2, <2>2
<1>3. ASSUME m * b <= a, b > q PROVE FALSE
  <2>1. b >= q + 1
    BY <1>1, <1>3
  <2>2. m * b >= m * (q + 1)
    BY <1>1, <2>1
  <2> QED
    BY <1>1, <1>3, <2>2
<1> QED
  BY <1>1, <1>2, <1>3 DEF q
------------------------------------------------------------------------------
(* The rate has at least one value.                                        *)
LEMMA ScaleBig == Scale \in Nat /\ Scale >= 2
<1>1. MaxSlot * Ns >= 1
  BY ControllerAssumption DEF ControllerAssumption
<1> QED
  BY <1>1, ControllerAssumption DEF ControllerAssumption

LEMMA ClampedRange ==
  ASSUME NEW r \in Int
  PROVE  Clamped(r) \in 1 .. Scale - 1
BY ScaleBig DEF Clamped, Lesser, Greater

(* Whatever the usage, the rate is in range; nan is no exception.          *)
LEMMA RateRange ==
  ASSUME TypeOK, NEW u \in {NoUsage} \cup 0 .. Scale
  PROVE  Rate(u) \in 1 .. Scale - 1
<1> USE ScaleBig, ControllerAssumption DEF ControllerAssumption
<1>1. CASE limit = NaN
  BY <1>1 DEF Rate
<1>2. CASE limit # NaN
  <2>1. limit \in Nat /\ workingrate \in Int /\ procs \in Nat
    BY <1>2 DEF TypeOK, NoRate
  <2>2. CASE u < 0
    BY <1>2, <2>1, <2>2, ClampedRange DEF Rate
  <2>3. CASE ~(u < 0)
    <3> DEFINE m == Greater(procs * u, 1)
               a == workingrate * limit
    <3>1. m \in Nat \ {0}
      BY <2>1, <2>3 DEF Greater, NoUsage
    <3>2. a \in Int
      BY <2>1
    <3>3. Rate(u) = Clamped(a \div m)
      BY <1>2, <2>3 DEF Rate
    <3> HIDE DEF a, m
    <3> QED
      BY <3>1, <3>2, <3>3, Quotient, ClampedRange
  <2> QED
    BY <2>2, <2>3
<1> QED
  BY <1>1, <1>2

(* The mean of two shares is a share.                                      *)
LEMMA AdjustedRange ==
  ASSUME TypeOK, NEW s \in 0 .. Scale
  PROVE  Adjusted(cpu_usage, s) \in 0 .. Scale
<1> USE ScaleBig
<1>1. CASE cpu_usage < 0
  BY <1>1 DEF Adjusted
<1>2. CASE ~(cpu_usage < 0)
  <2>1. cpu_usage \in 0 .. Scale
    BY <1>2 DEF TypeOK, NoUsage
  <2> DEFINE a == 92 * cpu_usage + 8 * s
  <2>2. a \in Int /\ a <= 100 * Scale /\ 100 * 0 <= a
    BY <2>1
  <2>3. a \div 100 \in Int
    BY <2>2, Quotient
  <2> HIDE DEF a
  <2>4. a \div 100 <= Scale /\ 0 <= a \div 100
    BY <2>2, QuotientBounds
  <2> QED
    BY <1>2, <2>3, <2>4 DEF Adjusted, a
<1> QED
  BY <1>1, <1>2

LEMMA BusySampleRange ==
  ASSUME TypeOK
  PROVE  BusySample \in 0 .. Scale
<1> USE ScaleBig
<1>1. share \in 0 .. Scale
  BY DEF share, TypeOK
<1>2. threads \in Nat
  BY ControllerAssumption DEF TypeOK, ControllerAssumption
<1>3. threads * share \in Nat
  BY <1>1, <1>2
<1> QED
  BY <1>3 DEF BusySample, Lesser

LEMMA SlotRange ==
  ASSUME TypeOK
  PROVE  TimeSlots \subseteq 1 .. MaxSlot
<1>1. \A load \in Loads : Lesser(Greater(time_slot * load, 1), MaxSlot) \in 1 .. MaxSlot
  BY ControllerAssumption DEF ControllerAssumption, TypeOK, Lesser, Greater
<1> SUFFICES ASSUME NEW s \in TimeSlots
             PROVE  s \in 1 .. MaxSlot
  OBVIOUS
<1>2. CASE s = time_slot
  BY <1>2 DEF TypeOK
<1>3. CASE s # time_slot
  <2> PICK load \in Loads :
        LET new == Lesser(Greater(time_slot * load, 1), MaxSlot)
        IN  s \in (new .. time_slot) \cup (time_slot .. new)
    BY <1>3 DEF TimeSlots
  <2> DEFINE new == Lesser(Greater(time_slot * load, 1), MaxSlot)
  <2>1. new \in 1 .. MaxSlot /\ s \in (new .. time_slot) \cup (time_slot .. new)
    BY <1>1
  <2> HIDE DEF new
  <2> QED
    BY <2>1, ControllerAssumption DEF TypeOK, ControllerAssumption
<1> QED
  BY <1>2, <1>3

(* A limit of 0 is held to: the rate never leaves EPSILON.                 *)
ZeroHolds == limit = 0 => workingrate \in {NoRate, 1}

Steady == TypeOK /\ ZeroHolds

(* What a turn leaves the usage at.                                        *)
LEMMA NextIsTurn ==
  ASSUME TypeOK, Next
  PROVE  /\ \E u \in {NoUsage} \cup 0 .. Scale : Turn(u)
         /\ procs' \in FamilySizes
<1> USE ScaleBig
<1>1. CASE BusyTurn
  BY <1>1, BusySampleRange, AdjustedRange DEF BusyTurn, TypeOK
<1>2. CASE IdleTurn
  <2> PICK s \in IdleSamples :
        s < BusySample /\ Turn(Adjusted(cpu_usage, s)) /\ UNCHANGED procs
    BY <1>2 DEF IdleTurn
  <2>1. s \in 0 .. Scale
    BY BusySampleRange, ControllerAssumption DEF ControllerAssumption
  <2> QED
    BY <2>1, AdjustedRange DEF TypeOK
<1>3. CASE StaleTurn
  BY <1>3 DEF StaleTurn, TypeOK
<1>4. CASE RenewedTurn
  BY <1>4 DEF RenewedTurn
<1> QED
  BY <1>1, <1>2, <1>3, <1>4, Zenon DEF Next

LEMMA SteadyInit == Init => Steady
<1> SUFFICES ASSUME Init PROVE Steady
  OBVIOUS
<1>1. 1 \in 1 .. MaxSlot
  BY ControllerAssumption DEF ControllerAssumption
<1>2. TypeOK
  BY <1>1 DEF Init, TypeOK
<1> QED
  BY <1>2 DEF Init, Steady, ZeroHolds

LEMMA SteadyStep == Steady /\ [Next]_vars => Steady'
<1> SUFFICES ASSUME Steady, [Next]_vars
             PROVE  Steady'
  OBVIOUS
<1> USE DEF Steady
<1>1. CASE Next
  <2> PICK u \in {NoUsage} \cup 0 .. Scale : Turn(u)
    BY <1>1, NextIsTurn
  <2>1. TypeOK'
    BY <1>1, NextIsTurn, RateRange, SlotRange DEF Turn, TypeOK
  <2>2. ZeroHolds'
    <3> SUFFICES ASSUME limit = 0
                 PROVE  Rate(u) = 1
      BY DEF Turn, ZeroHolds
    <3>1. limit # NaN /\ workingrate * limit = 0
      BY ControllerAssumption, ScaleBig
      DEF ControllerAssumption, TypeOK, NoRate
    <3>2. ASSUME ~(u < 0) PROVE 0 \div Greater(procs * u, 1) = 0
      <4>1. Greater(procs * u, 1) \in Nat \ {0}
        BY <3>2, ControllerAssumption, ScaleBig
        DEF ControllerAssumption, TypeOK, Greater, NoUsage
      <4> QED
        BY <4>1
    <3>3. Clamped(0) = 1
      BY ScaleBig DEF Clamped, Lesser, Greater
    <3> QED
      BY <3>1, <3>2, <3>3 DEF Rate
  <2> QED
    BY <2>1, <2>2
<1>2. CASE UNCHANGED vars
  BY <1>2 DEF vars, TypeOK, ZeroHolds
<1> QED
  BY <1>1, <1>2

(* The usage, the rate and the slot stay in their ranges, from every       *)
(* limit that the option lets pass, nan included.                          *)
THEOREM ControllerTypeCorrect == Spec => []TypeOK
<1>1. Steady => TypeOK
  BY DEF Steady
<1> QED
  BY SteadyInit, SteadyStep, <1>1, PTL DEF Spec
------------------------------------------------------------------------------
(* The work slice and the sleep slice of every slot are not negative, and  *)
(* what is cut off from them is less than one unit of time.                *)
THEOREM SlotIsFilled == Spec => []SlicesFillSlot
<1>1. TypeOK => SlicesFillSlot
  <2> SUFFICES ASSUME TypeOK, workingrate # NoRate
               PROVE  /\ twork >= 0 /\ tsleep >= 0
                      /\ twork + tsleep \in {time_slot * Ns - 1, time_slot * Ns}
    BY DEF SlicesFillSlot
  <2> USE ScaleBig
  <2> DEFINE n == time_slot * Ns
             a == n * workingrate
             b == n * (Scale - workingrate)
  <2>1. n \in Nat
    BY ControllerAssumption DEF TypeOK, ControllerAssumption
  <2> HIDE DEF n
  <2>2. workingrate \in 1 .. Scale - 1
    BY DEF TypeOK
  <2>3. a \in Nat /\ b \in Nat /\ a + b = Scale * n
    BY <2>1, <2>2
  <2> DEFINE x == a \div Scale
             y == b \div Scale
  <2>4. twork = x /\ tsleep = y /\ time_slot * Ns = n
    BY DEF twork, tsleep, n
  <2> HIDE DEF a, b
  <2>5. /\ x \in Int /\ Scale * x <= a /\ a < Scale * x + Scale
        /\ y \in Int /\ Scale * y <= b /\ b < Scale * y + Scale
    BY <2>3, Quotient
  <2>6. 0 <= x /\ 0 <= y
    BY <2>3, QuotientBounds
  <2> HIDE DEF x, y
  <2>7. Scale * (x + y) <= Scale * n /\ Scale * n < Scale * (x + y + 2)
    BY <2>1, <2>3, <2>5
  <2>8. x + y <= n /\ n < x + y + 2
    BY <2>1, <2>5, <2>7
  <2> QED
    BY <2>1, <2>4, <2>5, <2>6, <2>8
<1> QED
  BY ControllerTypeCorrect, <1>1, PTL

(* The feedback is negative in every turn, for every family and limit.     *)
LEMMA FeedbackIsNegative ==
  ASSUME Steady, [Next]_vars
  PROVE  workingrate # NoRate /\ limit # NaN /\ cpu_usage' # NoUsage =>
           /\ pcpu' >= limit => workingrate' <= workingrate
           /\ pcpu' <= limit => workingrate' >= workingrate
<1> USE ScaleBig DEF Steady
<1> SUFFICES ASSUME workingrate # NoRate, limit # NaN, cpu_usage' # NoUsage
             PROVE  /\ pcpu' >= limit => workingrate' <= workingrate
                    /\ pcpu' <= limit => workingrate' >= workingrate
  OBVIOUS
<1>0. workingrate \in 1 .. Scale - 1 /\ limit \in Nat /\ procs \in Nat
  BY ControllerAssumption DEF TypeOK, ControllerAssumption
<1>1. CASE BusyTurn \/ IdleTurn \/ StaleTurn
  <2> PICK u \in {NoUsage} \cup 0 .. Scale : Turn(u)
    BY <1>1, NextIsTurn DEF Next
  <2> DEFINE p == procs * u
             a == workingrate * limit
             m == Greater(p, 1)
  <2>1. u \in 0 .. Scale /\ p \in Nat /\ a \in Nat /\ m \in Nat \ {0}
    BY <1>0 DEF Turn, Greater
  <2>2. pcpu' = p /\ workingrate' = Rate(u)
    BY <1>1 DEF Turn, BusyTurn, IdleTurn, StaleTurn, pcpu
  <2>3. Rate(u) = Clamped(a \div m)
    BY <2>1 DEF Rate
  <2>4. a \div m \in Int
    BY <2>1, Quotient
  <2>5. ASSUME p >= limit PROVE Clamped(a \div m) <= workingrate
    <3>1. m >= limit
      BY <1>0, <2>1, <2>5 DEF Greater
    <3> HIDE DEF m
    <3>2. a <= m * workingrate
      BY <1>0, <2>1, <3>1
    <3> HIDE DEF a
    <3>3. a \div m <= workingrate
      BY <1>0, <2>1, <3>2, QuotientBounds
    <3> QED
      BY <1>0, <2>4, <3>3 DEF Clamped, Lesser, Greater
  <2>6. ASSUME p <= limit PROVE Clamped(a \div m) >= workingrate
    <3>1. CASE limit = 0
      BY <1>0, <2>4, <3>1, ClampedRange DEF ZeroHolds
    <3>2. CASE limit # 0
      <4>1. m <= limit
        BY <1>0, <2>1, <2>6, <3>2 DEF Greater
      <4> HIDE DEF m
      <4>2. m * workingrate <= a
        BY <1>0, <2>1, <4>1
      <4> HIDE DEF a
      <4>3. workingrate <= a \div m
        BY <1>0, <2>1, <4>2, QuotientBounds
      <4> QED
        BY <1>0, <2>4, <4>3 DEF Clamped, Lesser, Greater
    <3> QED
      BY <3>1, <3>2
  <2> HIDE DEF p, a, m
  <2> QED
    BY <2>2, <2>3, <2>5, <2>6
<1>2. CASE RenewedTurn
  BY <1>2 DEF RenewedTurn, Turn
<1>3. CASE UNCHANGED vars
  BY <1>0, <1>3 DEF vars, pcpu
<1> QED
  BY <1>1, <1>2, <1>3 DEF Next

(* In no turn is the rate raised for a family found above its limit, or    *)
(* lowered for one found below.                                            *)
THEOREM ExcessNeverRewarded == Spec => NeverRewardsExcess
<1>1. Steady /\ [Next]_vars =>
        [workingrate # NoRate /\ limit # NaN /\ cpu_usage' # NoUsage =>
           /\ pcpu' >= limit => workingrate' <= workingrate
           /\ pcpu' <= limit => workingrate' >= workingrate]_vars
  BY FeedbackIsNegative
<1>2. Steady /\ [Next]_vars => Steady'
  BY SteadyStep
<1> QED
  BY SteadyInit, <1>1, <1>2, PTL DEF Spec, NeverRewardsExcess
=============================================================================
