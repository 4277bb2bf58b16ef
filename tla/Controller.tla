------------------------------ MODULE Controller ------------------------------
(***************************************************************************)
(* The control law of limit_process() in src/src/cpulimit.c: from the CPU  *)
(* usage of the family it computes the rate at which the family may work,  *)
(* and from the rate and the time slot the lengths of the work slice and   *)
(* of the sleep slice, which decide the usage that the next updates        *)
(* measure.  LimitProcess leaves these numbers out.                        *)
(*                                                                         *)
(* The members of the family are alike: each keeps the same number of      *)
(* threads busy.  A share of a CPU is a multiple of 1 / Scale rounded      *)
(* down, so that 1.0 is Scale and EPSILON is 1; the time slot is a         *)
(* multiple of TIME_SLOT, and a slice one of TIME_SLOT / Ns.               *)
(***************************************************************************)
EXTENDS Integers

CONSTANTS
  Scale,        (* the share 1.0                                            *)
  Ns,           (* the length of TIME_SLOT                                  *)
  MaxSlot,      (* MAX_TIME_SLOT                                            *)
  NaN,          (* not a number, which the test of -l lets pass             *)
  Limits,       (* values of -l                                             *)
  FamilySizes,  (* numbers of members                                       *)
  ThreadCounts, (* numbers of threads that a member may keep busy           *)
  Loads,        (* values of load / NCPU / 0.3, rounded down                *)
  IdleSamples   (* shares that a member may use when it is less busy        *)

(* EPSILON is so small that a slice of that rate has no nanosecond.        *)
ASSUME ControllerAssumption ==
  /\ Scale \in Nat /\ Ns \in Nat \ {0} /\ MaxSlot \in Nat \ {0}
  /\ MaxSlot * Ns < Scale
  /\ NaN \notin Int /\ Limits \subseteq Nat \cup {NaN}
  /\ FamilySizes \subseteq Nat \ {0}
  /\ ThreadCounts \subseteq Nat \ {0}
  /\ Loads \subseteq Nat
  /\ IdleSamples \subseteq Nat

VARIABLES
  limit,      (* the argument limit                                        *)
  threads,    (* busy threads of each member                               *)
  procs,      (* the number of members                                     *)
  cpu_usage,  (* cpu_usage of each member                                  *)
  workingrate,
  time_slot,
  odd         (* whether the number of turns of the loop so far is odd     *)

vars == <<limit, threads, procs, cpu_usage, workingrate, time_slot, odd>>

NoUsage == -Scale
NoRate == -Scale

TypeOK ==
  /\ limit \in Limits /\ threads \in ThreadCounts /\ procs \in FamilySizes
  /\ cpu_usage \in {NoUsage} \cup 0 .. Scale
  /\ workingrate \in {NoRate} \cup 1 .. Scale - 1
  /\ time_slot \in 1 .. MaxSlot
  /\ odd \in BOOLEAN

Init ==
  /\ limit \in Limits /\ threads \in ThreadCounts /\ procs \in FamilySizes
  /\ cpu_usage = NoUsage
  /\ workingrate = NoRate
  /\ time_slot = 1
  /\ odd = FALSE

------------------------------------------------------------------------------
Lesser(x, y) == IF x < y THEN x ELSE y
Greater(x, y) == IF x > y THEN x ELSE y

(* The two slices of the slot, in whole units as in a struct timespec.     *)
twork == (time_slot * Ns * workingrate) \div Scale
tsleep == (time_slot * Ns * (Scale - workingrate)) \div Scale

(* The share of the slot in which the family works; before the first slot  *)
(* nobody has been stopped.                                                *)
share == IF workingrate = NoRate \/ tsleep = 0 THEN Scale
         ELSE IF twork = 0 THEN 0 ELSE workingrate

(* What update_process_group() measures of a member whose threads are busy *)
(* in the whole work slice: no sample is above 1.0.                        *)
BusySample == Lesser(threads * share, Scale)

Adjusted(usage, sample) ==
  IF usage < 0 THEN sample ELSE (92 * usage + 8 * sample) \div 100

(* Mutant: the rate has no upper bound.                                    *)
ClampedBelowOnly(rate) == Greater(rate, 1)

(* Mutant: the rate may become 0, and stays so.                            *)
ClampedToZero(rate) == Greater(Lesser(rate, Scale - 1), 0)

(* Into the range from EPSILON to 1 - EPSILON.                             *)
Clamped(rate) == Greater(Lesser(rate, Scale - 1), 1)

(* Mutant: the ratio is upside down.                                       *)
RateInverted(usage) ==
  IF limit = NaN THEN Scale - 1
  ELSE IF usage < 0 THEN Clamped(limit)
  ELSE Clamped((workingrate * procs * usage) \div Greater(limit, 1))

(* The next rate, given the usage of each member.  A comparison with NaN   *)
(* is false, so that MIN() takes 1 - EPSILON.                              *)
Rate(usage) ==
  IF limit = NaN THEN Scale - 1
  ELSE IF usage < 0 THEN Clamped(limit)
  ELSE Clamped((workingrate * limit) \div Greater(procs * usage, 1))

(* Mutant: new_time_slot has no lower bound.                               *)
TimeSlotsNoMin ==
  {s \in 0 .. MaxSlot :
     \E load \in Loads :
       LET new == Lesser(time_slot * load, MaxSlot)
       IN  s \in new .. time_slot \/ s \in time_slot .. new}

(* get_dynamic_time_slot(): the slot stays, as getloadavg() may fail, or   *)
(* moves from where it is towards the slot that suits the load.            *)
TimeSlots ==
  {time_slot} \cup
  UNION {LET new == Lesser(Greater(time_slot * load, 1), MaxSlot)
         IN  (new .. time_slot) \cup (time_slot .. new) : load \in Loads}

(* One turn of the loop, when the update leaves the members at a usage.    *)
Turn(usage) ==
  /\ cpu_usage' = usage
  /\ workingrate' = Rate(usage)
  /\ time_slot' \in TimeSlots
  /\ odd' = ~odd
  /\ UNCHANGED <<limit, threads>>

(* A sample of members that were as busy as they could be.                 *)
BusyTurn == Turn(Adjusted(cpu_usage, BusySample)) /\ UNCHANGED procs

(* A sample of members that used less.                                     *)
IdleTurn ==
  \E s \in IdleSamples :
    /\ s < BusySample
    /\ Turn(Adjusted(cpu_usage, s))
    /\ UNCHANGED procs

(* dt < MIN_DT, and no sample is taken: it is the first turn, or the clock *)
(* was set back.                                                           *)
StaleTurn == Turn(cpu_usage) /\ UNCHANGED procs

(* Every member is gone but some that the update has just found.           *)
RenewedTurn == procs' \in FamilySizes /\ Turn(NoUsage)

Next == BusyTurn \/ IdleTurn \/ StaleTurn \/ RenewedTurn

Spec == Init /\ [][Next]_vars

(* The slices of every slot end, and the loop comes round.                 *)
FairSpec == Spec /\ WF_vars(Next)

------------------------------------------------------------------------------
(* The slices are times that clock_nanosleep() accepts, and together they  *)
(* are the slot but for what is cut off in the conversion.                 *)
SlicesFillSlot ==
  workingrate # NoRate =>
    /\ twork >= 0 /\ tsleep >= 0
    /\ twork + tsleep \in {time_slot * Ns - 1, time_slot * Ns}

(* The usage that the loop sums up, once there is one.                     *)
pcpu == procs * cpu_usage

(* The feedback is negative: while the family is found above the limit the *)
(* rate is not raised, while it is found below the rate is not lowered, be *)
(* the usage fresh or stale.                                               *)
NeverRewardsExcess ==
  [][workingrate # NoRate /\ limit # NaN /\ cpu_usage' # NoUsage =>
       /\ pcpu' >= limit => workingrate' <= workingrate
       /\ pcpu' <= limit => workingrate' >= workingrate]_vars

------------------------------------------------------------------------------
(* What the family uses in this slot, and what it is to use.               *)
used == procs * threads * share
goal == Lesser(limit, procs * threads * Scale)

(* A usage counts as at most one CPU: a limit that a single-threaded       *)
(* member could not exceed is not seen to be exceeded by several threads.  *)
Measurable == limit # NaN /\ (threads = 1 \/ limit < procs * Scale)

(* (92 * u + 8 * s) \div 100 is u already when s exceeds u by 12.          *)
Rounding == 12

(* While the members stay as busy as they can be, the family comes to use  *)
(* what the limit says, from wherever the rate, the usage and the slot     *)
(* have got to; the difference is the rounding of the model.               *)
Settles ==
  <>[][BusyTurn]_vars =>
    <>[](Measurable =>
           used \in goal - threads * procs .. goal + Rounding * procs)

(* A family whose limit is not 0 works again and again: no run of idle     *)
(* turns, new members or load leaves the rate where the work slice is      *)
(* empty, unless the clock goes on being set back.                         *)
RunsAgain ==
  <>[][BusyTurn \/ IdleTurn \/ RenewedTurn]_vars =>
    []<>(limit # 0 => share # 0)
=============================================================================
