------------------------------- MODULE Options -------------------------------
(***************************************************************************)
(* The command line of main() in src/src/cpulimit.c: the loop over         *)
(* getopt_long(), in which a later option replaces what an earlier one of  *)
(* its kind has set, and the tests that follow it.  The texts of arguments *)
(* are not modelled, only the numbers that strtol() and strtod() read.     *)
(***************************************************************************)
EXTENDS Integers, Sequences

CONSTANTS
  PidArgs,     (* the numbers that may begin the argument of -p            *)
  LimitArgs,   (* percentages that may begin the argument of -l, and NaN   *)
  NaN,
  PidHalf,     (* pid_t has the values from -PidHalf to PidHalf - 1        *)
  PidMax,      (* get_pid_max()                                            *)
  NCPU,
  MaxOptions   (* bound on the number of options                           *)

ASSUME OptionsAssumption ==
  /\ PidArgs \subseteq Int
  /\ NaN \notin Int /\ LimitArgs \subseteq Int \cup {NaN}
  /\ PidHalf \in Nat \ {0}
  /\ PidMax \in Int /\ NCPU \in Nat /\ MaxOptions \in Nat

VARIABLES
  step,              (* what main() does                                   *)
  pid, pid_ok, exe_ok,
  perclimit, limit_ok,
  lazy, include_children,
  command_mode,
  given              (* history: the options that were read                *)

targetVars == <<pid, pid_ok, exe_ok>>
limitVars == <<perclimit, limit_ok>>
flagVars == <<lazy, include_children>>
optionVars == <<step, targetVars, limitVars, flagVars, command_mode, given>>

(* An option as it is read; whole: the number is all of its argument.      *)
Given == [opt : {"p", "e", "l", "z", "i"},
          number : PidArgs \cup LimitArgs \cup {0}, whole : BOOLEAN]

PidRange == -PidHalf .. PidHalf - 1

OptionsTypeOK ==
  /\ step \in {"options", "check", "accepted", "refused", "usage", "command",
               "search"}
  /\ pid \in PidRange /\ pid_ok \in BOOLEAN /\ exe_ok \in BOOLEAN
  /\ perclimit \in LimitArgs \cup {0} /\ limit_ok \in BOOLEAN
  /\ lazy \in BOOLEAN /\ include_children \in BOOLEAN
  /\ command_mode \in BOOLEAN
  /\ given \in Seq(Given)

OptionsInit ==
  /\ step = "options"
  /\ pid = 0 /\ pid_ok = FALSE /\ exe_ok = FALSE
  /\ perclimit = 0 /\ limit_ok = FALSE
  /\ lazy = FALSE /\ include_children = FALSE
  /\ command_mode = FALSE
  /\ given = <<>>

------------------------------------------------------------------------------
(* Mutant: a pid_t as wide as a long.                                      *)
PidOfLong(n) == n

(* (pid_t)strtol(): the upper bits are lost.                               *)
PidOf(n) == ((n + PidHalf) % (2 * PidHalf)) - PidHalf

Read(o, n, w) ==
  /\ step = "options"
  /\ Len(given) < MaxOptions
  /\ given' = Append(given, [opt |-> o, number |-> n, whole |-> w])
  /\ UNCHANGED <<step, command_mode>>

(* Mutant: once good, always good.                                         *)
ReadPidSticky(n, w) ==
  /\ Read("p", n, w)
  /\ pid' = PidOf(n)
  /\ pid_ok' = (pid_ok \/ w)
  /\ UNCHANGED <<exe_ok, limitVars, flagVars>>

ReadPid(n, w) ==
  /\ Read("p", n, w)
  /\ pid' = PidOf(n)
  /\ pid_ok' = w
  /\ UNCHANGED <<exe_ok, limitVars, flagVars>>

ReadExe ==
  /\ Read("e", 0, TRUE)
  /\ exe_ok' = TRUE
  /\ UNCHANGED <<pid, pid_ok, limitVars, flagVars>>

(* Mutant: the first limit counts.                                         *)
ReadLimitFirst(n, w) ==
  /\ Read("l", n, w)
  /\ perclimit' = IF limit_ok THEN perclimit ELSE n
  /\ limit_ok' = w
  /\ UNCHANGED <<targetVars, flagVars>>

ReadLimit(n, w) ==
  /\ Read("l", n, w)
  /\ perclimit' = n
  /\ limit_ok' = w
  /\ UNCHANGED <<targetVars, flagVars>>

ReadFlag(o) ==
  /\ Read(o, 0, TRUE)
  /\ lazy' = (lazy \/ o = "z")
  /\ include_children' = (include_children \/ o = "i")
  /\ UNCHANGED <<targetVars, limitVars>>

(* -h, an option that is not known or has no argument, or one whose        *)
(* argument begins with a hyphen.                                          *)
Usage ==
  /\ step = "options"
  /\ step' = "usage"
  /\ UNCHANGED <<targetVars, limitVars, flagVars, command_mode, given>>

(* No options are left; there may be words of a command.                   *)
EndOptions ==
  /\ step = "options"
  /\ step' = "check"
  /\ command_mode' \in BOOLEAN
  /\ UNCHANGED <<targetVars, limitVars, flagVars, given>>

Bit(b) == IF b THEN 1 ELSE 0

(* A pid may be refused because the largest one cannot be read.            *)
PidMaxUnknown ==
  /\ step = "check"
  /\ pid_ok
  /\ step' = "usage"
  /\ UNCHANGED <<targetVars, limitVars, flagVars, command_mode, given>>

(* The tests, none of which a limit of nan fails.                          *)
Check ==
  /\ step = "check"
  /\ lazy' = (lazy \/ pid # 0)
  /\ step' = IF \/ pid_ok /\ (pid <= 1 \/ pid >= PidMax)
                \/ ~limit_ok
                \/ perclimit # NaN /\ (perclimit < 0 \/ perclimit > 100 * NCPU)
                \/ Bit(exe_ok) + Bit(pid_ok) + Bit(command_mode) # 1
             THEN "refused" ELSE "accepted"
  /\ UNCHANGED <<targetVars, limitVars, include_children, command_mode, given>>

ReadOptions ==
  \/ \E n \in PidArgs, w \in BOOLEAN : ReadPid(n, w)
  \/ ReadExe
  \/ \E n \in LimitArgs, w \in BOOLEAN : ReadLimit(n, w)
  \/ \E o \in {"z", "i"} : ReadFlag(o)
  \/ Usage \/ EndOptions \/ PidMaxUnknown \/ Check

------------------------------------------------------------------------------
(* The i-th option is the last of its kind, o.                             *)
LastOf(o, i) ==
  /\ given[i].opt = o
  /\ \A j \in DOMAIN given : j > i => given[j].opt # o

(* What the options ask for, in terms of the command line alone.           *)
AskedPid ==
  {given[i].number : i \in {j \in DOMAIN given : LastOf("p", j) /\ given[j].whole}}
AskedLimit ==
  {given[i].number : i \in {j \in DOMAIN given : LastOf("l", j) /\ given[j].whole}}
Asks(o) == \E i \in DOMAIN given : given[i].opt = o

(* No pid is asked for that is cut to another one by the conversion.       *)
PidFits == AskedPid \subseteq PidRange

(* A command line is accepted exactly if its last -p, if its argument is a *)
(* number, names a pid in range, its last -l has a limit in range, and     *)
(* there is one target; whatever other -p and -l came before.  This is not *)
(* so for a limit of nan (see LimitInRange) nor for a pid that no pid_t    *)
(* can hold.                                                               *)
AcceptedAsGiven ==
  step \in {"accepted", "refused"} /\ PidFits /\ NaN \notin AskedLimit =>
    (step = "accepted" <=>
       /\ AskedPid \subseteq 2 .. PidMax - 1
       /\ AskedLimit # {} /\ AskedLimit \subseteq 0 .. 100 * NCPU
       /\ Bit(AskedPid # {}) + Bit(Asks("e")) + Bit(command_mode) = 1)

(* "limit must be in the range 0-N00": an accepted one is.                 *)
LimitInRange == step = "accepted" => perclimit \in 0 .. 100 * NCPU

(* An accepted command line limits what its last options say.  A search    *)
(* for a pid is lazy, as SearchLoop assumes; one by name is lazy also if   *)
(* the last -p was no number but began like one.                           *)
ActsAsGiven ==
  step = "accepted" =>
    /\ perclimit \in AskedLimit
    /\ PidFits => AskedPid \subseteq {pid}
    /\ lazy <=> Asks("z") \/ \E i \in DOMAIN given :
                   LastOf("p", i) /\ PidOf(given[i].number) # 0
    /\ include_children <=> Asks("i")
=============================================================================
