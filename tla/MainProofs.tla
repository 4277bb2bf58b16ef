------------------------------ MODULE MainProofs ------------------------------
(***************************************************************************)
(* Proofs about command mode, for any exit codes and any number of         *)
(* signals, and about main(), for any number of options in any order: what *)
(* it accepts, what it does then, and that nothing of what is proved of    *)
(* command mode depends on how it was entered.                             *)
(***************************************************************************)
EXTENDS Main, TLAPS

(* As long as no signal reaches the parent, each waitpid() returns only    *)
(* when its process has ended.                                             *)
Waited ==
  /\ signals \in [Parties -> Nat]
  /\ parent = "fork command" => program = "none"
  /\ program = "none" => target # "ended"
  /\ ending = Unset <=> target # "ended"
  /\ signals["parent"] = 0 =>
       /\ parent \in {"wait limiter", "exited"} => target = "ended" /\ status = ending
       /\ parent = "exited" => ~limiting /\ exitCode = ending

(* Counting a signal of one process leaves the other counts alone.         *)
LEMMA CountUp ==
  ASSUME NEW S \in [Parties -> Nat], NEW x \in Parties
  PROVE  LET T == [S EXCEPT ![x] = @ + 1]
         IN  /\ T \in [Parties -> Nat]
             /\ T[x] # 0
             /\ \A y \in Parties \ {x} : T[y] = S[y]
OBVIOUS

LEMMA WaitedInit == Init => Waited
<1> SUFFICES ASSUME Init PROVE Waited
  OBVIOUS
<1>1. signals \in [Parties -> Nat]
  BY DEF Init
<1> QED
  BY <1>1 DEF Init, Waited, Limiter!Init, Unset

LEMMA WaitedStep == Waited /\ [Next]_vars => Waited'
<1> SUFFICES ASSUME Waited, [Next]_vars
             PROVE  Waited'
  OBVIOUS
<1> USE DEF Waited
<1>1. CASE ForkCommand \/ ForkLimiter \/ GiveUp \/ Exec
  BY <1>1 DEF ForkCommand, ForkLimiter, GiveUp, Exec, child
<1>2. CASE WaitCommand
  BY <1>2 DEF WaitCommand, child
<1>3. CASE WaitLimiter
  BY <1>3 DEF WaitLimiter, child, Reported
<1>4. CASE SignalParent
  <2>1. /\ signals' \in [Parties -> Nat]
        /\ signals'["parent"] # 0
    <3>1. "parent" \in Parties
      BY DEF Parties
    <3>2. signals' = [signals EXCEPT !["parent"] = signals["parent"] + 1]
      BY <1>4 DEF SignalParent
    <3>3. signals \in [Parties -> Nat]
      OBVIOUS
    <3> HIDE DEF Waited
    <3> QED
      BY <3>1, <3>2, <3>3, CountUp, Zenon
  <2> QED
    BY <1>4, <2>1 DEF SignalParent, child
<1>5. CASE Finish \/ Kill \/ Deliver
  BY <1>5, CommandModeAssumption
  DEF Finish, Kill, Deliver, Limiter!End, Killed, Unset, CommandModeAssumption
<1>6. CASE LimiterContinues \/ LimiterStops \/ LimiterLeaves
  BY <1>6
  DEF LimiterContinues, LimiterStops, LimiterLeaves, Limiter!Continue,
      Limiter!Stop, Limiter!Leave, child
<1>7. CASE LimiterMisses
  BY <1>7 DEF LimiterMisses, child
<1>8. CASE SignalCommand \/ SignalLimiter
  <2>1. /\ signals' \in [Parties -> Nat]
        /\ signals'["parent"] = signals["parent"]
    <3>1. {"parent", "limiter", "command"} \subseteq Parties
      BY DEF Parties
    <3>2. PICK x \in {"limiter", "command"} :
            signals' = [signals EXCEPT ![x] = signals[x] + 1]
      BY <1>8 DEF SignalCommand, SignalLimiter
    <3>3. signals \in [Parties -> Nat]
      OBVIOUS
    <3>4. "parent" \in Parties \ {x} /\ x \in Parties
      BY <3>1, <3>2
    <3> HIDE DEF Waited
    <3> QED
      BY <3>2, <3>3, <3>4, CountUp, Zenon
  <2> QED
    BY <1>8, <2>1 DEF SignalCommand, SignalLimiter, Limiter!Quit, child
<1>9. CASE UNCHANGED vars
  BY <1>9 DEF vars, child
<1> QED
  BY <1>1, <1>2, <1>3, <1>4, <1>5, <1>6, <1>7, <1>8, <1>9 DEF Next, Over

(* A parent that gets no signal exits after the command and the limiter,   *)
(* and reports how the command ended.                                      *)
THEOREM UndisturbedParentWaits == Spec => []UndisturbedReports
<1>1. Waited => UndisturbedReports
  BY DEF Waited, UndisturbedReports, WaitsForBoth
<1> QED
  BY WaitedInit, WaitedStep, <1>1, PTL DEF Spec

------------------------------------------------------------------------------
LEMMA CountWithin ==
  ASSUME NEW S \in [Parties -> 0 .. MaxSignals], NEW x \in Parties,
         S[x] < MaxSignals
  PROVE  [S EXCEPT ![x] = @ + 1] \in [Parties -> 0 .. MaxSignals]
BY CommandModeAssumption DEF CommandModeAssumption

(* TypeOK but for the counts.                                              *)
Places ==
  /\ parent \in {"fork command", "fork limiter", "wait command", "wait limiter",
                 "exited", "gave up"}
  /\ program \in {"none", "cpulimit", "execve", "command"}
  /\ target \in {"running", "stopped", "ended"}

Statuses == {status, exitCode, ending} \subseteq Endings \cup {Unset}

Flags == pending \in BOOLEAN /\ quit \in BOOLEAN /\ limiting \in BOOLEAN

LEMMA TypeInit == Init => TypeOK
<1>1. 0 \in 0 .. MaxSignals
  BY CommandModeAssumption DEF CommandModeAssumption
<1> QED
  BY <1>1 DEF Init, TypeOK, Limiter!Init

LEMMA TypeStep == TypeOK /\ [Next]_vars => TypeOK'
<1> SUFFICES ASSUME TypeOK, [Next]_vars
             PROVE  TypeOK'
  OBVIOUS
<1>0. Places /\ Statuses /\ Flags /\ signals \in [Parties -> 0 .. MaxSignals]
  BY DEF TypeOK, Places, Statuses, Flags
<1>1. ASSUME ForkCommand \/ ForkLimiter \/ GiveUp \/ Exec
      PROVE  Places' /\ Statuses' /\ Flags' /\ signals' = signals
  <2>1. Places'
    BY <1>0, <1>1 DEF ForkCommand, ForkLimiter, GiveUp, Exec, child, Places
  <2>2. Statuses'
    BY <1>0, <1>1 DEF ForkCommand, ForkLimiter, GiveUp, Exec, child, Statuses
  <2>3. Flags'
    <3>1. CASE ForkLimiter
      <4>1. quit' = (signals["parent"] > 0) /\ pending' = pending /\ limiting' = limiting
        BY <3>1 DEF ForkLimiter, child
      <4>2. quit' \in BOOLEAN
        <5>1. (signals["parent"] > 0) \in BOOLEAN
          OBVIOUS
        <5> QED
          BY <4>1, <5>1, Zenon
      <4> QED
        BY <1>0, <4>1, <4>2 DEF Flags
    <3>2. CASE ForkCommand \/ GiveUp \/ Exec
      BY <1>0, <3>2 DEF ForkCommand, GiveUp, Exec, Flags, child
    <3> QED
      BY <1>1, <3>1, <3>2
  <2> QED
    BY <1>1, <2>1, <2>2, <2>3 DEF ForkCommand, ForkLimiter, GiveUp, Exec, child
<1>2. ASSUME WaitCommand \/ WaitLimiter
      PROVE  Places' /\ Statuses' /\ Flags' /\ signals' = signals
  <2>1. Places'
    BY <1>0, <1>2 DEF WaitCommand, WaitLimiter, child, Reported, Places
  <2>2. Statuses'
    BY <1>0, <1>2 DEF WaitCommand, WaitLimiter, child, Reported, Statuses
  <2>3. Flags'
    BY <1>0, <1>2 DEF WaitCommand, WaitLimiter, child, Reported, Flags
  <2> QED
    BY <1>2, <2>1, <2>2, <2>3 DEF WaitCommand, WaitLimiter, child, Reported
<1>3. ASSUME Finish \/ Kill \/ Deliver
      PROVE  Places' /\ Statuses' /\ Flags' /\ signals' = signals
  <2>1. Places'
    BY <1>0, <1>3 DEF Finish, Kill, Deliver, Limiter!End, Endings, Places
  <2>2. Statuses'
    BY <1>0, <1>3 DEF Finish, Kill, Deliver, Limiter!End, Endings, Statuses
  <2>3. Flags'
    BY <1>0, <1>3 DEF Finish, Kill, Deliver, Limiter!End, Endings, Flags
  <2> QED
    BY <1>3, <2>1, <2>2, <2>3 DEF Finish, Kill, Deliver, Limiter!End, Endings
<1>4. ASSUME LimiterContinues \/ LimiterStops \/ LimiterLeaves \/ LimiterMisses
      PROVE  Places' /\ Statuses' /\ Flags' /\ signals' = signals
  <2>1. Places'
    BY <1>0, <1>4 DEF LimiterContinues, LimiterStops, LimiterLeaves, Limiter!Continue,
        Limiter!Stop, Limiter!Leave, LimiterMisses, child, Places
  <2>2. Statuses'
    BY <1>0, <1>4 DEF LimiterContinues, LimiterStops, LimiterLeaves, Limiter!Continue,
        Limiter!Stop, Limiter!Leave, LimiterMisses, child, Statuses
  <2>3. Flags'
    BY <1>0, <1>4 DEF LimiterContinues, LimiterStops, LimiterLeaves, Limiter!Continue,
        Limiter!Stop, Limiter!Leave, LimiterMisses, child, Flags
  <2> QED
    BY <1>4, <2>1, <2>2, <2>3 DEF LimiterContinues, LimiterStops, LimiterLeaves, Limiter!Continue,
        Limiter!Stop, Limiter!Leave, LimiterMisses, child
<1>5. ASSUME UNCHANGED vars
      PROVE  Places' /\ Statuses' /\ Flags' /\ signals' = signals
  <2>1. Places'
    BY <1>0, <1>5 DEF vars, child, Places
  <2>2. Statuses'
    BY <1>0, <1>5 DEF vars, child, Statuses
  <2>3. Flags'
    BY <1>0, <1>5 DEF vars, child, Flags
  <2> QED
    BY <1>5, <2>1, <2>2, <2>3 DEF vars, child
<1>6. ASSUME SignalParent
      PROVE  Places' /\ Statuses' /\ Flags' /\ signals' \in [Parties -> 0 .. MaxSignals]
  <2>1. Places'
    BY <1>0, <1>6 DEF SignalParent, child, Reported, Places
  <2>2. Statuses'
    BY <1>0, <1>6 DEF SignalParent, child, Reported, Statuses
  <2>3. Flags'
    BY <1>0, <1>6 DEF SignalParent, child, Reported, Flags
  <2>4. signals' \in [Parties -> 0 .. MaxSignals]
    BY <1>0, <1>6, CountWithin DEF SignalParent, Parties
  <2> QED
    BY <2>1, <2>2, <2>3, <2>4
<1>7. ASSUME SignalCommand \/ SignalLimiter
      PROVE  Places' /\ Statuses' /\ Flags' /\ signals' \in [Parties -> 0 .. MaxSignals]
  <2>1. Places'
    BY <1>0, <1>7 DEF SignalCommand, SignalLimiter, Limiter!Quit, child, Places
  <2>2. Statuses'
    BY <1>0, <1>7 DEF SignalCommand, SignalLimiter, Limiter!Quit, child, Statuses
  <2>3. Flags'
    BY <1>0, <1>7 DEF SignalCommand, SignalLimiter, Limiter!Quit, child, Flags
  <2>4. signals' \in [Parties -> 0 .. MaxSignals]
    BY <1>0, <1>7, CountWithin DEF SignalCommand, SignalLimiter, Parties
  <2> QED
    BY <2>1, <2>2, <2>3, <2>4
<1>8. Places' /\ Statuses' /\ Flags' /\ signals' \in [Parties -> 0 .. MaxSignals]
  BY <1>0, <1>1, <1>2, <1>3, <1>4, <1>5, <1>6, <1>7 DEF Next, Over
<1> QED
  BY <1>8 DEF TypeOK, Places, Statuses, Flags

(* The three processes of command mode are in one of the places that the   *)
(* source gives them, and a wait status is one that a command can have.    *)
THEOREM CommandModeTypeCorrect == Spec => []TypeOK
BY TypeInit, TypeStep, PTL DEF Spec

------------------------------------------------------------------------------
(* Before and beside command mode its variables do not change.             *)
LEMMA MainKeepsCommandMode == MainInit /\ [][MainNext]_mainVars => Spec
<1>1. MainInit => Init
  BY DEF MainInit
<1>2. [MainNext]_mainVars => [Next]_vars
  <2> SUFFICES ASSUME [MainNext]_mainVars
               PROVE  [Next]_vars
    OBVIOUS
  <2>1. CASE Parsing
    BY <2>1 DEF Parsing
  <2>2. CASE InCommandMode(Next)
    BY <2>2 DEF InCommandMode
  <2>3. CASE Elsewhere \/ UNCHANGED mainVars
    BY <2>3 DEF Elsewhere, mainVars
  <2> QED
    BY <2>1, <2>2, <2>3 DEF MainNext
<1> QED
  BY <1>1, <1>2, PTL DEF Spec

(* A parent that gets no signal waits for both, whatever options led to    *)
(* command mode.                                                           *)
THEOREM MainWaits == MainSpec => []UndisturbedReports
BY MainKeepsCommandMode, UndisturbedParentWaits, PTL DEF MainSpec

------------------------------------------------------------------------------
(* Appending an option.                                                    *)
LEMMA AppendOne ==
  ASSUME NEW S, NEW s \in Seq(S), NEW r \in S
  PROVE  /\ Append(s, r) \in Seq(S)
         /\ Len(s) + 1 \in DOMAIN Append(s, r)
         /\ Append(s, r)[Len(s) + 1] = r
         /\ \A i \in DOMAIN s : /\ i \in DOMAIN Append(s, r)
                                /\ Append(s, r)[i] = s[i]
                                /\ i < Len(s) + 1
         /\ \A i \in DOMAIN Append(s, r) : i \in DOMAIN s \/ i = Len(s) + 1
OBVIOUS

LEMMA PidOfFits == \A n \in Int : PidOf(n) \in PidRange
<1> SUFFICES ASSUME NEW n \in Int
             PROVE  PidOf(n) \in PidRange
  OBVIOUS
<1> DEFINE w == 2 * PidHalf
<1>1. w \in Nat /\ w > 0 /\ n + PidHalf \in Int /\ PidHalf \in Nat
  BY OptionsAssumption DEF OptionsAssumption
<1>2. (n + PidHalf) % w \in 0 .. w - 1
  <2> HIDE DEF w
  <2> QED
    BY <1>1
<1> QED
  BY <1>1, <1>2 DEF PidOf, PidRange

------------------------------------------------------------------------------
(* What the loop has kept of the options that it has read.                 *)

KeptPid ==
  IF Asks("p")
    THEN \E i \in DOMAIN given : /\ LastOf("p", i)
                                 /\ pid = PidOf(given[i].number)
                                 /\ pid_ok <=> given[i].whole
    ELSE pid = 0 /\ ~pid_ok

KeptLimit ==
  IF Asks("l")
    THEN \E i \in DOMAIN given : /\ LastOf("l", i)
                                 /\ perclimit = given[i].number
                                 /\ limit_ok <=> given[i].whole
    ELSE ~limit_ok

KeptFlags == (exe_ok <=> Asks("e")) /\ (include_children <=> Asks("i"))

Kept == KeptPid /\ KeptLimit /\ KeptFlags

(* None of the tests fails.                                                *)
Passes ==
  /\ pid_ok => 1 < pid /\ pid < PidMax
  /\ limit_ok
  /\ perclimit = NaN \/ (0 <= perclimit /\ perclimit <= 100 * NCPU)
  /\ Bit(exe_ok) + Bit(pid_ok) + Bit(command_mode) = 1

Reading == step \in {"options", "check"}
Checked == step \in {"accepted", "refused"}

Tracks ==
  /\ OptionsTypeOK
  /\ Reading => Kept /\ (lazy <=> Asks("z"))
  /\ Checked => /\ Kept /\ (lazy <=> Asks("z") \/ pid # 0)
                /\ step = "accepted" <=> Passes

(* The option o is read: it is the last of its kind, and the last of each  *)
(* other kind stays what it was.                                           *)
LEMMA ReadOne ==
  ASSUME OptionsTypeOK, NEW o \in {"p", "e", "l", "z", "i"},
         NEW n \in PidArgs \cup LimitArgs \cup {0}, NEW w \in BOOLEAN,
         Read(o, n, w)
  PROVE  /\ given' \in Seq(Given)
         /\ \E i \in DOMAIN given' : /\ LastOf(o, i)'
                                     /\ given'[i].number = n
                                     /\ given'[i].whole = w
         /\ Asks(o)'
         /\ \A k \in {"p", "e", "l", "z", "i"} \ {o} :
              /\ Asks(k)' <=> Asks(k)
              /\ \A i \in DOMAIN given : LastOf(k, i) =>
                   /\ i \in DOMAIN given' /\ LastOf(k, i)'
                   /\ given'[i] = given[i]
<1> DEFINE r == [opt |-> o, number |-> n, whole |-> w]
<1>1. r \in Given /\ given \in Seq(Given) /\ given' = Append(given, r)
  BY DEF Given, OptionsTypeOK, Read
<1>2. r.opt = o /\ r.number = n /\ r.whole = w
  OBVIOUS
<1> HIDE DEF r
<1>3. PICK m \in Nat : m = Len(given) + 1
  BY <1>1
<1>4. /\ given' \in Seq(Given)
      /\ m \in DOMAIN given' /\ given'[m] = r
      /\ \A i \in DOMAIN given : i \in DOMAIN given' /\ given'[i] = given[i] /\ i < m
      /\ \A i \in DOMAIN given' : i \in DOMAIN given \/ i = m
  BY <1>1, <1>3, AppendOne
<1>5. LastOf(o, m)' /\ Asks(o)'
  <2>1. \A j \in DOMAIN given' : ~(j > m)
    BY <1>1, <1>4
  <2> QED
    BY <1>2, <1>4, <2>1 DEF LastOf, Asks
<1>6. ASSUME NEW k \in {"p", "e", "l", "z", "i"} \ {o}
      PROVE  /\ Asks(k)' <=> Asks(k)
             /\ \A i \in DOMAIN given : LastOf(k, i) =>
                  /\ i \in DOMAIN given' /\ LastOf(k, i)'
                  /\ given'[i] = given[i]
  BY <1>2, <1>4 DEF LastOf, Asks
<1> QED
  BY <1>2, <1>4, <1>5, <1>6

(* Whatever o is, if the variables that stand for the other kinds do not   *)
(* change, they still say what their last options did.                     *)
LEMMA KeepOthers ==
  ASSUME OptionsTypeOK, NEW o \in {"p", "e", "l", "z", "i"},
         NEW n \in PidArgs \cup LimitArgs \cup {0}, NEW w \in BOOLEAN,
         Read(o, n, w)
  PROVE  /\ o # "p" /\ KeptPid /\ pid' = pid /\ (pid_ok' <=> pid_ok) => KeptPid'
         /\ o # "l" /\ KeptLimit /\ perclimit' = perclimit
            /\ (limit_ok' <=> limit_ok) => KeptLimit'
<1>1. /\ \A k \in {"p", "e", "l", "z", "i"} \ {o} :
           /\ Asks(k)' <=> Asks(k)
           /\ \A i \in DOMAIN given : LastOf(k, i) =>
                /\ i \in DOMAIN given' /\ LastOf(k, i)'
                /\ given'[i] = given[i]
  BY ReadOne
<1>2. ASSUME o # "p", KeptPid, pid' = pid, pid_ok' <=> pid_ok
      PROVE  KeptPid'
  <2>1. CASE Asks("p")
    <3>1. PICK i \in DOMAIN given : /\ LastOf("p", i)
                                    /\ pid = PidOf(given[i].number)
                                    /\ pid_ok <=> given[i].whole
      BY <1>2, <2>1 DEF KeptPid
    <3>2. /\ i \in DOMAIN given' /\ LastOf("p", i)' /\ given'[i] = given[i]
          /\ Asks("p")'
      BY <1>1, <1>2, <2>1, <3>1
    <3>3. PidOf(given'[i].number) = PidOf(given[i].number)
      BY <3>2
    <3> QED
      BY <1>2, <3>1, <3>2, <3>3 DEF KeptPid, PidOf
  <2>2. CASE ~Asks("p")
    BY <1>1, <1>2, <2>2 DEF KeptPid
  <2> QED
    BY <2>1, <2>2
<1>3. ASSUME o # "l", KeptLimit, perclimit' = perclimit, limit_ok' <=> limit_ok
      PROVE  KeptLimit'
  BY <1>1, <1>3 DEF KeptLimit
<1> QED
  BY <1>2, <1>3

LEMMA TracksInit == MainInit => Tracks
<1> SUFFICES ASSUME MainInit
             PROVE  Tracks
  OBVIOUS
<1> USE DEF MainInit, OptionsInit
<1>1. given = <<>> /\ given \in Seq(Given) /\ DOMAIN given = {}
  OBVIOUS
<1>2. 0 \in PidRange
  BY OptionsAssumption DEF OptionsAssumption, PidRange
<1>3. OptionsTypeOK
  BY <1>1, <1>2 DEF OptionsTypeOK
<1>4. \A o : ~Asks(o)
  BY <1>1 DEF Asks
<1>5. Kept /\ (lazy <=> Asks("z"))
  BY <1>4 DEF Kept, KeptPid, KeptLimit, KeptFlags
<1> QED
  BY <1>3, <1>5 DEF Tracks, Checked

(* One option more.                                                        *)
LEMMA TracksPid ==
  ASSUME Tracks, NEW n \in PidArgs, NEW w \in BOOLEAN, ReadPid(n, w)
  PROVE  Tracks'
<1>0. /\ OptionsTypeOK /\ Reading /\ Kept /\ (lazy <=> Asks("z"))
      /\ Read("p", n, w) /\ n \in PidArgs \cup LimitArgs \cup {0}
      /\ step = "options"
  BY DEF Tracks, ReadPid, Read, Reading
<1>1. /\ pid' = PidOf(n) /\ (pid_ok' <=> w) /\ exe_ok' = exe_ok
      /\ perclimit' = perclimit /\ limit_ok' = limit_ok /\ lazy' = lazy
      /\ include_children' = include_children
      /\ step' = step /\ command_mode' = command_mode /\ pid_ok' \in BOOLEAN
  BY DEF ReadPid, Read, limitVars, flagVars
<1>2. OptionsTypeOK'
  BY <1>0, <1>1, ReadOne, PidOfFits, OptionsAssumption
  DEF OptionsTypeOK, OptionsAssumption
<1>3. KeptPid'
  BY <1>0, <1>1, ReadOne DEF KeptPid
<1>4. KeptLimit'
  BY <1>0, <1>1, KeepOthers DEF Kept
<1>5. KeptFlags' /\ (lazy' <=> Asks("z")')
  BY <1>0, <1>1, ReadOne DEF Kept, KeptFlags
<1> QED
  BY <1>0, <1>1, <1>2, <1>3, <1>4, <1>5 DEF Tracks, Kept, Reading, Checked

LEMMA TracksLimit ==
  ASSUME Tracks, NEW n \in LimitArgs, NEW w \in BOOLEAN, ReadLimit(n, w)
  PROVE  Tracks'
<1>0. /\ OptionsTypeOK /\ Reading /\ Kept /\ (lazy <=> Asks("z"))
      /\ Read("l", n, w) /\ n \in PidArgs \cup LimitArgs \cup {0}
      /\ step = "options"
  BY DEF Tracks, ReadLimit, Read, Reading
<1>1. /\ perclimit' = n /\ (limit_ok' <=> w) /\ exe_ok' = exe_ok
      /\ pid' = pid /\ pid_ok' = pid_ok /\ lazy' = lazy
      /\ include_children' = include_children
      /\ step' = step /\ command_mode' = command_mode /\ limit_ok' \in BOOLEAN
  BY DEF ReadLimit, Read, targetVars, flagVars
<1>2. OptionsTypeOK'
  BY <1>0, <1>1, ReadOne DEF OptionsTypeOK
<1>3. KeptLimit'
  BY <1>0, <1>1, ReadOne DEF KeptLimit
<1>4. KeptPid'
  BY <1>0, <1>1, KeepOthers DEF Kept
<1>5. KeptFlags' /\ (lazy' <=> Asks("z")')
  BY <1>0, <1>1, ReadOne DEF Kept, KeptFlags
<1> QED
  BY <1>0, <1>1, <1>2, <1>3, <1>4, <1>5 DEF Tracks, Kept, Reading, Checked

LEMMA TracksExe ==
  ASSUME Tracks, ReadExe
  PROVE  Tracks'
<1>0. /\ OptionsTypeOK /\ Reading /\ Kept /\ (lazy <=> Asks("z"))
      /\ Read("e", 0, TRUE) /\ step = "options"
  BY DEF Tracks, ReadExe, Read, Reading
<1>1. /\ exe_ok' = TRUE /\ pid' = pid /\ pid_ok' = pid_ok
      /\ perclimit' = perclimit /\ limit_ok' = limit_ok /\ lazy' = lazy
      /\ include_children' = include_children
      /\ step' = step /\ command_mode' = command_mode
  BY DEF ReadExe, Read, limitVars, flagVars
<1>2. OptionsTypeOK'
  BY <1>0, <1>1, ReadOne DEF OptionsTypeOK
<1>3. KeptPid' /\ KeptLimit'
  BY <1>0, <1>1, KeepOthers DEF Kept
<1>4. KeptFlags' /\ (lazy' <=> Asks("z")')
  BY <1>0, <1>1, ReadOne DEF Kept, KeptFlags
<1> QED
  BY <1>0, <1>1, <1>2, <1>3, <1>4 DEF Tracks, Kept, Reading, Checked

LEMMA TracksFlag ==
  ASSUME Tracks, NEW o \in {"z", "i"}, ReadFlag(o)
  PROVE  Tracks'
<1>0. /\ OptionsTypeOK /\ Reading /\ Kept /\ (lazy <=> Asks("z"))
      /\ Read(o, 0, TRUE) /\ step = "options" /\ o \in {"p", "e", "l", "z", "i"}
  BY DEF Tracks, ReadFlag, Read, Reading
<1>1. /\ exe_ok' = exe_ok /\ pid' = pid /\ pid_ok' = pid_ok
      /\ perclimit' = perclimit /\ limit_ok' = limit_ok
      /\ step' = step /\ command_mode' = command_mode
      /\ lazy' = (lazy \/ o = "z")
      /\ include_children' = (include_children \/ o = "i")
  BY DEF ReadFlag, Read, targetVars, limitVars
<1>2. lazy' \in BOOLEAN /\ include_children' \in BOOLEAN
  BY <1>1, Zenon
<1>3. OptionsTypeOK'
  BY <1>0, <1>1, <1>2, ReadOne DEF OptionsTypeOK
<1>4. KeptPid' /\ KeptLimit'
  BY <1>0, <1>1, KeepOthers DEF Kept
<1>5. KeptFlags' /\ (lazy' <=> Asks("z")')
  <2>1. CASE o = "z"
    BY <1>0, <1>1, <2>1, ReadOne DEF Kept, KeptFlags
  <2>2. CASE o = "i"
    BY <1>0, <1>1, <2>2, ReadOne DEF Kept, KeptFlags
  <2> QED
    BY <2>1, <2>2
<1> QED
  BY <1>0, <1>1, <1>3, <1>4, <1>5 DEF Tracks, Kept, Reading, Checked

(* What has been read does not change.                                     *)
LEMMA KeptSame ==
  ASSUME Kept, UNCHANGED <<targetVars, limitVars, include_children, given>>
  PROVE  Kept' /\ (Asks("z")' <=> Asks("z")) /\ (pid' = pid)
<1>1. /\ pid' = pid /\ pid_ok' = pid_ok /\ exe_ok' = exe_ok
      /\ perclimit' = perclimit /\ limit_ok' = limit_ok
      /\ include_children' = include_children /\ given' = given
  BY DEF targetVars, limitVars
<1>2. /\ \A o : Asks(o)' <=> Asks(o)
      /\ \A o, i : LastOf(o, i)' <=> LastOf(o, i)
  BY <1>1 DEF Asks, LastOf
<1> QED
  BY <1>1, <1>2 DEF Kept, KeptPid, KeptLimit, KeptFlags, PidOf

LEMMA TracksCheck ==
  ASSUME Tracks, Check
  PROVE  Tracks'
<1>0. /\ OptionsTypeOK /\ Kept /\ (lazy <=> Asks("z")) /\ step = "check"
  BY DEF Tracks, Check, Reading
<1>1. /\ pid' = pid /\ pid_ok' = pid_ok /\ exe_ok' = exe_ok
      /\ perclimit' = perclimit /\ limit_ok' = limit_ok
      /\ include_children' = include_children /\ given' = given
      /\ command_mode' = command_mode /\ lazy' = (lazy \/ pid # 0)
      /\ step' \in {"accepted", "refused"}
  BY DEF Check, targetVars, limitVars
<1>2. step' = "accepted" <=> Passes
  <2>1. pid \in Int /\ PidMax \in Int
    BY <1>0, OptionsAssumption DEF OptionsTypeOK, OptionsAssumption, PidRange
  <2>2. perclimit = NaN \/ (perclimit \in Int /\ 100 * NCPU \in Int)
    BY <1>0, OptionsAssumption DEF OptionsTypeOK, OptionsAssumption
  <2>3. /\ (pid <= 1 \/ pid >= PidMax) <=> ~(1 < pid /\ pid < PidMax)
        /\ (perclimit # NaN /\ (perclimit < 0 \/ perclimit > 100 * NCPU))
             <=> ~(perclimit = NaN \/ (0 <= perclimit /\ perclimit <= 100 * NCPU))
    BY <2>1, <2>2
  <2> QED
    BY <2>3, Zenon DEF Check, Passes
<1>3. Passes' <=> Passes
  BY <1>1 DEF Passes, Bit
<1>4. Kept' /\ (Asks("z")' <=> Asks("z"))
  BY <1>0, <1>1, KeptSame DEF targetVars, limitVars
<1>5. lazy' \in BOOLEAN /\ (lazy' <=> lazy \/ pid # 0)
  BY <1>1, Zenon
<1>6. OptionsTypeOK'
  BY <1>0, <1>1, <1>5 DEF OptionsTypeOK
<1> QED
  BY <1>0, <1>1, <1>2, <1>3, <1>4, <1>5, <1>6 DEF Tracks, Reading, Checked

LEMMA TracksOther ==
  ASSUME Tracks, \/ Usage \/ EndOptions \/ PidMaxUnknown \/ Dispatch
                 \/ UNCHANGED optionVars
  PROVE  Tracks'
<1>1. /\ pid' = pid /\ pid_ok' = pid_ok /\ exe_ok' = exe_ok
      /\ perclimit' = perclimit /\ limit_ok' = limit_ok
      /\ include_children' = include_children /\ lazy' = lazy
  BY DEF Usage, EndOptions, PidMaxUnknown, Dispatch, optionVars, targetVars,
         limitVars, flagVars
<1>2. /\ given' \in {given, <<>>} /\ command_mode' \in {command_mode, TRUE, FALSE}
      /\ step' \in {step, "usage", "check", "command", "search"}
  BY DEF Usage, EndOptions, PidMaxUnknown, Dispatch, optionVars
<1>3. OptionsTypeOK'
  <2>1. given' \in Seq(Given)
    <3>1. <<>> \in Seq(Given) /\ given \in Seq(Given)
      BY DEF Tracks, OptionsTypeOK
    <3> QED
      BY <1>2, <3>1, Zenon
  <2>2. command_mode' \in BOOLEAN
    BY <1>2, Zenon DEF Tracks, OptionsTypeOK
  <2> QED
    BY <1>1, <1>2, <2>1, <2>2 DEF Tracks, OptionsTypeOK
<1>4. CASE Usage \/ PidMaxUnknown \/ Dispatch
  <2>1. step' \in {"usage", "command", "search"}
    BY <1>4 DEF Usage, PidMaxUnknown, Dispatch
  <2> QED
    BY <1>3, <2>1 DEF Tracks, Reading, Checked
<1>5. CASE EndOptions
  <2>1. /\ step = "options" /\ step' = "check" /\ given' = given
    BY <1>5 DEF EndOptions
  <2>2. Kept /\ (lazy <=> Asks("z"))
    BY <2>1 DEF Tracks, Reading
  <2>3. Kept' /\ (Asks("z")' <=> Asks("z"))
    BY <1>1, <2>1, <2>2, KeptSame DEF targetVars, limitVars
  <2> QED
    BY <1>1, <1>3, <2>1, <2>2, <2>3 DEF Tracks, Reading, Checked
<1>6. CASE UNCHANGED optionVars
  <2>1. step' = step /\ given' = given /\ command_mode' = command_mode
    BY <1>6 DEF optionVars
  <2>2. Passes' <=> Passes
    BY <1>1, <2>1 DEF Passes, Bit
  <2>3. Kept => Kept' /\ (Asks("z")' <=> Asks("z"))
    BY <1>1, <2>1, KeptSame DEF targetVars, limitVars
  <2>4. Reading' <=> Reading
    BY <2>1 DEF Reading
  <2>5. Checked' <=> Checked
    BY <2>1 DEF Checked
  <2> QED
    BY <1>1, <1>3, <2>1, <2>2, <2>3, <2>4, <2>5 DEF Tracks
<1> QED
  BY <1>4, <1>5, <1>6

LEMMA TracksStep == Tracks /\ [MainNext]_mainVars => Tracks'
<1> SUFFICES ASSUME Tracks, [MainNext]_mainVars
             PROVE  Tracks'
  OBVIOUS
<1>1. CASE ReadOptions
  BY <1>1, TracksPid, TracksLimit, TracksExe, TracksFlag, TracksCheck,
     TracksOther DEF ReadOptions
<1>2. CASE Dispatch
  BY <1>2, TracksOther
<1>3. CASE UNCHANGED optionVars
  BY <1>3, TracksOther
<1> QED
  BY <1>1, <1>2, <1>3
  DEF MainNext, Parsing, InCommandMode, Elsewhere, mainVars

LEMMA AlwaysTracks == MainSpec => []Tracks
BY TracksInit, TracksStep, PTL DEF MainSpec

------------------------------------------------------------------------------
(* The last of its kind is one.                                            *)
LEMMA OneLast ==
  ASSUME given \in Seq(Given), NEW o, NEW i \in DOMAIN given,
         NEW j \in DOMAIN given, LastOf(o, i), LastOf(o, j)
  PROVE  i = j
<1>1. i \in Nat /\ j \in Nat
  OBVIOUS
<1>2. ~(j > i) /\ ~(i > j)
  BY DEF LastOf
<1> QED
  BY <1>1, <1>2

(* A number that a pid_t can hold is not changed.                          *)
LEMMA PidOfSame == \A n \in PidRange : PidOf(n) = n
<1> SUFFICES ASSUME NEW n \in PidRange
             PROVE  PidOf(n) = n
  OBVIOUS
<1> DEFINE w == 2 * PidHalf
           m == n + PidHalf
<1>1. w \in Nat \ {0} /\ m \in 0 .. w - 1 /\ n \in Int /\ PidHalf \in Nat
  BY OptionsAssumption DEF OptionsAssumption, PidRange
<1>2. m % w = m
  <2> HIDE DEF w, m
  <2> QED
    BY <1>1
<1> QED
  BY <1>1, <1>2 DEF PidOf

(* What the variables hold is what the command line asks for.              *)
LEMMA KeptIsAsked ==
  ASSUME OptionsTypeOK, Kept
  PROVE  /\ PidFits => AskedPid = IF pid_ok THEN {pid} ELSE {}
         /\ AskedLimit = IF limit_ok THEN {perclimit} ELSE {}
         /\ (\E i \in DOMAIN given : LastOf("p", i) /\ PidOf(given[i].number) # 0)
              <=> pid # 0
<1>0. given \in Seq(Given)
  BY DEF OptionsTypeOK
<1>1. /\ PidFits => AskedPid = IF pid_ok THEN {pid} ELSE {}
      /\ (\E i \in DOMAIN given : LastOf("p", i) /\ PidOf(given[i].number) # 0)
           <=> pid # 0
  <2>1. CASE ~Asks("p")
    <3>1. \A i \in DOMAIN given : ~LastOf("p", i)
      BY <2>1 DEF Asks, LastOf
    <3>2. pid = 0 /\ ~pid_ok
      BY <2>1 DEF Kept, KeptPid
    <3>3. AskedPid = {}
      BY <3>1 DEF AskedPid
    <3> QED
      BY <3>1, <3>2, <3>3
  <2>2. CASE Asks("p")
    <3>1. PICK i \in DOMAIN given : /\ LastOf("p", i)
                                    /\ pid = PidOf(given[i].number)
                                    /\ pid_ok <=> given[i].whole
      BY <2>2 DEF Kept, KeptPid
    <3>2. \A j \in DOMAIN given : LastOf("p", j) => j = i
      BY <1>0, <3>1, OneLast
    <3>3. AskedPid = IF pid_ok THEN {given[i].number} ELSE {}
      BY <3>1, <3>2 DEF AskedPid
    <3>4. PidFits => AskedPid = IF pid_ok THEN {pid} ELSE {}
      BY <3>1, <3>3, PidOfSame DEF PidFits
    <3> QED
      BY <3>1, <3>2, <3>4
  <2> QED
    BY <2>1, <2>2
<1>2. AskedLimit = IF limit_ok THEN {perclimit} ELSE {}
  <2>1. CASE ~Asks("l")
    <3>1. \A i \in DOMAIN given : ~LastOf("l", i)
      BY <2>1 DEF Asks, LastOf
    <3> QED
      BY <2>1, <3>1 DEF AskedLimit, Kept, KeptLimit
  <2>2. CASE Asks("l")
    <3>1. PICK i \in DOMAIN given : /\ LastOf("l", i)
                                    /\ perclimit = given[i].number
                                    /\ limit_ok <=> given[i].whole
      BY <2>2 DEF Kept, KeptLimit
    <3>2. \A j \in DOMAIN given : LastOf("l", j) => j = i
      BY <1>0, <3>1, OneLast
    <3> QED
      BY <3>1, <3>2 DEF AskedLimit
  <2> QED
    BY <2>1, <2>2
<1> QED
  BY <1>1, <1>2

LEMMA TracksImplies == Tracks => OptionsTypeOK /\ AcceptedAsGiven /\ ActsAsGiven
<1> SUFFICES ASSUME Tracks
             PROVE  OptionsTypeOK /\ AcceptedAsGiven /\ ActsAsGiven
  OBVIOUS
<1>1. OptionsTypeOK
  BY DEF Tracks
<1>2. ASSUME Checked
      PROVE  AcceptedAsGiven /\ ActsAsGiven
  <2>1. /\ Kept /\ (lazy <=> Asks("z") \/ pid # 0)
        /\ step = "accepted" <=> Passes
    BY <1>2 DEF Tracks
  <2>2. /\ PidFits => AskedPid = IF pid_ok THEN {pid} ELSE {}
        /\ AskedLimit = IF limit_ok THEN {perclimit} ELSE {}
        /\ (\E i \in DOMAIN given : LastOf("p", i) /\ PidOf(given[i].number) # 0)
             <=> pid # 0
    BY <1>1, <2>1, KeptIsAsked
  <2>3. (exe_ok <=> Asks("e")) /\ (include_children <=> Asks("i"))
    BY <2>1 DEF Kept, KeptFlags
  <2>4. /\ pid \in Int /\ PidMax \in Int /\ perclimit \in Int \cup {NaN}
        /\ 100 * NCPU \in Int /\ NaN \notin Int
    BY <1>1, OptionsAssumption DEF OptionsTypeOK, OptionsAssumption, PidRange
  <2>5. AskedLimit # {} <=> limit_ok
    BY <2>2
  <2>6. ASSUME PidFits, NaN \notin AskedLimit
        PROVE  Passes <=>
                 /\ AskedPid \subseteq 2 .. PidMax - 1
                 /\ AskedLimit # {} /\ AskedLimit \subseteq 0 .. 100 * NCPU
                 /\ Bit(AskedPid # {}) + Bit(Asks("e")) + Bit(command_mode) = 1
    <3>1. /\ AskedPid \subseteq 2 .. PidMax - 1
               <=> (pid_ok => 1 < pid /\ pid < PidMax)
          /\ AskedPid # {} <=> pid_ok
          /\ limit_ok => (AskedLimit \subseteq 0 .. 100 * NCPU
               <=> perclimit = NaN \/ (0 <= perclimit /\ perclimit <= 100 * NCPU))
      BY <2>2, <2>4, <2>6
    <3>2. Bit(AskedPid # {}) + Bit(Asks("e")) + Bit(command_mode)
            = Bit(exe_ok) + Bit(pid_ok) + Bit(command_mode)
      BY <2>3, <3>1 DEF Bit
    <3> QED
      BY <2>5, <3>1, <3>2, Zenon DEF Passes
  <2>7. AcceptedAsGiven
    BY <2>1, <2>6, Zenon DEF AcceptedAsGiven
  <2>8. ActsAsGiven
    BY <2>1, <2>2, <2>3, <2>5 DEF ActsAsGiven, Passes
  <2> QED
    BY <2>7, <2>8
<1>3. ASSUME ~Checked
      PROVE  AcceptedAsGiven /\ ActsAsGiven
  BY <1>3 DEF Checked, AcceptedAsGiven, ActsAsGiven
<1> QED
  BY <1>1, <1>2, <1>3

(* Every variable of main() keeps its type: whatever numbers were given, a *)
(* pid is one that fits into a pid_t.                                      *)
THEOREM MainTypeCorrect == MainSpec => []MainTypeOK
<1>1. OptionsTypeOK /\ TypeOK => MainTypeOK
  BY DEF MainTypeOK
<1> QED
  BY <1>1, AlwaysTracks, TracksImplies, MainKeepsCommandMode,
     CommandModeTypeCorrect, PTL DEF MainSpec

(* However many options there are, and in what order, main() accepts a     *)
(* command line exactly if its last -p and -l and its target are in order. *)
THEOREM AcceptsAsGiven == MainSpec => []AcceptedAsGiven
BY AlwaysTracks, TracksImplies, PTL

(* What it then does is what the last options say.                         *)
THEOREM DoesAsGiven == MainSpec => []ActsAsGiven
BY AlwaysTracks, TracksImplies, PTL
===============================================================================
