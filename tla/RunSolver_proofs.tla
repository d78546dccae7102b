-------------------------- MODULE RunSolver_proofs --------------------------
(***************************************************************************)
(* Proofs about RunSolver, for any command lines, machines and hard limits *)
(* of the user:                                                            *)
(*   HardIsLater   the kernel's limits come after those of the watcher;    *)
(*   SolverPinned  the solver runs on the cores that were selected, unless *)
(*                 --cores meets a mask of several words.                  *)
(***************************************************************************)
EXTENDS RunSolver, SequenceLemmas, FiniteSetTheorems, TLAPS

SettingsOK ==
    /\ args \in Seq(GivenOptions)
    /\ DOMAIN settings =
          {"timestamp", "pty", "input", "output", "vsize", "mem", "watchdog"}
    /\ settings.vsize \in Int /\ settings.mem \in Int
    /\ DOMAIN watched = {"cpu", "wall", "vsize", "mem"}
    /\ watched.cpu \in Int /\ watched.vsize \in Int
    /\ ceiling \in [{"cpu", "as", "stack"} -> Int]

LimitSet == [resource : {"none", "cpu", "stack", "as"}, limit : Int]
LimitsOK == limits \in Seq(LimitSet)

\* Of several limits of a resource the last one holds: -C may be given twice.
LastIn(s, resource, limit) ==
    \E n \in DOMAIN s :
        /\ s[n] = Limit(resource, limit)
        /\ \A k \in DOMAIN s : s[k].resource = resource => k <= n

Reading == pc = "options"

\* The limits to enforce follow those that the watcher enforces.
CPUHolds == watched.cpu # 0 => LastIn(limits, "cpu", watched.cpu + 30)
VSizeHolds ==
    /\ watched.vsize # 0 => LastIn(limits, "as", watched.vsize + 50 * 1024)
    /\ Reading => watched.vsize = 0
LastHolds == CPUHolds /\ VSizeHolds

\* The child enforces them after the last option was read.
Begun == child \in {"input", "output", "exec", "solver", "failed"}
EnforcedInv ==
    /\ Reading => child = "none"
    /\ Begun => \A r \in Resources :
          Enforceable(r) # {} => rlimit[r] = limits[Max(Enforceable(r))].limit

LimitInv == SettingsOK /\ LimitsOK /\ LastHolds /\ EnforcedInv
-----------------------------------------------------------------------------
(***************************************************************************)
(* Limits that are appended.                                               *)
(***************************************************************************)
LEMMA Appended ==
    ASSUME NEW S, NEW s \in Seq(S), NEW t \in Seq(S)
    PROVE  /\ s \o t \in Seq(S)
           /\ DOMAIN (s \o t) = 1 .. Len(s) + Len(t) /\ DOMAIN s = 1 .. Len(s)
           /\ DOMAIN t = 1 .. Len(t) /\ Len(s) \in Nat /\ Len(t) \in Nat
           /\ \A k \in 1 .. Len(s) : (s \o t)[k] = s[k]
           /\ \A k \in 1 .. Len(t) : (s \o t)[Len(s) + k] = t[k]
           /\ \A k \in 1 .. Len(s) + Len(t) :
                 k \in 1 .. Len(s) \/ \E j \in 1 .. Len(t) : k = Len(s) + j
<1>1. \A k \in 1 .. Len(s) + Len(t) :
         k \in 1 .. Len(s) \/ \E j \in 1 .. Len(t) : k = Len(s) + j
  <2> TAKE k \in 1 .. Len(s) + Len(t)
  <2>1. CASE k > Len(s)
    <3>1. k - Len(s) \in 1 .. Len(t) /\ k = Len(s) + (k - Len(s))
      BY <2>1
    <3> QED
      BY <3>1
  <2> QED
    BY <2>1
<1> QED
  BY <1>1

\* Limits of other resources do not matter ...
LEMMA LastStays ==
    ASSUME NEW s \in Seq(LimitSet), NEW t \in Seq(LimitSet), NEW r, NEW l,
           LastIn(s, r, l), \A k \in DOMAIN t : t[k].resource # r
    PROVE  LastIn(s \o t, r, l)
<1>1. PICK n \in DOMAIN s :
         /\ s[n] = Limit(r, l)
         /\ \A k \in DOMAIN s : s[k].resource = r => k <= n
  BY DEF LastIn
<1>2. n \in DOMAIN (s \o t) /\ (s \o t)[n] = Limit(r, l)
  BY <1>1, Appended
<1>3. \A k \in DOMAIN (s \o t) : (s \o t)[k].resource = r => k <= n
  BY <1>1, Appended
<1> QED
  BY <1>2, <1>3 DEF LastIn

\* ... and one that comes last holds.
LEMMA LastComes ==
    ASSUME NEW s \in Seq(LimitSet), NEW t \in Seq(LimitSet), NEW r, NEW l,
           LastIn(t, r, l)
    PROVE  LastIn(s \o t, r, l)
<1>1. PICK n \in DOMAIN t :
         /\ t[n] = Limit(r, l)
         /\ \A k \in DOMAIN t : t[k].resource = r => k <= n
  BY DEF LastIn
<1>2. Len(s) + n \in DOMAIN (s \o t) /\ (s \o t)[Len(s) + n] = Limit(r, l)
  BY <1>1, Appended
<1>3. \A k \in DOMAIN (s \o t) : (s \o t)[k].resource = r => k <= Len(s) + n
  <2> TAKE k \in DOMAIN (s \o t)
  <2>1. CASE k \in 1 .. Len(s)
    BY <1>1, <2>1, Appended
  <2>2. ASSUME NEW j \in 1 .. Len(t), k = Len(s) + j
        PROVE  (s \o t)[k].resource = r => k <= Len(s) + n
    BY <1>1, <2>2, Appended
  <2> QED
    BY <2>1, <2>2, Appended
<1> QED
  BY <1>2, <1>3 DEF LastIn

\* The pair that a limit of the watcher and one of the kernel make.
LEMMA PairIsLast ==
    ASSUME NEW l \in Int, NEW h \in Int, NEW r \in {"cpu", "as"},
           NEW t, t = <<Limit("none", l), Limit(r, h)>>
    PROVE  /\ t \in Seq(LimitSet) /\ LastIn(t, r, h)
           /\ \A k \in DOMAIN t : t[k].resource \in {"none", r}
BY DEF LimitSet, Limit, LastIn
-----------------------------------------------------------------------------
(***************************************************************************)
(* The options.                                                            *)
(***************************************************************************)
\* What reading an option that sets no limit of CPU time leaves alone.
LEMMA OtherOption ==
    ASSUME LimitInv, Reading, pc' = pc, UNCHANGED <<child, ceiling>>, SettingsOK',
           UNCHANGED watched.cpu, UNCHANGED watched.vsize,
           NEW t \in Seq(LimitSet), limits' = limits \o t,
           \A k \in DOMAIN t : t[k].resource \notin {"cpu", "as"}
    PROVE  LimitInv'
<1> USE DEF LimitInv
<1>1. LimitsOK'
  BY Appended DEF LimitsOK
<1>2. LastHolds'
  <2>1. limits \in Seq(LimitSet)
    BY DEF LimitsOK
  <2>2. \A h : LastIn(limits, "cpu", h) => LastIn(limits', "cpu", h)
    BY <2>1, LastStays
  <2>3. \A h : LastIn(limits, "as", h) => LastIn(limits', "as", h)
    BY <2>1, LastStays
  <2> QED
    BY <2>2, <2>3 DEF LastHolds, CPUHolds, VSizeHolds, Reading
<1>3. EnforcedInv'
  BY DEF EnforcedInv, Begun, Reading
<1> QED
  BY <1>1, <1>2, <1>3

\* A limit of neither of them, appended.
LEMMA OneLimit ==
    ASSUME NEW r \in {"none", "stack"}, NEW l \in Int
    PROVE  Limit(r, l) \in LimitSet
BY DEF LimitSet, Limit

LEMMA AppendIsConcat ==
    ASSUME NEW S, NEW s \in Seq(S), NEW e \in S
    PROVE  <<e>> \in Seq(S) /\ Append(s, e) = s \o <<e>>
OBVIOUS

LEMMA NeitherResource ==
    ASSUME NEW r \in {"none", "stack"}, NEW l \in Int, NEW t, t = <<Limit(r, l)>>
    PROVE  \A k \in DOMAIN t : t[k].resource \notin {"cpu", "as"}
<1>1. Limit(r, l).resource = r
  BY DEF Limit
<1> QED
  BY <1>1

LEMMA FirstOption ==
    ASSUME args \in Seq(GivenOptions), args # <<>>
    PROVE  Head(args) \in GivenOptions /\ Tail(args) \in Seq(GivenOptions)
OBVIOUS

LEMMA SizeInKiB ==
    ASSUME NEW setting \in {"vsize", "mem"}
    PROVE  Value(setting) = Option.arg * 1024
<1>1. setting \notin {"timestamp", "pty"}
  OBVIOUS
<1> QED
  BY <1>1 DEF Value

LEMMA OptionStep == LimitInv /\ ReadOption => LimitInv'
<1> SUFFICES ASSUME LimitInv, ReadOption PROVE LimitInv'
  OBVIOUS
<1> USE DEF Reads, NextOption, OthersUnchanged, Reading, Option, machine
<1>a. /\ Reading /\ args # <<>> /\ UNCHANGED <<child, ceiling>>
      /\ Head(args) \in GivenOptions
  BY FirstOption DEF ReadOption, SetMember, SetCPULimit, SetWallClockLimit, SetStackLimit, SelectCores, OutputLimit, Refuse, Refused, PrintVersion, Exit, LimitInv, SettingsOK
<1>1. CASE SetMember
  <2>1. UNCHANGED <<watched, limits, pc>>
    BY <1>1 DEF SetMember
  <2>2. SettingsOK'
    <3> DEFINE name == Head(args).name
    <3>1. /\ settings' = [settings EXCEPT ![Setting(name)] = Value(Setting(name))]
          /\ name \in Setters /\ args' = Tail(args)
      BY <1>1 DEF SetMember
    <3>2. CASE name \in {"-M", "--mem-limit", "--vsize-limit", "--rss-swap-limit"}
      <4>0. Setting(name) \in {"vsize", "mem"}
        <5>1. CASE name = "--rss-swap-limit"
          BY <5>1 DEF Setting
        <5>2. CASE name \in {"-M", "--mem-limit", "--vsize-limit"}
          BY <5>2 DEF Setting
        <5> QED
          BY <3>2, <5>1, <5>2
      <4>1. /\ Setting(name) \in {"vsize", "mem"}
            /\ Value(Setting(name)) = Head(args).arg * 1024
        BY <4>0, SizeInKiB
      <4>2. Head(args).arg \in Int
        BY <1>a, <3>2, OptionsAssumption
      <4>3. settings'.vsize \in Int /\ settings'.mem \in Int
            /\ DOMAIN settings' = DOMAIN settings
        BY <3>1, <4>1, <4>2 DEF LimitInv, SettingsOK
      <4> QED
        BY <1>a, <2>1, <3>1, <4>3, FirstOption DEF LimitInv, SettingsOK
    <3>3. CASE name \in {"--timestamp", "--use-pty", "--input", "-o", "--watchdog"}
      <4>1. Setting(name) \in {"timestamp", "pty", "input", "output", "watchdog"}
        BY <3>3 DEF Setting
      <4>2. settings'.vsize \in Int /\ settings'.mem \in Int
            /\ DOMAIN settings' = DOMAIN settings
        BY <3>1, <4>1 DEF LimitInv, SettingsOK
      <4> QED
        BY <1>a, <2>1, <3>1, <4>2, FirstOption DEF LimitInv, SettingsOK
    <3> QED
      BY <3>1, <3>2, <3>3 DEF Setters
  <2> QED
    BY <1>a, <2>1, <2>2 DEF LimitInv, LimitsOK, LastHolds, CPUHolds, VSizeHolds, EnforcedInv, Begun, LastIn, Limit
<1>2. CASE SetCPULimit
  <2> DEFINE l == Head(args).arg
             t == <<Limit("none", l), Limit("cpu", l + 30)>>
  <2>1. /\ limits' = limits \o t /\ pc' = pc
        /\ watched' = [watched EXCEPT !.cpu = l]
    BY <1>2 DEF SetCPULimit
  <2>2. l \in Int
    BY <1>2, <1>a, OptionsAssumption DEF SetCPULimit
  <2>3. SettingsOK'
    BY <1>2, <2>1, <2>2, <1>a, FirstOption DEF LimitInv, SettingsOK, SetCPULimit
  <2>4. /\ t \in Seq(LimitSet) /\ LastIn(t, "cpu", l + 30)
        /\ \A k \in DOMAIN t : t[k].resource \in {"none", "cpu"}
    <3>1. l + 30 \in Int /\ "cpu" \in {"cpu", "as"}
      BY <2>2
    <3>2. t = <<Limit("none", l), Limit("cpu", l + 30)>>
      OBVIOUS
    <3> HIDE DEF t
    <3> QED
      BY <2>2, <3>1, <3>2, PairIsLast
  <2> HIDE DEF t
  <2>5. LimitsOK' /\ LastIn(limits', "cpu", l + 30)
    BY <2>1, <2>4, LastComes, Appended DEF LimitsOK, LimitInv
  <2>6. watched'.cpu = l /\ watched'.vsize = watched.vsize /\ watched.vsize = 0
    BY <2>1, <1>a DEF LimitInv, SettingsOK, LastHolds, VSizeHolds
  <2> QED
    BY <1>a, <2>1, <2>3, <2>5, <2>6 DEF LimitInv, LastHolds, CPUHolds, VSizeHolds, EnforcedInv, Begun, LastIn, Limit
<1>3. CASE SetWallClockLimit \/ SetStackLimit
  <2>1. PICK r \in {"none", "stack"}, l \in Int : limits' = Append(limits, Limit(r, l))
    <3>1. CASE SetWallClockLimit
      <4>1. Head(args).arg \in Int /\ limits' = Append(limits, Limit("none", Head(args).arg))
        BY <1>a, <3>1, OptionsAssumption DEF SetWallClockLimit
      <4> QED
        BY <4>1
    <3>2. CASE SetStackLimit
      <4>1. /\ Head(args).arg * 1024 \in Int
            /\ limits' = Append(limits, Limit("stack", Head(args).arg * 1024))
        BY <1>a, <3>2, OptionsAssumption DEF SetStackLimit
      <4> QED
        BY <4>1
    <3> QED
      BY <1>3, <3>1, <3>2
  <2> DEFINE t == <<Limit(r, l)>>
  <2>3. t = <<Limit(r, l)>>
    OBVIOUS
  <2> HIDE DEF t
  <2>4. /\ t \in Seq(LimitSet) /\ limits' = limits \o t
        /\ \A k \in DOMAIN t : t[k].resource \notin {"cpu", "as"}
    <3>1. limits \in Seq(LimitSet)
      BY DEF LimitInv, LimitsOK
    <3>2. t \in Seq(LimitSet) /\ limits' = limits \o t
      BY <2>1, <2>3, <3>1, OneLimit, AppendIsConcat
    <3>3. \A k \in DOMAIN t : t[k].resource \notin {"cpu", "as"}
      BY <2>3, NeitherResource
    <3> QED
      BY <3>2, <3>3
  <2>2. /\ SettingsOK' /\ pc' = pc
        /\ watched'.cpu = watched.cpu /\ watched'.vsize = watched.vsize
    BY <1>3, <1>a, FirstOption DEF LimitInv, SettingsOK, SetWallClockLimit, SetStackLimit
  <2> QED
    BY <1>a, <2>2, <2>4, OtherOption
<1>4. CASE SelectCores
  <2>1. /\ UNCHANGED <<settings, watched, limits, pc>> /\ args' = Tail(args)
    BY <1>4 DEF SelectCores
  <2> QED
    BY <1>a, <2>1, FirstOption DEF LimitInv, SettingsOK, LimitsOK, LastHolds, CPUHolds,
         VSizeHolds, EnforcedInv, Begun, LastIn, Limit
<1>5. CASE OutputLimit
  <2>1. /\ settings' = [settings EXCEPT !.timestamp = TRUE]
        /\ UNCHANGED <<watched, limits, pc>> /\ args' = Tail(args)
    BY <1>5 DEF OutputLimit
  <2> QED
    BY <1>a, <2>1, FirstOption DEF LimitInv, SettingsOK, LimitsOK, LastHolds, CPUHolds,
         VSizeHolds, EnforcedInv, Begun, LastIn, Limit
<1>6. CASE Refuse \/ PrintVersion
  <2>1. /\ pc' = "exited"
        /\ UNCHANGED <<args, settings, watched, limits>>
    BY <1>6 DEF Refuse, PrintVersion, Exit, setup
  <2> QED
    BY <1>a, <2>1 DEF LimitInv, SettingsOK, LimitsOK, LastHolds, CPUHolds,
         VSizeHolds, EnforcedInv, Begun, LastIn, Limit
<1> QED
  BY <1>1, <1>2, <1>3, <1>4, <1>5, <1>6 DEF ReadOption
-----------------------------------------------------------------------------
(***************************************************************************)
(* After the options: the limits of memory.                                *)
(***************************************************************************)
LEMMA PairOrNone ==
    ASSUME NEW v \in Int, NEW x,
           x = IF v = 0 THEN <<>> ELSE <<Limit("none", v), Limit("as", v + 50 * 1024)>>
    PROVE  /\ x \in Seq(LimitSet) /\ \A k \in DOMAIN x : x[k].resource # "cpu"
           /\ v # 0 => LastIn(x, "as", v + 50 * 1024)
<1>1. CASE v = 0
  BY <1>1
<1>2. CASE v # 0
  <2>1. v + 50 * 1024 \in Int /\ "as" \in {"cpu", "as"}
    OBVIOUS
  <2>2. x = <<Limit("none", v), Limit("as", v + 50 * 1024)>>
    BY <1>2
  <2> QED
    BY <2>1, <2>2, PairIsLast
<1> QED
  BY <1>1, <1>2

LEMMA OneOrNone ==
    ASSUME NEW m \in Int, NEW y, y = IF m = 0 THEN <<>> ELSE <<Limit("none", m)>>
    PROVE  y \in Seq(LimitSet) /\ \A k \in DOMAIN y : y[k].resource \notin {"cpu", "as"}
<1>1. CASE m = 0
  BY <1>1
<1>2. CASE m # 0
  <2>1. y = <<Limit("none", m)>> /\ "none" \in {"none", "stack"}
    BY <1>2
  <2>2. \A k \in DOMAIN y : y[k].resource \notin {"cpu", "as"}
    BY <2>1, NeitherResource
  <2>3. Limit("none", m) \in LimitSet
    BY DEF LimitSet, Limit
  <2> QED
    BY <2>1, <2>2, <2>3
<1> QED
  BY <1>1, <1>2

\* A pair of limits of memory, or none, and then a limit of neither resource, or
\* none, after those that the options made.
LEMMA MemoryLimits ==
    ASSUME NEW s \in Seq(LimitSet), NEW x \in Seq(LimitSet), NEW y \in Seq(LimitSet),
           \A k \in DOMAIN x : x[k].resource # "cpu",
           \A k \in DOMAIN y : y[k].resource \notin {"cpu", "as"}
    PROVE  /\ s \o x \o y \in Seq(LimitSet)
           /\ \A h : LastIn(x, "as", h) => LastIn(s \o x \o y, "as", h)
           /\ \A h : LastIn(s, "cpu", h) => LastIn(s \o x \o y, "cpu", h)
<1>1. s \o x \in Seq(LimitSet) /\ s \o x \o y \in Seq(LimitSet)
  OBVIOUS
<1>2. ASSUME NEW h, LastIn(x, "as", h)
      PROVE  LastIn(s \o x \o y, "as", h)
  <2>1. LastIn(s \o x, "as", h)
    BY <1>2, LastComes
  <2>2. \A k \in DOMAIN y : y[k].resource # "as"
    OBVIOUS
  <2> QED
    BY <2>1, <2>2, <1>1, LastStays
<1>3. ASSUME NEW h, LastIn(s, "cpu", h)
      PROVE  LastIn(s \o x \o y, "cpu", h)
  <2>1. LastIn(s \o x, "cpu", h)
    BY <1>3, LastStays
  <2>2. \A k \in DOMAIN y : y[k].resource # "cpu"
    OBVIOUS
  <2> QED
    BY <2>1, <2>2, <1>1, LastStays
<1> QED
  BY <1>1, <1>2, <1>3

LEMMA AddLimitsStep == LimitInv /\ AddLimits => LimitInv'
<1> SUFFICES ASSUME LimitInv, AddLimits PROVE LimitInv'
  OBVIOUS
<1> DEFINE x == IF settings.vsize = 0 THEN <<>>
                ELSE <<Limit("none", settings.vsize),
                       Limit("as", settings.vsize + 50 * 1024)>>
           y == IF settings.mem = 0 THEN <<>> ELSE <<Limit("none", settings.mem)>>
<1>1. limits' = limits \o x \o y
  BY DEF AddLimits
<1>2. /\ x = IF settings.vsize = 0 THEN <<>>
             ELSE <<Limit("none", settings.vsize),
                    Limit("as", settings.vsize + 50 * 1024)>>
      /\ y = IF settings.mem = 0 THEN <<>> ELSE <<Limit("none", settings.mem)>>
  OBVIOUS
<1> HIDE DEF x, y
<1>3. limits \in Seq(LimitSet) /\ settings.vsize \in Int /\ settings.mem \in Int
  BY DEF LimitInv, LimitsOK, SettingsOK
<1>4. /\ limits' \in Seq(LimitSet)
      /\ settings.vsize # 0 => LastIn(limits', "as", settings.vsize + 50 * 1024)
      /\ \A h : LastIn(limits, "cpu", h) => LastIn(limits', "cpu", h)
  <2>1. /\ x \in Seq(LimitSet) /\ \A k \in DOMAIN x : x[k].resource # "cpu"
        /\ settings.vsize # 0 => LastIn(x, "as", settings.vsize + 50 * 1024)
    BY <1>2, <1>3, PairOrNone
  <2>2. y \in Seq(LimitSet) /\ \A k \in DOMAIN y : y[k].resource \notin {"cpu", "as"}
    BY <1>2, <1>3, OneOrNone
  <2> QED
    BY <1>1, <1>3, <2>1, <2>2, MemoryLimits
<1>5. /\ watched'.cpu = watched.cpu /\ watched'.vsize = settings.vsize
      /\ DOMAIN watched' = DOMAIN watched
      /\ Reading /\ pc' = "run"
      /\ UNCHANGED <<args, settings, ceiling, child>>
  BY DEF AddLimits, LimitInv, SettingsOK, OthersUnchanged, machine, Reading
<1>6. SettingsOK'
  BY <1>3, <1>5 DEF LimitInv, SettingsOK
<1>7. CPUHolds'
  BY <1>4, <1>5 DEF LimitInv, LastHolds, CPUHolds
<1>8. VSizeHolds'
  BY <1>4, <1>5 DEF VSizeHolds, Reading
<1>9. EnforcedInv'
  BY <1>5 DEF LimitInv, EnforcedInv, Begun, Reading
<1> QED
  BY <1>4, <1>6, <1>7, <1>8, <1>9 DEF LimitInv, LimitsOK, LastHolds
-----------------------------------------------------------------------------
(***************************************************************************)
(* The run.                                                                *)
(***************************************************************************)
\* Nothing changes the limits once the options were read.
LEMMA LimitsKept ==
    ASSUME LimitInv, UNCHANGED <<args, settings, watched, limits, ceiling>>,
           Reading' => Reading, EnforcedInv'
    PROVE  LimitInv'
BY DEF LimitInv, SettingsOK, LimitsOK, LastHolds, CPUHolds, VSizeHolds, LastIn

LEMMA EnforceStep == LimitInv /\ EnforceLimits => LimitInv'
<1> SUFFICES ASSUME LimitInv, EnforceLimits PROVE LimitInv'
  OBVIOUS
<1>1. /\ UNCHANGED <<args, settings, watched, limits, ceiling, pc>>
      /\ rlimit' = [r \in Resources |-> Enforced(r)]
  BY DEF EnforceLimits, machine, setup
<1>2. ~Reading /\ ~Reading'
  BY <1>1 DEF LimitInv, EnforcedInv, EnforceLimits, Reading
<1>3. \A r \in Resources : Enforceable(r)' = Enforceable(r)
  BY <1>1 DEF Enforceable
<1>4. ASSUME NEW r \in Resources, Enforceable(r)' # {}
      PROVE  (rlimit[r] = limits[Max(Enforceable(r))].limit)'
  BY <1>1, <1>3, <1>4 DEF Enforced
<1>5. EnforcedInv'
  BY <1>2, <1>4 DEF EnforcedInv
<1> QED
  BY <1>1, <1>2, <1>5, LimitsKept

\* A step that neither reads an option nor enforces a limit.
LEMMA OtherStep ==
    ASSUME LimitInv, UNCHANGED <<args, settings, watched, limits, ceiling, rlimit>>,
           Reading' => Reading, Begun' => Begun, Reading' => child' = child
    PROVE  LimitInv'
<1>1. \A r \in Resources : Enforceable(r)' = Enforceable(r)
  BY DEF Enforceable
<1>2. EnforcedInv'
  BY <1>1 DEF LimitInv, EnforcedInv
<1> QED
  BY <1>2, LimitsKept

LEMMA LimitStep == LimitInv /\ [Next]_vars => LimitInv'
<1> SUFFICES ASSUME LimitInv, [Next]_vars PROVE LimitInv'
  OBVIOUS
<1>1. CASE ReadOption
  BY <1>1, OptionStep
<1>2. CASE AddLimits
  BY <1>2, AddLimitsStep
<1>3. CASE EnforceLimits
  BY <1>3, EnforceStep
<1>4. CASE \/ InstallHandlers \/ OpenFails \/ StartStamper \/ Parent
           \/ WatchPIDReturns \/ JoinStamper \/ NoSubreaper \/ ForkFails
  BY <1>4, OtherStep
     DEF InstallHandlers, OpenFails, StartStamper, Parent, WatchPIDReturns, JoinStamper,
         NoSubreaper, ForkFails, Exit, OthersUnchanged, machine, setup, Reading, Begun
<1>5. CASE Fork
  BY <1>5, OtherStep DEF Fork, machine, setup, Reading, Begun
<1>6. CASE RedirectInput \/ RedirectOutput \/ Exec
  <2>1. ~Reading
    BY <1>6 DEF RedirectInput, RedirectOutput, Exec, LimitInv, EnforcedInv
  <2> QED
    BY <1>6, <2>1, OtherStep
       DEF RedirectInput, RedirectOutput, Exec, machine, setup, Reading, Begun
<1>7. CASE Solver
  BY <1>7, OtherStep
     DEF Solver, CreateProcess, ProcessEnds, machine, setup, Reading, Begun
<1>8. CASE WatcherKills \/ StamperEnds \/ Terminate \/ WatchdogFires
  BY <1>8, OtherStep
     DEF WatcherKills, StamperEnds, Terminate, WatchdogFires, machine, setup,
         Reading, Begun
<1>9. CASE UNCHANGED vars
  BY <1>9, OtherStep DEF vars, machine, setup, Reading, Begun
<1> QED
  BY <1>1, <1>2, <1>3, <1>4, <1>5, <1>6, <1>7, <1>8, <1>9 DEF Next, Main, Child, Done

LEMMA LimitInit == Init => LimitInv
<1> SUFFICES ASSUME Init PROVE LimitInv
  OBVIOUS
<1>1. args \in Seq(GivenOptions) /\ ceiling \in [{"cpu", "as", "stack"} -> Int]
  BY RunSolverAssumption, OptionsAssumption DEF Init
<1>2. settings = [timestamp |-> FALSE, pty |-> FALSE, input |-> "", output |-> "",
                  vsize |-> 0, mem |-> 0, watchdog |-> 0]
  BY DEF Init
<1>3. watched = [cpu |-> 0, wall |-> 0, vsize |-> 0, mem |-> 0]
  BY DEF Init
<1>4. limits = <<>> /\ child = "none"
  BY DEF Init
<1>5. /\ settings.vsize = 0 /\ settings.mem = 0
      /\ DOMAIN settings =
            {"timestamp", "pty", "input", "output", "vsize", "mem", "watchdog"}
  BY <1>2
<1>6. /\ watched.cpu = 0 /\ watched.vsize = 0
      /\ DOMAIN watched = {"cpu", "wall", "vsize", "mem"}
  BY <1>3
<1>7. SettingsOK
  BY <1>1, <1>5, <1>6 DEF SettingsOK
<1>8. LastHolds /\ EnforcedInv
  BY <1>4, <1>6 DEF LastHolds, CPUHolds, VSizeHolds, EnforcedInv, Begun
<1>9. LimitsOK
  BY <1>4 DEF LimitsOK
<1> QED
  BY <1>7, <1>8, <1>9 DEF LimitInv

\* The last limit of a resource is the one in force, if the user may have it.
LEMMA LastIsEnforced ==
    ASSUME LimitInv, Begun, NEW r \in {"cpu", "as"}, NEW h \in Int,
           LastIn(limits, r, h), h <= ceiling[r]
    PROVE  rlimit[r] = h
<1>1. PICK n \in DOMAIN limits :
         /\ limits[n] = Limit(r, h)
         /\ \A k \in DOMAIN limits : limits[k].resource = r => k <= n
  BY DEF LastIn
<1>2. limits[n].resource = r /\ limits[n].limit = h
  BY <1>1 DEF Limit
<1>3. n \in Enforceable(r) /\ \A k \in Enforceable(r) : k <= n
  BY <1>1, <1>2 DEF Enforceable
<1>4. Enforceable(r) \subseteq Nat
  BY DEF LimitInv, LimitsOK, Enforceable
<1>5. Max(Enforceable(r)) = n
  BY <1>3, <1>4 DEF Max
<1>6. rlimit[r] = limits[Max(Enforceable(r))].limit
  BY <1>3 DEF LimitInv, EnforcedInv, Resources
<1> QED
  BY <1>2, <1>5, <1>6

LEMMA LimitImplies == LimitInv => HardLimitAfterSoft
<1> SUFFICES ASSUME LimitInv, child = "solver" PROVE
       /\ watched.cpu \in 1..ceiling.cpu - 30 =>
             rlimit.cpu \in watched.cpu + 1..watched.cpu + 30
       /\ watched.vsize \in 1..ceiling.as - 50 * 1024 =>
             rlimit.as \in watched.vsize + 1..watched.vsize + 50 * 1024
  BY DEF HardLimitAfterSoft
<1>1. /\ watched.cpu \in Int /\ watched.vsize \in Int
      /\ ceiling.cpu \in Int /\ ceiling.as \in Int
  BY DEF LimitInv, SettingsOK
<1>2. ASSUME watched.cpu \in 1..ceiling.cpu - 30
      PROVE  rlimit.cpu = watched.cpu + 30
  <2>1. LastIn(limits, "cpu", watched.cpu + 30)
    BY <1>2 DEF LimitInv, LastHolds, CPUHolds
  <2>2. watched.cpu + 30 \in Int /\ watched.cpu + 30 <= ceiling["cpu"]
    BY <1>1, <1>2
  <2> QED
    BY <2>1, <2>2, LastIsEnforced DEF Begun
<1>3. ASSUME watched.vsize \in 1..ceiling.as - 50 * 1024
      PROVE  rlimit.as = watched.vsize + 50 * 1024
  <2>1. LastIn(limits, "as", watched.vsize + 50 * 1024)
    BY <1>1, <1>3 DEF LimitInv, LastHolds, VSizeHolds
  <2>2. watched.vsize + 50 * 1024 \in Int /\ watched.vsize + 50 * 1024 <= ceiling["as"]
    BY <1>1, <1>3
  <2> QED
    BY <2>1, <2>2, LastIsEnforced DEF Begun
<1> QED
  BY <1>1, <1>2, <1>3

\* The kernel's limits of CPU time and of memory come after the limits at which
\* the watcher stops the solver, whatever options the command line repeats, and
\* in whatever order, if the user may have such limits.
THEOREM HardIsLater == Spec => []HardLimitAfterSoft
<1>1. Init => LimitInv
  BY LimitInit
<1>2. LimitInv /\ [Next]_vars => LimitInv'
  BY LimitStep
<1>3. LimitInv => HardLimitAfterSoft
  BY LimitImplies
<1> QED
  BY <1>1, <1>2, <1>3, PTL DEF Spec
-----------------------------------------------------------------------------
(***************************************************************************)
(* Lists of cores: those of Cores are sorted by numbers of predecessors.   *)
(***************************************************************************)
\* A sequence over S that lists below[c] before c, for each c, is the sorted one.
Lists(s, n, S, below) ==
    /\ s \in [1..n -> S]
    /\ \A c \in S : \E i \in 1..n : s[i] = c
    /\ \A c \in S : below[c] \subseteq S
    /\ \A i, j \in 1..n : s[i] \in below[s[j]] <=> i < j

LEMMA SortedIs ==
    ASSUME NEW S, NEW below, NEW n \in Nat, NEW s, Lists(s, n, S, below)
    PROVE  Sorted(S, below) = s /\ Cardinality(S) = n
<1> USE DEF Lists
<1>1. ASSUME NEW i \in 1..n, NEW j \in 1..n, s[i] = s[j] PROVE i = j
  <2>1. ~(i < j) /\ ~(j < i)
    BY <1>1
  <2> QED
    BY <2>1
<1>2. Cardinality(S) = n
  <2>1. s \in Bijection(1..n, S)
    BY <1>1 DEF Bijection, Injection, Surjection, IsInjective
  <2> QED
    BY <2>1, FS_CountingElements DEF ExistsBijection
<1>3. ASSUME NEW j \in 1..n PROVE Cardinality(below[s[j]]) = j - 1
  <2> DEFINE f == [i \in 1..j - 1 |-> s[i]]
  <2>1. f \in [1..j - 1 -> below[s[j]]]
    OBVIOUS
  <2>2. \A c \in below[s[j]] : \E i \in 1..j - 1 : f[i] = c
    <3> TAKE c \in below[s[j]]
    <3>1. PICK i \in 1..n : s[i] = c
      OBVIOUS
    <3>2. i < j
      BY <3>1
    <3> QED
      BY <3>1, <3>2
  <2>3. \A i, k \in 1..j - 1 : f[i] = f[k] => i = k
    BY <1>1
  <2>4. f \in Bijection(1..j - 1, below[s[j]])
    <3> HIDE DEF f
    <3> QED
      BY <2>1, <2>2, <2>3 DEF Bijection, Injection, Surjection, IsInjective
  <2>5. j - 1 \in Nat
    OBVIOUS
  <2> HIDE DEF f
  <2> QED
    BY <2>4, <2>5, FS_CountingElements DEF ExistsBijection
<1>4. ASSUME NEW k \in 1..n
      PROVE  (CHOOSE c \in S : Cardinality(below[c]) = k - 1) = s[k]
  <2>1. s[k] \in S /\ Cardinality(below[s[k]]) = k - 1
    BY <1>3
  <2>2. ASSUME NEW c \in S, Cardinality(below[c]) = k - 1 PROVE c = s[k]
    <3>1. PICK i \in 1..n : s[i] = c
      OBVIOUS
    <3>2. i - 1 = k - 1
      BY <1>3, <2>2, <3>1
    <3> QED
      BY <3>1, <3>2
  <2> QED
    BY <2>1, <2>2
<1>5. Sorted(S, below) = [k \in 1..n |-> CHOOSE c \in S : Cardinality(below[c]) = k - 1]
  BY <1>2 DEF Sorted
<1>6. Sorted(S, below) = [k \in 1..n |-> s[k]]
  BY <1>4, <1>5
<1> QED
  BY <1>2, <1>6

\* The numbers of a finite set can be listed in order.
Increasing(s, X) ==
    \E n \in Nat : /\ s \in [1..n -> X]
                   /\ \A c \in X : \E i \in 1..n : s[i] = c
                   /\ \A i, j \in 1..n : s[i] < s[j] <=> i < j

LEMMA Enumerated ==
    ASSUME NEW N \in Nat, NEW X \in SUBSET (0..N - 1)
    PROVE  \E s : Increasing(s, X)
<1> DEFINE Part(k) == X \cap (0..k - 1)
           S == {k \in 0..N : \E s : Increasing(s, Part(k))}
<1>1. 0 \in S
  <2>1. Part(0) = {}
    OBVIOUS
  <2>2. Increasing([i \in 1..0 |-> 0], Part(0))
    BY <2>1 DEF Increasing
  <2> QED
    BY <2>2
<1>2. ASSUME NEW k \in 1..N, k - 1 \in S PROVE k \in S
  <2>1. PICK s : Increasing(s, Part(k - 1))
    BY <1>2
  <2>2. PICK n \in Nat : /\ s \in [1..n -> Part(k - 1)]
                         /\ \A c \in Part(k - 1) : \E i \in 1..n : s[i] = c
                         /\ \A i, j \in 1..n : s[i] < s[j] <=> i < j
    BY <2>1 DEF Increasing
  <2>3. CASE k - 1 \notin X
    <3>1. Part(k) = Part(k - 1)
      BY <2>3
    <3> QED
      BY <2>1, <3>1
  <2>4. CASE k - 1 \in X
    <3> DEFINE r == [i \in 1..n + 1 |-> IF i = n + 1 THEN k - 1 ELSE s[i]]
    <3>1. r \in [1..n + 1 -> Part(k)]
      BY <2>2, <2>4
    <3>2. \A c \in Part(k) : \E i \in 1..n + 1 : r[i] = c
      <4> TAKE c \in Part(k)
      <4>1. CASE c = k - 1
        BY <4>1
      <4>2. CASE c # k - 1
        <5>1. c \in Part(k - 1)
          BY <4>2
        <5>2. PICK i \in 1..n : s[i] = c
          BY <2>2, <5>1
        <5>3. i \in 1..n + 1 /\ r[i] = c
          BY <5>2
        <5> QED
          BY <5>3
      <4> QED
        BY <4>1, <4>2
    <3>3. \A i, j \in 1..n + 1 : r[i] < r[j] <=> i < j
      <4>1. \A i \in 1..n : s[i] \in Nat /\ s[i] < k - 1
        BY <2>2
      <4> QED
        BY <2>2, <4>1
    <3>4. n + 1 \in Nat
      OBVIOUS
    <3> HIDE DEF r
    <3>5. Increasing(r, Part(k))
      BY <3>1, <3>2, <3>3, <3>4 DEF Increasing
    <3> QED
      BY <3>5
  <2> QED
    BY <2>3, <2>4
<1>3. 0..N \subseteq S
  <2> HIDE DEF S
  <2> QED
    BY <1>1, <1>2, Induction
<1>4. Part(N) = X
  OBVIOUS
<1> QED
  BY <1>3, <1>4

LEMMA AscendingIs ==
    ASSUME NEW X, NEW s, X \subseteq Int, Increasing(s, X)
    PROVE  Ascending(X) = s
<1>1. PICK n \in Nat : /\ s \in [1..n -> X]
                       /\ \A c \in X : \E i \in 1..n : s[i] = c
                       /\ \A i, j \in 1..n : s[i] < s[j] <=> i < j
  BY DEF Increasing
<1> DEFINE below == [c \in X |-> {d \in X : d < c}]
<1>2. Lists(s, n, X, below)
  BY <1>1 DEF Lists
<1>3. Ascending(X) = Sorted(X, below)
  BY DEF Ascending
<1> HIDE DEF below
<1>4. Sorted(X, below) = s
  BY <1>2, SortedIs, Zenon
<1> QED
  BY <1>3, <1>4

\* What is appended to a list of cores.
LEMMA AscendingLists ==
    ASSUME NEW N \in Nat, NEW X \in SUBSET (0..N - 1)
    PROVE  Increasing(Ascending(X), X) /\ Ascending(X) \in Seq(0..N - 1)
<1>1. PICK s : Increasing(s, X)
  BY Enumerated
<1>2. Ascending(X) = s
  <2>1. X \subseteq Int
    OBVIOUS
  <2> QED
    BY <1>1, <2>1, AscendingIs
<1>3. s \in Seq(0..N - 1)
  <2>1. PICK n \in Nat : s \in [1..n -> X]
    BY <1>1 DEF Increasing
  <2>2. s \in [1..n -> 0..N - 1]
    BY <2>1
  <2> QED
    BY <2>2
<1> QED
  BY <1>1, <1>2, <1>3

LEMMA AscendingOne ==
    ASSUME NEW c \in Int
    PROVE  Ascending({c}) = <<c>>
<1>1. Increasing(<<c>>, {c})
  BY DEF Increasing
<1> QED
  BY <1>1, AscendingIs

-----------------------------------------------------------------------------
(***************************************************************************)
(* Cores.hh.  A mask of one word has no comma and is read as it is.        *)
(***************************************************************************)
MaskHolds(t) == Cardinality(Online(t)) <= MaskWord

LEMMA MachineIs ==
    ASSUME NEW t \in Topologies
    PROVE  /\ Cardinality(Online(t)) \in Nat
           /\ Online(t) = 0..Cardinality(Online(t)) - 1
           /\ \A c \in Online(t) : c \in t[c] /\ t[c] \subseteq Online(t)
           /\ \A c \in Online(t) : \A d \in t[c] : t[d] = t[c]
BY MachinesAssumption, FS_CardinalityType DEF Online

LEMMA MaskIsRead ==
    ASSUME NEW t \in Topologies, MaskHolds(t), NEW c \in Online(t)
    PROVE  MaskRead(t[c]) = t[c]
<1>1. MaskWord \in Nat \ {0}
  BY RunSolverAssumption
<1>2. ASSUME NEW d \in t[c] PROVE d \in Nat /\ d \div MaskWord = 0
  <2>1. d \in Nat /\ d < MaskWord
    <3>1. d \in Online(t)
      BY MachineIs
    <3>2. Cardinality(Online(t)) \in Nat /\ Online(t) = 0..Cardinality(Online(t)) - 1
      BY MachineIs
    <3> QED
      BY <1>1, <3>1, <3>2 DEF MaskHolds
  <2> QED
    BY <1>1, <2>1
<1>3. \A d \in t[c] : d + 4 * (d \div MaskWord) = d
  BY <1>2
<1> QED
  BY <1>3 DEF MaskRead

\* A function of one step after the other.
Steps(f, k, X, x0, F) ==
    /\ f \in [0..k -> X] /\ f[0] = x0
    /\ \A n \in 1..k : f[n] = F[<<n - 1, f[n - 1]>>]

LEMMA StepsExist ==
    ASSUME NEW N \in Nat, NEW X, NEW x0 \in X, NEW F \in [(0..N - 1) \X X -> X]
    PROVE  \E f : Steps(f, N, X, x0, F)
<1> DEFINE S == {k \in 0..N : \E f : Steps(f, k, X, x0, F)}
<1>1. 0 \in S
  <2>1. Steps([n \in 0..0 |-> x0], 0, X, x0, F)
    BY DEF Steps
  <2> QED
    BY <2>1
<1>2. ASSUME NEW k \in 1..N, k - 1 \in S PROVE k \in S
  <2>1. PICK f : Steps(f, k - 1, X, x0, F)
    BY <1>2
  <2> DEFINE x == F[<<k - 1, f[k - 1]>>]
             g == [n \in 0..k |-> IF n = k THEN x ELSE f[n]]
  <2>2. x \in X
    <3>1. <<k - 1, f[k - 1]>> \in (0..N - 1) \X X
      BY <2>1 DEF Steps
    <3> QED
      BY <3>1
  <2> HIDE DEF x
  <2>3. g \in [0..k -> X] /\ g[0] = x0
    BY <2>1, <2>2 DEF Steps
  <2>4. ASSUME NEW n \in 1..k PROVE g[n] = F[<<n - 1, g[n - 1]>>]
    <3>1. g[n - 1] = f[n - 1]
      BY <2>4
    <3>2. CASE n = k
      <4>1. g[n] = F[<<n - 1, f[n - 1]>>]
        BY <3>2 DEF x
      <4> QED
        BY <3>1, <4>1
    <3>3. CASE n # k
      <4>1. n \in 1..k - 1 /\ g[n] = f[n]
        BY <3>3
      <4>2. f[n] = F[<<n - 1, f[n - 1]>>]
        BY <2>1, <4>1 DEF Steps
      <4> QED
        BY <3>1, <4>1, <4>2
    <3> QED
      BY <3>2, <3>3
  <2>5. Steps(g, k, X, x0, F)
    <3> HIDE DEF g
    <3> QED
      BY <2>3, <2>4 DEF Steps
  <2> HIDE DEF g
  <2> QED
    BY <2>5
<1>3. 0..N \subseteq S
  <2> HIDE DEF S
  <2> QED
    BY <1>1, <1>2, Induction
<1> QED
  BY <1>3

\* The list of the cores of A grows by the processor of one core after the other.
Processors(list, t, A, c) ==
    IF c \in A \ ToSet(list) THEN (MaskRead(t[c]) \cap A) \ ToSet(list) ELSE {}
Visits(f, N, t, A) ==
    /\ f \in [0..N -> Seq(0..N - 1)] /\ f[0] = <<>>
    /\ \A n \in 1..N : f[n] = f[n - 1] \o Ascending(Processors(f[n - 1], t, A, n - 1))

LEMMA VisitsExist ==
    ASSUME NEW N \in Nat, NEW t, NEW A \in SUBSET (0..N - 1)
    PROVE  \E f : Visits(f, N, t, A)
<1> DEFINE X == Seq(0..N - 1)
           F == [p \in (0..N - 1) \X X |->
                    p[2] \o Ascending(Processors(p[2], t, A, p[1]))]
<1>1. F \in [(0..N - 1) \X X -> X]
  <2> SUFFICES ASSUME NEW p \in (0..N - 1) \X X
               PROVE  p[2] \o Ascending(Processors(p[2], t, A, p[1])) \in X
    OBVIOUS
  <2>1. Processors(p[2], t, A, p[1]) \in SUBSET (0..N - 1)
    BY DEF Processors
  <2>2. Ascending(Processors(p[2], t, A, p[1])) \in X
    BY <2>1, AscendingLists
  <2> QED
    BY <2>2
<1>2. <<>> \in X
  OBVIOUS
<1>3. PICK f : Steps(f, N, X, <<>>, F)
  <2> HIDE DEF F, X
  <2> QED
    BY <1>1, <1>2, StepsExist
<1>4. ASSUME NEW n \in 1..N
      PROVE  f[n] = f[n - 1] \o Ascending(Processors(f[n - 1], t, A, n - 1))
  <2>1. f[n - 1] \in X /\ n - 1 \in 0..N - 1
    BY <1>3 DEF Steps
  <2>2. f[n] = F[<<n - 1, f[n - 1]>>]
    <3> HIDE DEF F, X
    <3> QED
      BY <1>3 DEF Steps
  <2> QED
    BY <2>1, <2>2
<1> QED
  BY <1>3, <1>4 DEF Visits, Steps

LEMMA AllocatedVisits ==
    ASSUME NEW t \in Topologies, NEW A \in SUBSET Online(t),
           NEW f, Visits(f, Cardinality(Online(t)), t, A)
    PROVE  AllocatedCores(t, A) = f[Cardinality(Online(t))]
<1> DEFINE N == Cardinality(Online(t))
           Listed(list, cpu) == IF cpu \in A \ ToSet(list)
                                THEN (MaskRead(t[cpu]) \cap A) \ ToSet(list) ELSE {}
           body(h, n) == IF n = 0 THEN {<<>>}
                         ELSE {list \o Ascending(Listed(list, n - 1)) : list \in h[n - 1]}
           lists == CHOOSE h : h = [n \in 0..N |-> body(h, n)]
           W == [n \in 0..N |-> {f[n]}]
<1>1. AllocatedCores(t, A) = CHOOSE list \in lists[N] : TRUE
  BY DEF AllocatedCores, Visit
<1>2. N \in Nat /\ Online(t) = 0..N - 1
  BY MachineIs
<1>3. ASSUME NEW n \in 1..N PROVE f[n] = f[n - 1] \o Ascending(Listed(f[n - 1], n - 1))
  <2>1. Listed(f[n - 1], n - 1) = Processors(f[n - 1], t, A, n - 1)
    BY DEF Processors
  <2> QED
    BY <2>1 DEF Visits
<1>4. W = [n \in 0..N |-> body(W, n)]
  <2> SUFFICES ASSUME NEW n \in 0..N PROVE {f[n]} = body(W, n)
    OBVIOUS
  <2>1. CASE n = 0
    BY <2>1 DEF Visits
  <2>2. CASE n # 0
    <3> HIDE DEF Listed
    <3>1. n \in 1..N /\ n - 1 \in 0..N
      BY <1>2, <2>2
    <3>2. W[n - 1] = {f[n - 1]}
      BY <3>1
    <3>3. body(W, n) = {f[n - 1] \o Ascending(Listed(f[n - 1], n - 1))}
      BY <2>2, <3>2
    <3> QED
      BY <1>3, <3>1, <3>3
  <2> QED
    BY <2>1, <2>2
<1> HIDE DEF Listed
<1>5. lists = [n \in 0..N |-> body(lists, n)]
  <2> HIDE DEF body, W
  <2> QED
    BY <1>4, Zenon
<1> HIDE DEF lists
<1> DEFINE S == {n \in 0..N : lists[n] = {f[n]}}
<1>6. 0 \in S
  <2>1. lists[0] = body(lists, 0)
    <3> HIDE DEF body
    <3>1. 0 \in 0..N
      BY <1>2
    <3> QED
      BY <1>5, <3>1
  <2> QED
    BY <1>2, <2>1 DEF Visits
<1>7. ASSUME NEW n \in 1..N, n - 1 \in S PROVE n \in S
  <2>1. n \in 0..N
    BY <1>2
  <2>2. lists[n] = body(lists, n)
    <3> HIDE DEF body
    <3> QED
      BY <1>5, <2>1
  <2>3. lists[n - 1] = {f[n - 1]} /\ n # 0
    BY <1>7
  <2>4. body(lists, n) = {f[n - 1] \o Ascending(Listed(f[n - 1], n - 1))}
    BY <2>3
  <2> HIDE DEF body
  <2> QED
    BY <1>3, <2>1, <2>2, <2>4
<1>8. lists[N] = {f[N]}
  <2>1. 0..N \subseteq S
    <3> HIDE DEF S
    <3> QED
      BY <1>2, <1>6, <1>7, Induction
  <2> QED
    BY <1>2, <2>1
<1> QED
  BY <1>1, <1>8

LEMMA ExistingAreAllocated ==
    ASSUME NEW t \in Topologies, MaskHolds(t)
    PROVE  ExistingCores(t, FALSE) = AllocatedCores(t, Online(t))
<1> DEFINE N == Cardinality(Online(t))
           Found(list, cpu) == IF cpu \in ToSet(list) THEN {}
                               ELSE MaskRead(t[cpu]) \ ToSet(list)
           Listed(list, cpu) == IF cpu \in Online(t) \ ToSet(list)
                                THEN (MaskRead(t[cpu]) \cap Online(t)) \ ToSet(list) ELSE {}
           body1(h, n) == IF n = 0 THEN {<<>>}
                          ELSE {list \o Ascending(Found(list, n - 1)) : list \in h[n - 1]}
           body2(h, n) == IF n = 0 THEN {<<>>}
                          ELSE {list \o Ascending(Listed(list, n - 1)) : list \in h[n - 1]}
<1>1. AllocatedCores(t, Online(t)) =
         CHOOSE list \in (CHOOSE h : h = [n \in 0..N |-> body2(h, n)])[N] : TRUE
  BY DEF AllocatedCores, Visit
<1>2. ExistingCores(t, FALSE) =
         CHOOSE list \in (CHOOSE h : h = [n \in 0..N |-> body1(h, n)])[N] : TRUE
  BY DEF ExistingCores, Visit
<1>3. N \in Nat /\ Online(t) = 0..N - 1
  BY MachineIs
<1>4. ASSUME NEW list, NEW c \in Online(t) PROVE Found(list, c) = Listed(list, c)
  <2>1. MaskRead(t[c]) = t[c] /\ t[c] \subseteq Online(t)
    BY MaskIsRead, MachineIs
  <2> QED
    BY <2>1
<1> HIDE DEF Found, Listed
<1>5. ASSUME NEW h, NEW n \in 0..N PROVE body1(h, n) = body2(h, n)
  <2>1. CASE n = 0
    BY <2>1
  <2>2. CASE n # 0
    <3>1. n - 1 \in Online(t)
      BY <1>3, <2>2
    <3>2. \A list : Found(list, n - 1) = Listed(list, n - 1)
      BY <1>4, <3>1
    <3> QED
      BY <2>2, <3>2
  <2> QED
    BY <2>1, <2>2
<1> HIDE DEF body1, body2
<1>6. ASSUME NEW h PROVE [n \in 0..N |-> body1(h, n)] = [n \in 0..N |-> body2(h, n)]
  BY <1>5
<1>7. (CHOOSE h : h = [n \in 0..N |-> body1(h, n)]) = (CHOOSE h : h = [n \in 0..N |-> body2(h, n)])
  BY <1>6
<1> QED
  BY <1>1, <1>2, <1>7

LEMMA ExistingPhysical ==
    ASSUME NEW t \in Topologies
    PROVE  ExistingCores(t, TRUE) = [k \in 1..Cardinality(Online(t)) |-> k - 1]
<1> DEFINE N == Cardinality(Online(t))
           body(h, n) == IF n = 0 THEN {<<>>}
                         ELSE {list \o Ascending({n - 1}) : list \in h[n - 1]}
           lists == CHOOSE h : h = [n \in 0..N |-> body(h, n)]
           first(n) == [k \in 1..n |-> k - 1]
           W == [n \in 0..N |-> {first(n)}]
<1>1. ExistingCores(t, TRUE) = CHOOSE list \in lists[N] : TRUE
  BY DEF ExistingCores, Visit
<1>2. N \in Nat
  BY MachineIs
<1>3. ASSUME NEW n \in 1..N PROVE first(n) = first(n - 1) \o Ascending({n - 1})
  <2>1. Ascending({n - 1}) = <<n - 1>>
    BY AscendingOne
  <2>2. first(n - 1) \in Seq(Int) /\ Len(first(n - 1)) = n - 1
    OBVIOUS
  <2>3. first(n) = Append(first(n - 1), n - 1)
    OBVIOUS
  <2> HIDE DEF first
  <2>4. Append(first(n - 1), n - 1) = first(n - 1) \o <<n - 1>>
    BY <2>2
  <2> QED
    BY <2>1, <2>3, <2>4
<1>0. first(0) = <<>>
  OBVIOUS
<1> HIDE DEF first
<1>4. W = [n \in 0..N |-> body(W, n)]
  <2> SUFFICES ASSUME NEW n \in 0..N PROVE {first(n)} = body(W, n)
    OBVIOUS
  <2>1. CASE n = 0
    BY <1>0, <2>1
  <2>2. CASE n # 0
    <3>1. n \in 1..N /\ n - 1 \in 0..N
      BY <1>2, <2>2
    <3>2. W[n - 1] = {first(n - 1)}
      BY <3>1
    <3>3. body(W, n) = {first(n - 1) \o Ascending({n - 1})}
      BY <2>2, <3>2
    <3> QED
      BY <1>3, <3>1, <3>3
  <2> QED
    BY <2>1, <2>2
<1>5. lists = [n \in 0..N |-> body(lists, n)]
  <2> HIDE DEF body, W
  <2> QED
    BY <1>4, Zenon
<1> HIDE DEF lists
<1> DEFINE S == {n \in 0..N : lists[n] = {first(n)}}
<1>6. ASSUME NEW n \in 0..N PROVE lists[n] = body(lists, n)
  <2> HIDE DEF body
  <2> QED
    BY <1>5
<1>7. 0 \in S
  <2>1. 0 \in 0..N
    BY <1>2
  <2> QED
    BY <1>0, <1>6, <2>1
<1>8. ASSUME NEW n \in 1..N, n - 1 \in S PROVE n \in S
  <2>1. n \in 0..N /\ n # 0 /\ lists[n - 1] = {first(n - 1)}
    BY <1>2, <1>8
  <2>2. body(lists, n) = {first(n - 1) \o Ascending({n - 1})}
    BY <2>1
  <2> HIDE DEF body
  <2> QED
    BY <1>3, <1>6, <2>1, <2>2
<1>9. lists[N] = {first(N)}
  <2>1. 0..N \subseteq S
    <3> HIDE DEF S
    <3> QED
      BY <1>2, <1>7, <1>8, Induction
  <2> QED
    BY <1>2, <2>1
<1>10. ExistingCores(t, TRUE) = first(N)
  BY <1>1, <1>9
<1> QED
  BY <1>10 DEF first

\* The least number of a set.
LEMMA MinIs ==
    ASSUME NEW S \in SUBSET Nat, S # {}
    PROVE  Min(S) \in S /\ \A c \in S : Min(S) <= c
<1>1. PICK n \in S : \A m \in S : ~(<<m, n>> \in OpToRel(<, Nat))
  BY NatLessThanWellFounded, WFMin
<1>2. \A m \in S : ~(m < n)
  BY <1>1 DEF OpToRel
<1>3. \A m \in S : n <= m
  BY <1>2
<1> QED
  BY <1>3 DEF Min

\* The first core of A on the processor of c, and the order that it gives.
FirstOf(t, A, c) == Min(t[c] \cap A)
Earlier(t, A, c, d) == \/ FirstOf(t, A, c) < FirstOf(t, A, d)
                       \/ FirstOf(t, A, c) = FirstOf(t, A, d) /\ c < d

InOrder(list, t, A, n) ==
    /\ list \in Seq(A)
    /\ \A d \in A : d \in ToSet(list) <=> \E c \in A : c < n /\ d \in t[c]
    /\ \A i, j \in 1..Len(list) : i < j => Earlier(t, A, list[i], list[j])

LEMMA FirstIs ==
    ASSUME NEW t \in Topologies, NEW A \in SUBSET Online(t), NEW c \in A
    PROVE  /\ FirstOf(t, A, c) \in t[c] \cap A
           /\ \A d \in t[c] \cap A : FirstOf(t, A, c) <= d /\ FirstOf(t, A, d) = FirstOf(t, A, c)
<1>1. t[c] \cap A \in SUBSET Nat /\ t[c] \cap A # {}
  <2>1. Online(t) \subseteq Nat /\ c \in t[c] /\ c \in Online(t)
    BY MachineIs
  <2> QED
    BY <2>1
<1>2. \A d \in t[c] : t[d] = t[c]
  BY MachineIs
<1> QED
  BY <1>1, <1>2, MinIs DEF FirstOf

LEMMA Growth ==
    ASSUME NEW t \in Topologies, MaskHolds(t), NEW A \in SUBSET Online(t),
           NEW c \in Online(t), NEW list, InOrder(list, t, A, c)
    PROVE  InOrder(list \o Ascending(Processors(list, t, A, c)), t, A, c + 1)
<1>1. /\ list \in Seq(A) /\ Len(list) \in Nat
      /\ \A d \in A : d \in ToSet(list) <=> \E e \in A : e < c /\ d \in t[e]
      /\ \A i, j \in 1..Len(list) : i < j => Earlier(t, A, list[i], list[j])
      /\ ToSet(list) = {list[i] : i \in 1..Len(list)}
  BY DEF InOrder, ToSet
<1>2. /\ A \subseteq Nat /\ c \in Nat
      /\ \A d \in A : d \in t[d] /\ \A e \in t[d] : t[e] = t[d]
  BY MachineIs
<1>3. CASE c \notin A \ ToSet(list)
  <2>1. Ascending(Processors(list, t, A, c)) = <<>>
    <3>1. Increasing(<<>>, {})
      BY DEF Increasing
    <3>2. Processors(list, t, A, c) = {}
      BY <1>3 DEF Processors
    <3> QED
      BY <3>1, <3>2, AscendingIs
  <2>2. list \o <<>> = list
    BY <1>1
  <2>3. ASSUME NEW d \in A, NEW e \in A, e < c + 1, d \in t[e]
        PROVE  \E x \in A : x < c /\ d \in t[x]
    <3>1. CASE e = c
      <4>1. PICK x \in A : x < c /\ c \in t[x]
        BY <1>1, <1>3, <3>1
      <4> QED
        BY <1>2, <2>3, <3>1, <4>1
    <3>2. CASE e # c
      BY <1>2, <2>3, <3>2
    <3> QED
      BY <3>1, <3>2
  <2>4. \A d \in A : d \in ToSet(list) <=> \E e \in A : e < c + 1 /\ d \in t[e]
    <3>1. \A e \in A : e < c => e < c + 1
      BY <1>2
    <3> QED
      BY <1>1, <2>3, <3>1
  <2> QED
    BY <1>1, <2>1, <2>2, <2>4 DEF InOrder
<1>4. CASE c \in A \ ToSet(list)
  <2> DEFINE Y == t[c] \cap A
             s == Ascending(Y)
             new == list \o s
  <2>1. ASSUME NEW d \in Y PROVE d \notin ToSet(list)
    <3>1. SUFFICES ASSUME d \in ToSet(list) PROVE FALSE
      OBVIOUS
    <3>2. PICK e \in A : e < c /\ d \in t[e]
      BY <1>1, <3>1
    <3>3. c \in t[e]
      BY <1>2, <1>4, <3>2
    <3> QED
      BY <1>1, <1>4, <3>2, <3>3
  <2>2. Processors(list, t, A, c) = Y
    <3>1. MaskRead(t[c]) = t[c]
      BY MaskIsRead
    <3> QED
      BY <1>4, <2>1, <3>1 DEF Processors
  <2>3. Increasing(s, Y)
    <3>1. Cardinality(Online(t)) \in Nat /\ Y \in SUBSET (0..Cardinality(Online(t)) - 1)
      BY MachineIs
    <3> HIDE DEF Y
    <3> QED
      BY <3>1, AscendingLists
  <2>4. PICK m \in Nat : /\ s \in [1..m -> Y]
                         /\ \A d \in Y : \E i \in 1..m : s[i] = d
                         /\ \A i, j \in 1..m : s[i] < s[j] <=> i < j
    <3> HIDE DEF s, Y
    <3> QED
      BY <2>3 DEF Increasing
  <2>5. ASSUME NEW d \in Y PROVE FirstOf(t, A, d) = c
    <3>1. /\ c \in A /\ FirstOf(t, A, d) = FirstOf(t, A, c) /\ FirstOf(t, A, c) \in Y
          /\ FirstOf(t, A, c) <= c
      BY <1>2, <1>4, FirstIs
    <3>2. ~(FirstOf(t, A, c) < c)
      <4>1. SUFFICES ASSUME FirstOf(t, A, c) < c PROVE FALSE
        OBVIOUS
      <4>2. c \in t[FirstOf(t, A, c)]
        BY <1>2, <3>1
      <4> QED
        BY <1>1, <1>4, <3>1, <4>1, <4>2
    <3>3. FirstOf(t, A, c) \in Nat
      BY <1>2, <3>1
    <3>4. FirstOf(t, A, c) = c
      BY <1>2, <3>1, <3>2, <3>3
    <3> QED
      BY <3>1, <3>4
  <2>6. ASSUME NEW d \in A, d \in ToSet(list) PROVE FirstOf(t, A, d) < c /\ FirstOf(t, A, d) \in Nat
    <3>1. PICK e \in A : e < c /\ d \in t[e]
      BY <1>1, <2>6
    <3>2. FirstOf(t, A, e) \in A /\ FirstOf(t, A, e) <= e /\ FirstOf(t, A, d) = FirstOf(t, A, e)
      BY <1>2, <3>1, FirstIs
    <3>3. FirstOf(t, A, e) \in Nat /\ e \in Nat
      BY <1>2, <3>2
    <3>4. FirstOf(t, A, e) < c
      BY <1>2, <3>1, <3>2, <3>3
    <3> QED
      BY <3>2, <3>3, <3>4
  <2>7. /\ s \in Seq(A) /\ Len(s) = m /\ new \in Seq(A) /\ Len(new) = Len(list) + m
        /\ \A i \in 1..Len(list) : new[i] = list[i]
        /\ \A i \in Len(list) + 1..Len(list) + m :
              i - Len(list) \in 1..m /\ new[i] = s[i - Len(list)]
    <3>1. s \in [1..m -> A]
      BY <2>4
    <3> HIDE DEF s, Y
    <3> QED
      BY <1>1, <3>1
  <2> HIDE DEF s, new
  <2>8. \A d \in A : d \in ToSet(new) <=> d \in ToSet(list) \/ d \in Y
    <3>1. ToSet(new) = {new[i] : i \in 1..Len(list) + m}
      <4>1. DOMAIN new = 1..Len(list) + m
        BY <2>7
      <4> QED
        BY <4>1 DEF ToSet
    <3>2. ASSUME NEW i \in 1..Len(list) + m PROVE new[i] \in ToSet(list) \/ new[i] \in Y
      <4>1. CASE i \in 1..Len(list)
        BY <1>1, <2>7, <4>1
      <4>2. CASE i \notin 1..Len(list)
        <5>1. i \in Len(list) + 1..Len(list) + m
          BY <1>1, <2>4, <4>2
        <5>2. new[i] = s[i - Len(list)] /\ i - Len(list) \in 1..m
          BY <2>7, <5>1
        <5> QED
          BY <2>4, <5>2
      <4> QED
        BY <4>1, <4>2
    <3>3. ASSUME NEW d \in ToSet(list) PROVE \E i \in 1..Len(list) + m : new[i] = d
      BY <1>1, <2>4, <2>7
    <3>4. ASSUME NEW d \in Y PROVE \E i \in 1..Len(list) + m : new[i] = d
      <4>1. PICK k \in 1..m : s[k] = d
        BY <2>4
      <4>2. Len(list) + k \in Len(list) + 1..Len(list) + m /\ (Len(list) + k) - Len(list) = k
        BY <1>1
      <4>3. new[Len(list) + k] = d /\ Len(list) + k \in 1..Len(list) + m
        BY <1>1, <2>7, <4>1, <4>2
      <4> QED
        BY <4>3
    <3> QED
      BY <3>1, <3>2, <3>3, <3>4
  <2>9. \A d \in A : d \in ToSet(new) <=> \E e \in A : e < c + 1 /\ d \in t[e]
    <3> TAKE d \in A
    <3>1. ASSUME NEW e \in A PROVE e < c + 1 <=> e < c \/ e = c
      BY <1>2
    <3> QED
      BY <1>1, <1>4, <2>8, <3>1
  <2>10. ASSUME NEW i \in 1..Len(new), NEW j \in 1..Len(new), i < j
         PROVE  Earlier(t, A, new[i], new[j])
    <3>1. CASE j \in 1..Len(list)
      <4>1. i \in 1..Len(list) /\ new[i] = list[i] /\ new[j] = list[j]
        BY <1>1, <2>7, <2>10, <3>1
      <4> QED
        BY <1>1, <2>10, <3>1, <4>1
    <3>2. CASE i \in 1..Len(list) /\ j \notin 1..Len(list)
      <4>1. new[i] \in ToSet(list) /\ new[i] \in A /\ new[j] \in Y
        BY <1>1, <2>4, <2>7, <3>2
      <4> QED
        BY <2>5, <2>6, <4>1 DEF Earlier
    <3>3. CASE i \notin 1..Len(list)
      <4>1. /\ new[i] = s[i - Len(list)] /\ new[j] = s[j - Len(list)]
            /\ i - Len(list) \in 1..m /\ j - Len(list) \in 1..m
            /\ i - Len(list) < j - Len(list)
        <5>1. i \in Len(list) + 1..Len(list) + m /\ j \in Len(list) + 1..Len(list) + m
          BY <1>1, <2>4, <2>7, <2>10, <3>3
        <5> QED
          BY <1>1, <2>7, <2>10, <5>1
      <4>2. new[i] < new[j] /\ new[i] \in Y /\ new[j] \in Y
        BY <2>4, <4>1
      <4> QED
        BY <2>5, <4>2 DEF Earlier
    <3> QED
      BY <1>1, <2>7, <2>10, <3>1, <3>2, <3>3
  <2>11. InOrder(new, t, A, c + 1)
    BY <2>7, <2>9, <2>10 DEF InOrder
  <2> QED
    BY <2>2, <2>11 DEF new, s
<1> QED
  BY <1>3, <1>4

\* getAllocatedCoresByProcessorOrder() lists cores of the affinity only, whatever
\* the masks, ...
LEMMA AllocatedWithin ==
    ASSUME NEW t \in Topologies, NEW A \in SUBSET Online(t)
    PROVE  AllocatedCores(t, A) \in Seq(A)
<1> DEFINE N == Cardinality(Online(t))
<1>1. N \in Nat /\ Online(t) = 0..N - 1
  BY MachineIs
<1> HIDE DEF N
<1>2. PICK f : Visits(f, N, t, A)
  BY <1>1, VisitsExist
<1> DEFINE S == {n \in 0..N : f[n] \in Seq(A)}
<1>3. 0 \in S
  BY <1>1, <1>2 DEF Visits
<1>4. ASSUME NEW n \in 1..N, n - 1 \in S PROVE n \in S
  <2> DEFINE Y == Processors(f[n - 1], t, A, n - 1)
  <2>1. f[n] = f[n - 1] \o Ascending(Y)
    BY <1>2 DEF Visits
  <2>2. Y \in SUBSET A /\ Y \in SUBSET (0..N - 1)
    BY <1>1 DEF Processors
  <2> HIDE DEF Y
  <2>3. Ascending(Y) \in Seq(A)
    <3>1. Increasing(Ascending(Y), Y)
      BY <1>1, <2>2, AscendingLists
    <3>2. PICK m \in Nat : Ascending(Y) \in [1..m -> Y]
      BY <3>1 DEF Increasing
    <3>3. Ascending(Y) \in [1..m -> A]
      BY <2>2, <3>2
    <3> QED
      BY <3>3
  <2>4. f[n] \in Seq(A)
    BY <1>4, <2>1, <2>3
  <2> QED
    BY <1>1, <2>4
<1>5. f[N] \in Seq(A)
  <2>1. 0..N \subseteq S
    <3> HIDE DEF S
    <3> QED
      BY <1>1, <1>3, <1>4, Induction
  <2> QED
    BY <1>1, <2>1
<1>6. AllocatedCores(t, A) = f[N]
  BY <1>2, AllocatedVisits DEF N
<1> QED
  BY <1>5, <1>6

\* ... and all of them in the order of their processors, where the masks are right.
LEMMA AllocatedInOrder ==
    ASSUME NEW t \in Topologies, MaskHolds(t), NEW A \in SUBSET Online(t)
    PROVE  InOrder(AllocatedCores(t, A), t, A, Cardinality(Online(t)))
<1> DEFINE N == Cardinality(Online(t))
<1>1. N \in Nat /\ Online(t) = 0..N - 1
  BY MachineIs
<1> HIDE DEF N
<1>2. PICK f : Visits(f, N, t, A)
  BY <1>1, VisitsExist
<1> DEFINE S == {n \in 0..N : InOrder(f[n], t, A, n)}
<1>3. 0 \in S
  <2>1. \A e \in A : ~(e < 0)
    BY <1>1
  <2>2. f[0] = <<>> /\ ToSet(<<>>) = {}
    BY <1>2 DEF Visits, ToSet
  <2>3. InOrder(<<>>, t, A, 0)
    BY <2>1, <2>2 DEF InOrder
  <2> QED
    BY <1>1, <2>2, <2>3
<1>4. ASSUME NEW n \in 1..N, n - 1 \in S PROVE n \in S
  <2>1. f[n] = f[n - 1] \o Ascending(Processors(f[n - 1], t, A, n - 1))
    BY <1>2 DEF Visits
  <2>2. n - 1 \in Online(t) /\ (n - 1) + 1 = n /\ n \in 0..N
    BY <1>1
  <2>3. InOrder(f[n - 1], t, A, n - 1)
    BY <1>4
  <2>4. InOrder(f[n], t, A, (n - 1) + 1)
    BY <2>1, <2>2, <2>3, Growth
  <2> QED
    BY <2>2, <2>4
<1>5. InOrder(f[N], t, A, N)
  <2>1. 0..N \subseteq S
    <3> HIDE DEF S
    <3> QED
      BY <1>1, <1>3, <1>4, Induction
  <2> QED
    BY <1>1, <2>1
<1>6. AllocatedCores(t, A) = f[N]
  BY <1>2, AllocatedVisits DEF N
<1> QED
  BY <1>5, <1>6 DEF N

\* getExistingCores() without physicalView: the order of the documentation.
ProcessorOrder(t) ==
    LET cores        == Online(t)
        Processor(c) == Min(t[c])
        Before(a, b) == \/ Processor(a) < Processor(b)
                        \/ Processor(a) = Processor(b) /\ a < b
    IN  Sorted(cores, [c \in cores |-> {d \in cores : Before(d, c)}])

LEMMA ExistingSorted ==
    ASSUME NEW t \in Topologies, MaskHolds(t)
    PROVE  /\ ExistingCores(t, FALSE) = ProcessorOrder(t)
           /\ ExistingCores(t, FALSE) \in Seq(Online(t))
           /\ Len(ExistingCores(t, FALSE)) = Cardinality(Online(t))
<1> DEFINE cores == Online(t)
           below == [c \in cores |-> {d \in cores :
                        \/ Min(t[d]) < Min(t[c])
                        \/ Min(t[d]) = Min(t[c]) /\ d < c}]
           N == Cardinality(cores)
<1>1. /\ N \in Nat /\ cores = 0..N - 1
      /\ \A c \in cores : c \in t[c] /\ t[c] \subseteq cores
  BY MachineIs
<1>2. PICK s : s = ExistingCores(t, FALSE)
  OBVIOUS
<1>3. InOrder(s, t, cores, N)
  BY <1>2, ExistingAreAllocated, AllocatedInOrder
<1>4. /\ s \in Seq(cores) /\ Len(s) \in Nat /\ s \in [1..Len(s) -> cores]
      /\ \A c \in cores : c \in ToSet(s)
      /\ \A i, j \in 1..Len(s) : i < j => Earlier(t, cores, s[i], s[j])
  <2>1. \A c \in cores : c < N /\ c \in t[c]
    BY <1>1
  <2> QED
    BY <1>3, <2>1 DEF InOrder
<1>5. \A c \in cores : FirstOf(t, cores, c) = Min(t[c]) /\ FirstOf(t, cores, c) \in Nat
  <2> TAKE c \in cores
  <2>1. t[c] \cap cores = t[c]
    BY <1>1
  <2>2. FirstOf(t, cores, c) \in cores
    <3>1. cores \in SUBSET Online(t)
      OBVIOUS
    <3> HIDE DEF cores
    <3> QED
      BY <3>1, FirstIs
  <2>3. FirstOf(t, cores, c) = Min(t[c])
    BY <2>1, Zenon DEF FirstOf
  <2> QED
    BY <1>1, <2>2, <2>3
<1>6. ASSUME NEW i \in 1..Len(s), NEW j \in 1..Len(s)
      PROVE  s[i] \in below[s[j]] <=> i < j
  <2>1. s[i] \in cores /\ s[j] \in cores /\ s[i] \in Nat /\ s[j] \in Nat
    BY <1>1, <1>4
  <2>2. s[i] \in below[s[j]] <=> Earlier(t, cores, s[i], s[j])
    <3>1. s[i] \in below[s[j]] <=>
            \/ Min(t[s[i]]) < Min(t[s[j]])
            \/ Min(t[s[i]]) = Min(t[s[j]]) /\ s[i] < s[j]
      BY <2>1
    <3> HIDE DEF below, cores
    <3>2. FirstOf(t, cores, s[i]) = Min(t[s[i]]) /\ FirstOf(t, cores, s[j]) = Min(t[s[j]])
      BY <1>5, <2>1
    <3> QED
      BY <3>1, <3>2, Zenon DEF Earlier
  <2> HIDE DEF below, cores
  <2>3. ~(Earlier(t, cores, s[i], s[j]) /\ Earlier(t, cores, s[j], s[i]))
    BY <1>5, <2>1 DEF Earlier
  <2>4. CASE i < j
    BY <1>4, <2>2, <2>4
  <2>5. CASE j < i
    BY <1>4, <2>2, <2>3, <2>5
  <2>6. CASE i = j
    BY <2>2, <2>3, <2>6
  <2> QED
    BY <1>4, <2>4, <2>5, <2>6
<1>7. Lists(s, Len(s), cores, below)
  <2>1. \A c \in cores : \E i \in 1..Len(s) : s[i] = c
    BY <1>4 DEF ToSet
  <2>2. \A c \in cores : below[c] \subseteq cores
    OBVIOUS
  <2> HIDE DEF below, cores
  <2> QED
    BY <1>4, <1>6, <2>1, <2>2 DEF Lists
<1>8. ProcessorOrder(t) = Sorted(cores, below)
  BY Zenon DEF ProcessorOrder
<1> HIDE DEF below, cores
<1>9. Sorted(cores, below) = s /\ N = Len(s)
  BY <1>4, <1>7, SortedIs
<1> QED
  BY <1>2, <1>4, <1>8, <1>9 DEF cores

-----------------------------------------------------------------------------
(***************************************************************************)
(* selectCores().                                                          *)
(***************************************************************************)
\* The cores of the list at the places that the item of the command line names.
Named(available, item) ==
    {available[k] : k \in {k \in DOMAIN available :
        \/ item[1] <= k - 1 /\ k - 1 <= Last(item)
        \/ Last(item) <= k - 1 /\ k - 1 <= item[1]}}

LEMMA ChosenIs ==
    ASSUME NEW S, NEW available \in Seq(S), NEW cores,
           NEW item \in Seq(Nat), Len(item) \in 1..2,
           Len(item) = 1 => item[1] < Len(available)
    PROVE  Chosen(available, cores, item) = {Named(available, item)}
<1>0. /\ DOMAIN available = 1..Len(available) /\ Len(available) \in Nat
      /\ \A k \in 1..Len(item) : item[k] \in Nat
  OBVIOUS
<1>1. CASE Len(item) = 2
  <2>1. item[1] \in Nat /\ item[2] \in Nat /\ Last(item) = item[2]
    BY <1>0, <1>1 DEF Last
  <2>2. {k + 1 : k \in Interval(item)} \cap DOMAIN available =
           {k \in DOMAIN available :
              \/ item[1] <= k - 1 /\ k - 1 <= Last(item)
              \/ Last(item) <= k - 1 /\ k - 1 <= item[1]}
    <3>1. ASSUME NEW k \in DOMAIN available
          PROVE  k \in {i + 1 : i \in Interval(item)} <=> k - 1 \in Interval(item)
      <4>1. k = (k - 1) + 1
        BY <1>0
      <4>2. ASSUME NEW i \in Interval(item), k = i + 1 PROVE i = k - 1
        BY <2>1, <4>2 DEF Interval
      <4> QED
        BY <4>1, <4>2
    <3>2. ASSUME NEW k \in DOMAIN available
          PROVE  k - 1 \in Interval(item) <=>
                     \/ item[1] <= k - 1 /\ k - 1 <= Last(item)
                     \/ Last(item) <= k - 1 /\ k - 1 <= item[1]
      BY <1>0, <2>1 DEF Interval
    <3> QED
      BY <3>1, <3>2
  <2> QED
    BY <1>1, <2>2 DEF Chosen, Named
<1>2. CASE Len(item) = 1
  <2>1. item[1] \in Nat /\ Last(item) = item[1] /\ item[1] + 1 \in DOMAIN available
    BY <1>0, <1>2 DEF Last
  <2>2. {k \in DOMAIN available : \/ item[1] <= k - 1 /\ k - 1 <= Last(item)
                                  \/ Last(item) <= k - 1 /\ k - 1 <= item[1]} = {item[1] + 1}
    BY <1>0, <2>1
  <2> QED
    BY <1>2, <2>1, <2>2 DEF Chosen, Named
<1> QED
  BY <1>1, <1>2

\* A list of numbers and ranges, of which the numbers are below size.
Items(list, size) ==
    /\ list \in Seq(Seq(Nat))
    /\ \A n \in DOMAIN list : /\ Len(list[n]) \in 1..2
                              /\ Len(list[n]) = 1 => list[n][1] < size

LEMMA SelectionsAre ==
    ASSUME NEW S, NEW available \in Seq(S), NEW cores, NEW list, Items(list, Len(available))
    PROVE  Selections(available, cores, list) =
              {UNION {Named(available, list[n]) : n \in DOMAIN list}}
<1> DEFINE Sets(n) == Chosen(available, cores, list[n])
           all == UNION {Sets(n) : n \in DOMAIN list}
           Picks == {p \in [DOMAIN list -> all] : \A n \in DOMAIN list : p[n] \in Sets(n)}
           one == [n \in DOMAIN list |-> Named(available, list[n])]
<1>1. Selections(available, cores, list) = {UNION {pick[n] : n \in DOMAIN list} : pick \in Picks}
  BY DEF Selections
<1>2. ASSUME NEW n \in DOMAIN list PROVE Sets(n) = {Named(available, list[n])}
  <2>0. list[n] \in Seq(Nat)
    BY DEF Items
  <2>1. Len(list[n]) \in 1..2 /\ (Len(list[n]) = 1 => list[n][1] < Len(available))
    BY DEF Items
  <2>2. Chosen(available, cores, list[n]) = {Named(available, list[n])}
    BY <2>0, <2>1, ChosenIs, Zenon
  <2> QED
    BY <2>2
<1> HIDE DEF Sets
<1>3. Picks = {one}
  <2>1. one \in Picks
    BY <1>2
  <2>2. ASSUME NEW p \in Picks PROVE p = one
    BY <1>2
  <2> QED
    BY <2>1, <2>2
<1>4. {one[n] : n \in DOMAIN list} = {Named(available, list[n]) : n \in DOMAIN list}
  OBVIOUS
<1> HIDE DEF Picks, one
<1>5. Selections(available, cores, list) = {UNION {one[n] : n \in DOMAIN list}}
  BY <1>1, <1>3
<1> QED
  BY <1>4, <1>5, Zenon

\* What the documentation of --cores and --phys-cores promises.
Available(t, physical) == IF physical THEN Ascending(Online(t)) ELSE ProcessorOrder(t)
WantedOf(t, list, physical) ==
    {Available(t, physical)[k] : k \in {k \in DOMAIN Available(t, physical) :
        \E n \in DOMAIN list :
            LET item == list[n]
            IN  \/ item[1] <= k - 1 /\ k - 1 <= Last(item)
                \/ Last(item) <= k - 1 /\ k - 1 <= item[1]}}

LEMMA ExistingIs ==
    ASSUME NEW t \in Topologies, NEW physical \in BOOLEAN, physical \/ MaskHolds(t)
    PROVE  /\ ExistingCores(t, physical) = Available(t, physical)
           /\ Available(t, physical) \in Seq(Online(t))
           /\ Len(Available(t, physical)) = Cardinality(Online(t))
<1>1. CASE physical = TRUE
  <2> DEFINE N == Cardinality(Online(t))
             s == [k \in 1..N |-> k - 1]
  <2>1. N \in Nat /\ Online(t) = 0..N - 1
    BY MachineIs
  <2>2. Increasing(s, Online(t))
    <3>1. s \in [1..N -> Online(t)]
      BY <2>1
    <3>2. ASSUME NEW c \in Online(t) PROVE \E i \in 1..N : s[i] = c
      <4>1. c + 1 \in 1..N /\ (c + 1) - 1 = c
        BY <2>1
      <4> QED
        BY <4>1
    <3>3. \A i, j \in 1..N : s[i] < s[j] <=> i < j
      BY <2>1
    <3> HIDE DEF s, N
    <3> QED
      BY <2>1, <3>1, <3>2, <3>3 DEF Increasing
  <2>3. Online(t) \subseteq Int /\ s \in Seq(Online(t)) /\ Len(s) = N
    BY <2>1
  <2>4. ExistingCores(t, TRUE) = s
    BY ExistingPhysical
  <2> HIDE DEF s
  <2>5. Ascending(Online(t)) = s
    BY <2>2, <2>3, AscendingIs
  <2> QED
    BY <1>1, <2>3, <2>4, <2>5 DEF Available
<1>2. CASE physical = FALSE
  BY <1>2, ExistingSorted DEF Available
<1> QED
  BY <1>1, <1>2

LEMMA SelectedAreWanted ==
    ASSUME NEW t \in Topologies, NEW physical \in BOOLEAN, physical \/ MaskHolds(t),
           NEW list, Items(list, Cardinality(Online(t)))
    PROVE  /\ Selections(ExistingCores(t, physical), Online(t), list) =
                 {WantedOf(t, list, physical)}
           /\ WantedOf(t, list, physical) \subseteq Online(t)
<1> DEFINE available == Available(t, physical)
<1>1. /\ available \in Seq(Online(t)) /\ Len(available) = Cardinality(Online(t))
      /\ ExistingCores(t, physical) = available
  BY ExistingIs
<1> HIDE DEF available
<1>2. Selections(available, Online(t), list) =
         {UNION {Named(available, list[n]) : n \in DOMAIN list}}
  <2>1. Items(list, Len(available))
    BY <1>1
  <2> QED
    BY <1>1, <2>1, SelectionsAre
<1>3. UNION {Named(available, list[n]) : n \in DOMAIN list} =
         {available[k] : k \in {k \in DOMAIN available :
            \E n \in DOMAIN list :
                \/ list[n][1] <= k - 1 /\ k - 1 <= Last(list[n])
                \/ Last(list[n]) <= k - 1 /\ k - 1 <= list[n][1]}}
  BY DEF Named
<1>4. WantedOf(t, list, physical) =
         {available[k] : k \in {k \in DOMAIN available :
            \E n \in DOMAIN list :
                \/ list[n][1] <= k - 1 /\ k - 1 <= Last(list[n])
                \/ Last(list[n]) <= k - 1 /\ k - 1 <= list[n][1]}}
  BY Zenon DEF WantedOf, available
<1>5. WantedOf(t, list, physical) \subseteq Online(t)
  BY <1>1, <1>4
<1>6. UNION {Named(available, list[n]) : n \in DOMAIN list} = WantedOf(t, list, physical)
  BY <1>3, <1>4, Zenon
<1> QED
  BY <1>1, <1>2, <1>5, <1>6, Zenon

-----------------------------------------------------------------------------
(***************************************************************************)
(* The cores of the solver.                                                *)
(***************************************************************************)
\* getExistingCores() reads the masks of the processors for --cores only.
MaskWordHolds == asked.physical \/ MaskHolds(topology)
Claimed == asked.list # <<>> /\ MaskWordHolds /\ NumbersExist /\ Wanted # {}

CoresTyped ==
    /\ topology \in Topologies
    /\ args \in Seq(GivenOptions)
    /\ asked.list \in Seq(Seq(Nat)) /\ asked.physical \in BOOLEAN
    /\ affinity \in [Threads -> SUBSET Online(topology)]
ForkedOnce ==
    /\ pc \in {"options", "run", "stamp", "fork"} => child = "none"
    /\ pc = "parent" => child # "none"
OnWanted ==
    Claimed => IF child = "none" THEN affinity["main"] = Wanted
               ELSE affinity["main"] \subseteq Wanted /\ affinity["solver"] = Wanted
CoresInv == CoresTyped /\ ForkedOnce /\ OnWanted

\* A step that selects no cores and pins nothing.
LEMMA CoresKept ==
    ASSUME CoresInv, UNCHANGED <<topology, asked, affinity>>, args' \in Seq(GivenOptions),
           ForkedOnce', child' = "none" <=> child = "none"
    PROVE  CoresInv'
<1>1. Wanted' = Wanted /\ Claimed' = Claimed
  BY DEF Wanted, ByProcessor, Claimed, MaskWordHolds, NumbersExist
<1> QED
  BY <1>1 DEF CoresInv, CoresTyped, OnWanted

LEMMA AffinityIs ==
    ASSUME NEW t, NEW old \in SUBSET Online(t), NEW mask
    PROVE  /\ SetAffinity(t, old, mask) \in SUBSET Online(t)
           /\ mask \subseteq old => SetAffinity(t, old, mask) \subseteq old
           /\ mask \subseteq Online(t) /\ mask # {} => SetAffinity(t, old, mask) = mask
BY DEF SetAffinity

LEMMA SelectCoresStep == CoresInv /\ SelectCores => CoresInv'
<1> SUFFICES ASSUME CoresInv, SelectCores PROVE CoresInv'
  OBVIOUS
<1> DEFINE t == topology
           list == Head(args).arg
           physical == (Head(args).name = "--phys-cores")
<1>1. /\ pc = "options" /\ pc' = "options" /\ child' = child /\ args' = Tail(args)
      /\ args # <<>> /\ Head(args).name \in {"--cores", "--phys-cores"} /\ list # <<>>
      /\ topology' = t /\ asked' = [list |-> list, physical |-> physical]
  BY DEF SelectCores, Reads, Option, NextOption, OthersUnchanged, machine
<1>2. PICK mask \in Selections(ExistingCores(t, physical), Online(t), list) :
         affinity' = [c \in Threads |-> SetAffinity(t, affinity[c], mask)]
  BY DEF SelectCores, Option
<1>3. /\ Head(args) \in GivenOptions /\ Tail(args) \in Seq(GivenOptions)
      /\ list \in Seq(Seq(Nat)) /\ \A n \in DOMAIN list : Len(list[n]) \in 1..2
  <2>1. args \in Seq(GivenOptions)
    BY DEF CoresInv, CoresTyped
  <2>2. Head(args) \in GivenOptions /\ Tail(args) \in Seq(GivenOptions)
    BY <1>1, <2>1
  <2> QED
    BY <1>1, <2>2, OptionsAssumption
<1>4. asked'.list = list /\ asked'.physical = physical /\ physical \in BOOLEAN
  BY <1>1
<1>5. CoresTyped'
  <2> DEFINE cores(c) == SetAffinity(t, affinity[c], mask)
  <2>1. ASSUME NEW c \in Threads PROVE cores(c) \in SUBSET Online(t)
    <3>1. affinity[c] \in SUBSET Online(t)
      BY DEF CoresInv, CoresTyped
    <3> QED
      BY <3>1, AffinityIs, Zenon
  <2>2. affinity' = [c \in Threads |-> cores(c)]
    BY <1>2
  <2> HIDE DEF cores, t
  <2>3. affinity' \in [Threads -> SUBSET Online(t)]
    BY <2>1, <2>2
  <2> QED
    BY <1>1, <1>3, <1>4, <2>3 DEF CoresTyped, CoresInv, t
<1>6. ForkedOnce' /\ child' = "none"
  BY <1>1 DEF CoresInv, ForkedOnce
<1>7. Wanted' = WantedOf(t, list, physical)
  <2>1. Wanted' = WantedOf(topology', asked'.list, asked'.physical)
    BY Zenon DEF Wanted, WantedOf, Available, ByProcessor, ProcessorOrder
  <2> QED
    BY <1>1, <1>4, <2>1, Zenon
<1>8. ASSUME Claimed' PROVE affinity'["main"] = Wanted'
  <2>1. t \in Topologies /\ physical \in BOOLEAN /\ (physical \/ MaskHolds(t))
    BY <1>1, <1>4, <1>8 DEF CoresInv, CoresTyped, Claimed, MaskWordHolds
  <2>2. Items(list, Cardinality(Online(t)))
    BY <1>1, <1>3, <1>4, <1>8 DEF Items, Claimed, NumbersExist
  <2>3. mask = Wanted' /\ Wanted' \subseteq Online(t) /\ Wanted' # {}
    <3> HIDE DEF t, list, physical
    <3>1. /\ Selections(ExistingCores(t, physical), Online(t), list) =
               {WantedOf(t, list, physical)}
          /\ WantedOf(t, list, physical) \subseteq Online(t)
      BY <2>1, <2>2, SelectedAreWanted
    <3> QED
      BY <1>2, <1>7, <1>8, <3>1 DEF Claimed
  <2> QED
    BY <1>2, <2>3, AffinityIs DEF CoresInv, CoresTyped, Threads
<1> QED
  BY <1>5, <1>6, <1>8 DEF CoresInv, OnWanted

LEMMA ForkStep == CoresInv /\ Fork => CoresInv'
<1> SUFFICES ASSUME CoresInv, Fork PROVE CoresInv'
  OBVIOUS
<1>1. /\ pc = "fork" /\ pc' = "parent" /\ child' = "limits" /\ child = "none"
      /\ UNCHANGED <<topology, asked, args>>
      /\ affinity' = [affinity EXCEPT !["solver"] = affinity["main"]]
  BY DEF Fork, machine, setup, CoresInv, ForkedOnce
<1>2. Wanted' = Wanted /\ Claimed' = Claimed
  BY <1>1 DEF Wanted, ByProcessor, Claimed, MaskWordHolds, NumbersExist
<1> QED
  BY <1>1, <1>2 DEF CoresInv, CoresTyped, ForkedOnce, OnWanted, Threads

LEMMA ParentStep == CoresInv /\ Parent => CoresInv'
<1> SUFFICES ASSUME CoresInv, Parent PROVE CoresInv'
  OBVIOUS
<1> DEFINE cores == AllocatedCores(topology, affinity["main"])
           last == IF Len(cores) > 1 THEN {Last(cores)} ELSE ToSet(cores)
<1>1. /\ pc = "parent" /\ pc' = "watch" /\ child' = child /\ child # "none"
      /\ UNCHANGED <<topology, asked, args>>
      /\ affinity' = [affinity EXCEPT !["main"] = SetAffinity(topology, @, last)]
  BY DEF Parent, machine, setup, CoresInv, ForkedOnce
<1>2. affinity["main"] \in SUBSET Online(topology) /\ topology \in Topologies
  BY DEF CoresInv, CoresTyped, Threads
<1>3. last \subseteq affinity["main"]
  <2>1. cores \in Seq(affinity["main"])
    BY <1>2, AllocatedWithin
  <2> HIDE DEF cores
  <2> QED
    BY <2>1 DEF Last, ToSet
<1> HIDE DEF last
<1>4. /\ SetAffinity(topology, affinity["main"], last) \in SUBSET Online(topology)
      /\ SetAffinity(topology, affinity["main"], last) \subseteq affinity["main"]
  BY <1>2, <1>3, AffinityIs
<1>5. Wanted' = Wanted /\ Claimed' = Claimed
  BY <1>1 DEF Wanted, ByProcessor, Claimed, MaskWordHolds, NumbersExist
<1> QED
  BY <1>1, <1>4, <1>5 DEF CoresInv, CoresTyped, ForkedOnce, OnWanted, Threads

LEMMA CoresStep == CoresInv /\ [Next]_vars => CoresInv'
<1> SUFFICES ASSUME CoresInv, [Next]_vars PROVE CoresInv'
  OBVIOUS
<1>0. args \in Seq(GivenOptions) /\ (args # <<>> => Tail(args) \in Seq(GivenOptions))
  BY DEF CoresInv, CoresTyped
<1> USE DEF machine, setup, Exit, OthersUnchanged
<1>1. CASE SelectCores
  BY <1>1, SelectCoresStep
<1>2. CASE \/ SetMember \/ SetCPULimit \/ SetWallClockLimit \/ SetStackLimit \/ OutputLimit
  <2>1. /\ UNCHANGED <<topology, asked, affinity, pc, child>>
        /\ args # <<>> /\ args' = Tail(args)
    BY <1>2 DEF SetMember, SetCPULimit, SetWallClockLimit, SetStackLimit, OutputLimit, Reads,
                NextOption
  <2> QED
    BY <1>0, <2>1, CoresKept DEF CoresInv, ForkedOnce
<1>3. CASE Refuse \/ PrintVersion \/ OpenFails \/ NoSubreaper \/ ForkFails
  BY <1>0, <1>3, CoresKept
     DEF Refuse, PrintVersion, OpenFails, NoSubreaper, ForkFails, ForkedOnce
<1>4. CASE AddLimits \/ InstallHandlers \/ StartStamper
  <2>1. /\ UNCHANGED <<topology, asked, affinity, args, child>>
        /\ pc \in {"options", "run", "stamp"} /\ pc' \in {"run", "stamp", "fork"}
    BY <1>4 DEF AddLimits, InstallHandlers, StartStamper
  <2> QED
    BY <1>0, <2>1, CoresKept DEF CoresInv, ForkedOnce
<1>5. CASE Fork
  BY <1>5, ForkStep
<1>6. CASE Parent
  BY <1>6, ParentStep
<1>7. CASE WatchPIDReturns \/ JoinStamper \/ Terminate \/ WatchdogFires
  <2>1. /\ UNCHANGED <<topology, asked, affinity, args, child>>
        /\ pc' = pc \/ pc' \notin {"options", "run", "stamp", "fork", "parent"}
    BY <1>7 DEF WatchPIDReturns, JoinStamper, Terminate, WatchdogFires
  <2> QED
    BY <1>0, <2>1, CoresKept DEF CoresInv, ForkedOnce
<1>8. CASE Child
  <2>1. /\ UNCHANGED <<topology, asked, affinity, args, pc>>
        /\ child # "none" /\ child' # "none"
    BY <1>8 DEF Child, EnforceLimits, RedirectInput, RedirectOutput, Exec
  <2> QED
    BY <1>0, <2>1, CoresKept DEF CoresInv, ForkedOnce
<1>9. CASE Solver \/ WatcherKills \/ StamperEnds \/ UNCHANGED vars
  <2>1. UNCHANGED <<topology, asked, affinity, args, pc, child>>
    BY <1>9 DEF Solver, CreateProcess, ProcessEnds, WatcherKills, StamperEnds, vars
  <2> QED
    BY <1>0, <2>1, CoresKept DEF CoresInv, ForkedOnce
<1> QED
  BY <1>1, <1>2, <1>3, <1>4, <1>5, <1>6, <1>7, <1>8, <1>9 DEF Next, Main, ReadOption, Done

LEMMA CoresInit == Init => CoresInv
<1> SUFFICES ASSUME Init PROVE CoresInv
  OBVIOUS
<1>1. args \in Seq(GivenOptions)
  BY OptionsAssumption DEF Init
<1>2. asked.list = <<>> /\ asked.physical = FALSE
  BY DEF Init
<1>3. CoresTyped
  <2>1. topology \in Topologies /\ affinity = [t \in Threads |-> Online(topology)]
    BY DEF Init
  <2>2. affinity \in [Threads -> SUBSET Online(topology)]
    BY <2>1
  <2>3. asked.list \in Seq(Seq(Nat)) /\ asked.physical \in BOOLEAN
    <3>1. <<>> \in Seq(Seq(Nat))
      OBVIOUS
    <3> QED
      BY <1>2, <3>1, Zenon
  <2> QED
    BY <1>1, <2>1, <2>2, <2>3 DEF CoresTyped
<1>4. ForkedOnce
  BY DEF Init, ForkedOnce
<1>5. OnWanted
  BY <1>2 DEF OnWanted, Claimed
<1> QED
  BY <1>3, <1>4, <1>5 DEF CoresInv

\* Whatever the machine, the list of numbers and ranges and the order of the
\* options, the solver runs on the cores that the last --cores or --phys-cores
\* names in the documented order, and runsolver takes one of those for itself;
\* with --cores, on a machine whose masks have one word.
THEOREM SolverPinned == Spec => [](MaskWordHolds => SolverOnSelectedCores)
<1>1. Init => CoresInv
  BY CoresInit
<1>2. CoresInv /\ [Next]_vars => CoresInv'
  BY CoresStep
<1>3. CoresInv => (MaskWordHolds => SolverOnSelectedCores)
  BY DEF CoresInv, OnWanted, Claimed, SolverOnSelectedCores
<1> QED
  BY <1>1, <1>2, <1>3, PTL DEF Spec
=============================================================================
