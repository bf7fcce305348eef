------------------------------ MODULE ApiProofs ------------------------------
(***************************************************************************)
(* What holds of the watchdog, and of the API in front of it, for every    *)
(* limit, window, backoff, lag, fault, horizon and number of requests.     *)
(* HandleCrash and Spawn are the only operators that touch the restart     *)
(* history, so each invariant of the watchdog has a lemma for either, and  *)
(* its theorem goes through the actions that call them.  Every step of the *)
(* API is a step of the watchdog or leaves it alone, so the watchdog's     *)
(* theorems hold of it; what the API adds is that observer errors need a   *)
(* request, hence a shell the watchdog still holds.                        *)
(***************************************************************************)
EXTENDS Api, TLAPS

LEMMA CountedType ==
  ASSUME TypeOK
  PROVE  Counted \in 0 .. MaxRestarts
BY WatchdogAssumption DEF TypeOK, Counted

LEMMA CrashTypes ==
  ASSUME TypeOK, NEW pending \in SUBSET timers, HandleCrash(pending)
  PROVE  /\ status' \in Status
         /\ shell' = NoShell
         /\ restartCount' \in 0 .. MaxRestarts
         /\ windowStart' \in 0 .. now
         /\ timers' \subseteq Timer
         /\ restarts' \in Seq(Restart)
<1>1. Counted \in 0 .. MaxRestarts
  BY CountedType
<1>2. windowStart' \in 0 .. now
  BY DEF HandleCrash, TypeOK
<1>3. CASE Exhausted
  BY <1>1, <1>2, <1>3 DEF HandleCrash, Exhausted, GiveUp, Forget, TypeOK, Status
<1>4. CASE ~Exhausted
  <2>1. Backoff(Counted) \in Nat
    BY <1>1, BackoffAssumption
  <2>2. Counted + 1 \in 0 .. MaxRestarts /\ Counted + 1 \in Nat
    BY <1>1, <1>4, WatchdogAssumption DEF Exhausted
  <2>3. Len(restarts) + 1 \in Nat /\ now + Backoff(Counted) \in Nat /\ now \in Nat
    BY <2>1 DEF TypeOK
  <2>4. PICK listener \in RestartListeners : Announce(pending, listener)
    BY <1>4 DEF HandleCrash
  <2>5. Armed(pending) \subseteq Timer /\ pending \subseteq Timer
    BY <2>3 DEF Armed, Timer, TypeOK
  <2>6. timers' \subseteq Timer
    BY <2>4, <2>5 DEF Announce
  <2>7. restarts' \in Seq(Restart)
    <3> DEFINE r == [time |-> now, window |-> windowStart', attempt |-> Counted + 1,
                     backoff |-> Backoff(Counted), listener |-> listener]
    <3>1. listener \in ListenerBehaviours
      BY WatchdogAssumption
    <3>2. r \in Restart
      BY <1>2, <2>1, <2>2, <2>3, <3>1 DEF Restart
    <3>3. restarts' = Append(restarts, r)
      BY <2>4 DEF Announce
    <3> QED
      BY <3>2, <3>3 DEF TypeOK
  <2>8. status' \in Status /\ restartCount' \in 0 .. MaxRestarts
    BY <2>2, <2>4 DEF Announce, Status
  <2>9. shell' = NoShell
    BY DEF HandleCrash, Forget
  <2> QED
    BY <1>2, <2>6, <2>7, <2>8, <2>9
<1> QED
  BY <1>3, <1>4

LEMMA SpawnTypes ==
  ASSUME TypeOK, NEW pending \in SUBSET timers, NEW outcome,
         Spawn(pending, outcome), now' = now, starts' \in Nat
  PROVE  TypeOK'
<1>1. CASE outcome = "ok"
  <2>1. /\ created' = created + 1
        /\ running' = running \cup {created + 1}
        /\ shell' = created + 1
        /\ status' = "RUNNING"
        /\ timers' = pending
        /\ UNCHANGED <<restartCount, windowStart, restarts>>
    BY <1>1 DEF Spawn
  <2>2. running' \subseteq 1 .. created'
    BY <2>1 DEF TypeOK
  <2> QED
    BY <2>1, <2>2 DEF TypeOK, Status
<1>2. CASE outcome = "constructor throws"
  <2>1. HandleCrash(pending) /\ UNCHANGED <<created, running>>
    BY <1>2 DEF Spawn
  <2> QED
    BY <2>1, CrashTypes DEF TypeOK, NoShell
<1>3. CASE outcome = "listener throws"
  <2>1. /\ HandleCrash(pending)
        /\ created' = created + 1
        /\ running' = running \cup {created + 1}
    BY <1>3 DEF Spawn
  <2> QED
    BY <2>1, CrashTypes DEF TypeOK, NoShell
<1> QED
  BY <1>1, <1>2, <1>3 DEF Spawn

\* Every step keeps the types.
LEMMA TypesKept == TypeOK /\ [Next]_vars => TypeOK'
<1> SUFFICES ASSUME TypeOK, [Next]_vars PROVE TypeOK'
  OBVIOUS
<1>1. CASE Start
  <2>1. PICK outcome \in SpawnOutcomes : Spawn(timers, outcome)
    BY <1>1 DEF Start
  <2>2. starts' \in Nat /\ now' = now
    BY <1>1 DEF Start, TypeOK
  <2> QED
    BY <2>1, <2>2, SpawnTypes
<1>2. CASE Stop
  BY <1>2 DEF Stop, TypeOK, Status, NoShell
<1>3. ASSUME NEW s \in 1 .. created, ShellStop(s) PROVE TypeOK'
  <2>1. CASE StopIsCrash
    <3>1. HandleCrash(timers)
      BY <1>3, <2>1 DEF ShellStop
    <3> QED
      BY <1>3, <3>1, CrashTypes DEF ShellStop, TypeOK, NoShell
  <2>2. CASE ~StopIsCrash
    BY <1>3, <2>2 DEF ShellStop, TypeOK
  <2> QED
    BY <2>1, <2>2
<1>4. ASSUME NEW s \in 1 .. created, ShellStart(s) PROVE TypeOK'
  BY <1>4 DEF ShellStart, TypeOK
<1>5. ASSUME NEW s \in 1 .. created, ObserverError(s) PROVE TypeOK'
  BY <1>5, CrashTypes DEF ObserverError, TypeOK, NoShell
<1>6. ASSUME NEW t \in timers, Fire(t) PROVE TypeOK'
  <2>1. CASE RestartStillWanted
    <3>1. PICK outcome \in SpawnOutcomes : Spawn(timers \ {t}, outcome)
      BY <1>6, <2>1 DEF Fire
    <3>2. starts' \in Nat /\ now' = now
      BY <1>6 DEF Fire, TypeOK
    <3> QED
      BY <3>1, <3>2, SpawnTypes
  <2>2. CASE ~RestartStillWanted
    BY <1>6, <2>2 DEF Fire, TypeOK
  <2> QED
    BY <2>1, <2>2
<1>7. CASE Tick
  BY <1>7 DEF Tick, TypeOK
<1>8. CASE UNCHANGED vars
  BY <1>8 DEF vars, TypeOK
<1> QED
  BY <1>1, <1>2, <1>3, <1>4, <1>5, <1>6, <1>7, <1>8 DEF Next, FireSome

\* Type correctness: the variables keep their types, the restart count stays
\* within the limit and the window never starts in the future.
THEOREM TypeCorrect == Spec => []TypeOK
<1>1. Init => TypeOK
  BY WatchdogAssumption DEF Init, TypeOK, Status, NoShell
<1> QED
  BY <1>1, TypesKept, PTL DEF Spec

-----------------------------------------------------------------------------
(***************************************************************************)
(* The governance gate                                                     *)
(***************************************************************************)

LEMMA CrashForgets ==
  ASSUME NEW pending, HandleCrash(pending)
  PROVE  shell' = NoShell /\ status' \in {"RESTARTING", "FAIL_SAFE"}
BY DEF HandleCrash, Forget, GiveUp, Announce

LEMMA SpawnGoverns ==
  ASSUME TypeOK, NEW pending, NEW outcome, Spawn(pending, outcome)
  PROVE  GovernedWhenRunning'
<1>1. CASE outcome = "ok"
  <2>1. created + 1 # NoShell
    BY DEF TypeOK, NoShell
  <2> QED
    BY <1>1, <2>1 DEF Spawn, GovernedWhenRunning
<1>2. CASE outcome # "ok"
  BY <1>2, CrashForgets DEF Spawn, GovernedWhenRunning
<1> QED
  BY <1>1, <1>2

\* ADR-002: the watchdog is RUNNING exactly when it holds a shell, and the shell
\* it holds accepts requests, for every interleaving of crashes, forgotten
\* shells, late timers, start() and stop().
THEOREM GatedByShell == Spec => []GovernedWhenRunning
<1>1. Init => GovernedWhenRunning
  BY DEF Init, GovernedWhenRunning
<1>2. TypeOK /\ GovernedWhenRunning /\ [Next]_vars => GovernedWhenRunning'
  <2> SUFFICES ASSUME TypeOK, GovernedWhenRunning, [Next]_vars
               PROVE  GovernedWhenRunning'
    OBVIOUS
  <2>1. CASE Start
    BY <2>1, SpawnGoverns DEF Start
  <2>2. CASE Stop
    BY <2>2 DEF Stop, GovernedWhenRunning
  <2>3. ASSUME NEW s \in 1 .. created, ShellStop(s) PROVE GovernedWhenRunning'
    <3>1. CASE StopIsCrash
      BY <2>3, <3>1, CrashForgets DEF ShellStop, GovernedWhenRunning
    <3>2. CASE ~StopIsCrash
      BY <2>3, <3>2 DEF ShellStop, StopIsCrash, GovernedWhenRunning
    <3> QED
      BY <3>1, <3>2
  <2>4. ASSUME NEW s \in 1 .. created, ShellStart(s) PROVE GovernedWhenRunning'
    BY <2>4 DEF ShellStart, GovernedWhenRunning
  <2>5. ASSUME NEW s \in 1 .. created, ObserverError(s) PROVE GovernedWhenRunning'
    BY <2>5, CrashForgets DEF ObserverError, GovernedWhenRunning
  <2>6. ASSUME NEW t \in timers, Fire(t) PROVE GovernedWhenRunning'
    <3>1. CASE RestartStillWanted
      BY <2>6, <3>1, SpawnGoverns DEF Fire
    <3>2. CASE ~RestartStillWanted
      BY <2>6, <3>2 DEF Fire, GovernedWhenRunning
    <3> QED
      BY <3>1, <3>2
  <2>7. CASE Tick
    BY <2>7 DEF Tick, GovernedWhenRunning
  <2>8. CASE UNCHANGED vars
    BY <2>8 DEF vars, GovernedWhenRunning
  <2> QED
    BY <2>1, <2>2, <2>3, <2>4, <2>5, <2>6, <2>7, <2>8 DEF Next, FireSome
<1> QED
  BY <1>1, <1>2, TypeCorrect, PTL DEF Spec

\* While callers use only the shell they are handed, a watchdog in FAIL_SAFE or
\* STOPPED changes its status in no other way than by start() or stop().
THEOREM RevivedByOwner ==
  ASSUME ~StaleCallers
  PROVE  Spec => OnlyOwnerRevives
<1>1. TypeOK /\ GovernedWhenRunning /\ [Next]_vars =>
        [(status \in {"FAIL_SAFE", "STOPPED"} /\ status' # status) => (Start \/ Stop)]_vars
  <2> SUFFICES ASSUME TypeOK, GovernedWhenRunning, Next,
                      status \in {"FAIL_SAFE", "STOPPED"}, status' # status
               PROVE  Start \/ Stop
    OBVIOUS
  <2>1. shell = NoShell /\ status # "RUNNING" /\ status # "RESTARTING"
    BY DEF GovernedWhenRunning
  <2>2. ASSUME NEW s \in 1 .. created, Reachable(s) PROVE FALSE
    BY <2>1, <2>2 DEF Reachable, NoShell, TypeOK
  <2>3. ASSUME NEW s \in 1 .. created, ShellStop(s) \/ ShellStart(s) \/ ObserverError(s)
        PROVE  FALSE
    BY <2>2, <2>3 DEF ShellStop, ShellStart, ObserverError
  <2>4. ASSUME NEW t \in timers, Fire(t) PROVE FALSE
    BY <2>1, <2>4 DEF Fire, RestartStillWanted
  <2>5. CASE Tick
    BY <2>5 DEF Tick
  <2> QED
    BY <2>3, <2>4, <2>5 DEF Next, FireSome
<1> QED
  BY <1>1, TypeCorrect, GatedByShell, PTL DEF Spec, OnlyOwnerRevives

-----------------------------------------------------------------------------
(***************************************************************************)
(* Announced restarts are never lost                                       *)
(***************************************************************************)

LEMMA CrashSchedules ==
  ASSUME TypeOK, NEW pending, HandleCrash(pending)
  PROVE  RestartIsPending'
<1>1. CASE Exhausted
  BY <1>1 DEF HandleCrash, Exhausted, GiveUp, RestartIsPending
<1>2. CASE ~Exhausted
  <2>1. PICK listener \in RestartListeners : Announce(pending, listener)
    BY <1>2 DEF HandleCrash
  <2> DEFINE r == [time |-> now, window |-> windowStart', attempt |-> Counted + 1,
                   backoff |-> Backoff(Counted), listener |-> listener]
  <2>2. restarts' = Append(restarts, r) /\ r.listener = listener
    BY <2>1 DEF Announce
  <2> HIDE DEF r
  <2>3. Len(restarts') = Len(restarts) + 1 /\ restarts'[Len(restarts')] = r /\ restarts' # <<>>
    BY <2>2 DEF TypeOK
  <2>4. CASE listener = "fine"
    <3>1. [attempt |-> Len(restarts) + 1, due |-> now + Backoff(Counted)] \in timers'
      BY <2>1, <2>4 DEF Announce, Armed
    <3> QED
      BY <2>3, <3>1 DEF RestartIsPending
  <2>5. CASE listener # "fine"
    <3>1. listener = "throws"
      BY <2>5, WatchdogAssumption DEF ListenerBehaviours
    <3> QED
      BY <2>2, <2>3, <3>1 DEF RestartIsPending, Interrupted
  <2> QED
    BY <2>4, <2>5
<1> QED
  BY <1>1, <1>2

LEMMA SpawnSchedules ==
  ASSUME TypeOK, NEW pending, NEW outcome, Spawn(pending, outcome)
  PROVE  RestartIsPending'
<1>1. CASE outcome = "ok"
  BY <1>1 DEF Spawn, RestartIsPending, Interrupted
<1>2. CASE outcome # "ok"
  BY <1>2, CrashSchedules DEF Spawn
<1> QED
  BY <1>1, <1>2

\* A restart that was announced is lost by a throwing listener of that announcement
\* and by nothing else: otherwise its timer is pending for as long as the watchdog is
\* RESTARTING, whatever stop(), start() and the timers of earlier crashes do.
THEOREM RestartNeverLost == Spec => []RestartIsPending
<1>1. Init => RestartIsPending
  BY DEF Init, RestartIsPending
<1>2. TypeOK /\ RestartIsPending /\ [Next]_vars => RestartIsPending'
  <2> SUFFICES ASSUME TypeOK, RestartIsPending, [Next]_vars
               PROVE  RestartIsPending'
    OBVIOUS
  <2>1. CASE Start
    BY <2>1, SpawnSchedules DEF Start
  <2>2. CASE Stop
    BY <2>2 DEF Stop, RestartIsPending, Interrupted
  <2>3. ASSUME NEW s \in 1 .. created, ShellStop(s) PROVE RestartIsPending'
    <3>1. CASE StopIsCrash
      BY <2>3, <3>1, CrashSchedules DEF ShellStop
    <3>2. CASE ~StopIsCrash
      BY <2>3, <3>2 DEF ShellStop, RestartIsPending, Interrupted
    <3> QED
      BY <3>1, <3>2
  <2>4. ASSUME NEW s \in 1 .. created, ShellStart(s) PROVE RestartIsPending'
    BY <2>4 DEF ShellStart, RestartIsPending, Interrupted
  <2>5. ASSUME NEW s \in 1 .. created, ObserverError(s) PROVE RestartIsPending'
    BY <2>5, CrashSchedules DEF ObserverError
  <2>6. ASSUME NEW t \in timers, Fire(t) PROVE RestartIsPending'
    <3>1. CASE RestartStillWanted
      BY <2>6, <3>1, SpawnSchedules DEF Fire
    <3>2. CASE ~RestartStillWanted
      BY <2>6, <3>2 DEF Fire, RestartStillWanted, RestartIsPending, Interrupted
    <3> QED
      BY <3>1, <3>2
  <2>7. CASE Tick
    BY <2>7 DEF Tick, RestartIsPending, Interrupted
  <2>8. CASE UNCHANGED vars
    BY <2>8 DEF vars, RestartIsPending, Interrupted
  <2> QED
    BY <2>1, <2>2, <2>3, <2>4, <2>5, <2>6, <2>7, <2>8 DEF Next, FireSome
<1> QED
  BY <1>1, <1>2, TypeCorrect, PTL DEF Spec

-----------------------------------------------------------------------------
(***************************************************************************)
(* The rate of restarts                                                    *)
(*                                                                         *)
(* RestartRate is not inductive: it says nothing of the window that is     *)
(* open.  WindowHistory adds how restartCount counts the restarts of the   *)
(* open window, and that windows lie more than WindowMs apart.  Stating it *)
(* of every pair of restarts makes each step a matter of the new one only. *)
(***************************************************************************)

CountsOpenWindow ==
  \A i \in 1 .. Len(restarts) :
    /\ restarts[i].attempt \in 1 .. MaxRestarts
    /\ restarts[i].time <= now
    /\ restarts[i].window <= restarts[i].time
    /\ restarts[i].window = windowStart =>
         restartCount = restarts[i].attempt + (Len(restarts) - i)
    /\ restarts[i].window # windowStart =>
         windowStart > restarts[i].window + WindowMs /\ windowStart >= restarts[i].time

WindowsApart ==
  \A i, j \in 1 .. Len(restarts) : i < j =>
    /\ restarts[i].window = restarts[j].window =>
         restarts[j].attempt = restarts[i].attempt + (j - i)
    /\ restarts[i].window # restarts[j].window =>
         restarts[j].window > restarts[i].window + WindowMs
           /\ restarts[j].window >= restarts[i].time

WindowHistory == CountsOpenWindow /\ WindowsApart

LEMMA CrashHistory ==
  ASSUME TypeOK, WindowHistory, NEW pending, HandleCrash(pending), now' = now
  PROVE  WindowHistory'
<1> USE WatchdogAssumption
<1>1. windowStart' = IF WindowExpired THEN now ELSE windowStart
  BY DEF HandleCrash
<1>2. CASE Exhausted
  <2>1. restarts' = restarts /\ restartCount' = Counted
    BY <1>2 DEF HandleCrash, Exhausted
  <2>2. CASE WindowExpired
    <3>1. windowStart' = now /\ now > windowStart + WindowMs
      BY <1>1, <2>2 DEF WindowExpired, TypeOK
    <3>2. ASSUME NEW i \in 1 .. Len(restarts)
          PROVE  windowStart' > restarts[i].window + WindowMs /\ restarts[i].time <= now
      <4>1. restarts[i] \in Restart
        BY DEF TypeOK
      <4>2. /\ restarts[i].window \in Nat
            /\ windowStart \in Nat
            /\ now \in Nat
        BY <4>1 DEF TypeOK, Restart
      <4>3. /\ restarts[i].time <= now
            /\ \/ restarts[i].window = windowStart
               \/ windowStart > restarts[i].window + WindowMs
        BY DEF WindowHistory, CountsOpenWindow
      <4> QED
        BY <3>1, <4>2, <4>3
    <3>3. CountsOpenWindow'
      <4> SUFFICES ASSUME NEW i \in 1 .. Len(restarts)
                   PROVE  /\ restarts[i].attempt \in 1 .. MaxRestarts
                          /\ restarts[i].time <= now
                          /\ restarts[i].window <= restarts[i].time
                          /\ restarts[i].window # now
                          /\ now > restarts[i].window + WindowMs
        BY <2>1, <3>1 DEF CountsOpenWindow
      <4>1. restarts[i].window \in Nat /\ now \in Nat
        <5>1. restarts[i] \in Restart
          BY DEF TypeOK
        <5> QED
          BY <5>1 DEF Restart, TypeOK
      <4>2. /\ restarts[i].attempt \in 1 .. MaxRestarts
            /\ restarts[i].time <= now
            /\ restarts[i].window <= restarts[i].time
        BY DEF WindowHistory, CountsOpenWindow
      <4>3. now > restarts[i].window + WindowMs
        BY <3>1, <3>2
      <4> QED
        BY <4>1, <4>2, <4>3
    <3> QED
      BY <2>1, <3>3 DEF WindowHistory, WindowsApart
  <2>3. CASE ~WindowExpired
    BY <1>1, <2>1, <2>3 DEF Counted, WindowHistory, CountsOpenWindow, WindowsApart
  <2> QED
    BY <2>2, <2>3
<1>3. CASE ~Exhausted
  <2>0. PICK listener \in RestartListeners : Announce(pending, listener)
    BY <1>3 DEF HandleCrash
  <2> DEFINE n == Len(restarts)
             r == [time |-> now, window |-> windowStart', attempt |-> Counted + 1,
                   backoff |-> Backoff(Counted), listener |-> listener]
  <2>1. restarts' = Append(restarts, r) /\ restartCount' = Counted + 1
    BY <2>0 DEF Announce
  <2>2. /\ n \in Nat
        /\ Len(restarts') = n + 1
        /\ restarts'[n + 1] = r
        /\ \A i \in 1 .. n : restarts'[i] = restarts[i] /\ restarts[i] \in Restart
    BY <2>1 DEF TypeOK
  <2>3. Counted \in Nat /\ Counted + 1 \in 1 .. MaxRestarts
    BY <1>3, CountedType DEF Exhausted
  <2>4. windowStart' \in 0 .. now /\ now \in Nat /\ windowStart \in Nat
    BY <1>1 DEF TypeOK
  <2>5. ASSUME NEW i \in 1 .. n
        PROVE  /\ restarts[i].window = windowStart' =>
                    Counted = restarts[i].attempt + (n - i)
               /\ restarts[i].window # windowStart' =>
                    windowStart' > restarts[i].window + WindowMs
                      /\ windowStart' >= restarts[i].time
    <3>1. /\ restarts[i].window \in Nat
          /\ restarts[i].time \in Nat
          /\ restarts[i].time <= now
          /\ restarts[i].window = windowStart =>
               restartCount = restarts[i].attempt + (n - i)
          /\ restarts[i].window # windowStart =>
               windowStart > restarts[i].window + WindowMs
                 /\ windowStart >= restarts[i].time
      BY <2>2 DEF WindowHistory, CountsOpenWindow, Restart
    <3>2. CASE WindowExpired
      BY <1>1, <2>4, <3>1, <3>2 DEF WindowExpired
    <3>3. CASE ~WindowExpired
      BY <1>1, <3>1, <3>3 DEF Counted
    <3> QED
      BY <3>2, <3>3
  <2>6. CountsOpenWindow'
    <3> SUFFICES ASSUME NEW i \in 1 .. n + 1
                 PROVE  /\ restarts'[i].attempt \in 1 .. MaxRestarts
                        /\ restarts'[i].time <= now
                        /\ restarts'[i].window <= restarts'[i].time
                        /\ restarts'[i].window = windowStart' =>
                             Counted + 1 = restarts'[i].attempt + (n + 1 - i)
                        /\ restarts'[i].window # windowStart' =>
                             windowStart' > restarts'[i].window + WindowMs
                               /\ windowStart' >= restarts'[i].time
      BY <2>1, <2>2 DEF CountsOpenWindow
    <3>1. CASE i = n + 1
      BY <2>2, <2>3, <2>4, <3>1
    <3>2. CASE i \in 1 .. n
      <4>1. /\ restarts[i].attempt \in 1 .. MaxRestarts
            /\ restarts[i].time <= now
            /\ restarts[i].window <= restarts[i].time
        BY <3>2 DEF WindowHistory, CountsOpenWindow
      <4>2. restarts[i].window = windowStart' =>
              Counted + 1 = restarts[i].attempt + (n + 1 - i)
        <5>1. restarts[i].window = windowStart' =>
                Counted = restarts[i].attempt + (n - i)
          BY <2>5, <3>2
        <5>2. restarts[i].attempt \in Int /\ i \in Int /\ n \in Int
          BY <2>2, <4>1
        <5> HIDE DEF n
        <5> QED
          BY <5>1, <5>2
      <4> QED
        BY <2>2, <2>5, <3>2, <4>1, <4>2
    <3> QED
      BY <2>2, <3>1, <3>2
  <2>7. WindowsApart'
    <3> SUFFICES ASSUME NEW i \in 1 .. n + 1, NEW j \in 1 .. n + 1, i < j
                 PROVE  /\ restarts'[i].window = restarts'[j].window =>
                             restarts'[j].attempt = restarts'[i].attempt + (j - i)
                        /\ restarts'[i].window # restarts'[j].window =>
                             restarts'[j].window > restarts'[i].window + WindowMs
                               /\ restarts'[j].window >= restarts'[i].time
      BY <2>2 DEF WindowsApart
    <3>1. i \in 1 .. n /\ restarts'[i] = restarts[i]
      BY <2>2
    <3>2. CASE j = n + 1
      <4>1. restarts'[j].window = windowStart' /\ restarts'[j].attempt = Counted + 1
        BY <2>2, <3>2
      <4>2. restarts[i].attempt \in Nat
        BY <2>2, <3>1 DEF Restart
      <4>3. restarts[i].window = windowStart' =>
              Counted + 1 = restarts[i].attempt + (j - i)
        BY <2>2, <2>3, <2>5, <3>1, <3>2, <4>2
      <4> QED
        BY <2>5, <3>1, <4>1, <4>3
    <3>3. CASE j \in 1 .. n
      BY <2>2, <3>1, <3>3 DEF WindowHistory, WindowsApart
    <3> QED
      BY <2>2, <3>2, <3>3
  <2> QED
    BY <2>6, <2>7 DEF WindowHistory
<1> QED
  BY <1>2, <1>3

LEMMA SpawnHistory ==
  ASSUME TypeOK, WindowHistory, NEW pending, NEW outcome,
         Spawn(pending, outcome), now' = now
  PROVE  WindowHistory'
<1>1. CASE outcome = "ok"
  BY <1>1 DEF Spawn, WindowHistory, CountsOpenWindow, WindowsApart
<1>2. CASE outcome # "ok"
  BY <1>2, CrashHistory DEF Spawn
<1> QED
  BY <1>1, <1>2

LEMMA WindowHistoryInvariant == Spec => []WindowHistory
<1>1. Init => WindowHistory
  BY DEF Init, WindowHistory, CountsOpenWindow, WindowsApart
<1>2. TypeOK /\ WindowHistory /\ [Next]_vars => WindowHistory'
  <2> SUFFICES ASSUME TypeOK, WindowHistory, [Next]_vars
               PROVE  WindowHistory'
    OBVIOUS
  <2>1. CASE Start
    BY <2>1, SpawnHistory DEF Start
  <2>2. ASSUME UNCHANGED <<restartCount, windowStart, restarts, now>>
        PROVE  WindowHistory'
    BY <2>2 DEF WindowHistory, CountsOpenWindow, WindowsApart
  <2>3. CASE Stop \/ UNCHANGED vars
    BY <2>2, <2>3 DEF Stop, vars
  <2>4. ASSUME NEW s \in 1 .. created, ShellStop(s) PROVE WindowHistory'
    BY <2>2, <2>4, CrashHistory DEF ShellStop
  <2>5. ASSUME NEW s \in 1 .. created, ShellStart(s) PROVE WindowHistory'
    BY <2>2, <2>5 DEF ShellStart
  <2>6. ASSUME NEW s \in 1 .. created, ObserverError(s) PROVE WindowHistory'
    BY <2>6, CrashHistory DEF ObserverError
  <2>7. ASSUME NEW t \in timers, Fire(t) PROVE WindowHistory'
    BY <2>2, <2>7, SpawnHistory DEF Fire
  <2>8. CASE Tick
    <3>1. now' = now + 1 /\ UNCHANGED <<restartCount, windowStart, restarts>>
      BY <2>8 DEF Tick
    <3>2. ASSUME NEW i \in 1 .. Len(restarts) PROVE restarts[i].time <= now'
      <4>1. restarts[i].time <= now
        BY DEF WindowHistory, CountsOpenWindow
      <4>2. restarts[i] \in Restart
        BY DEF TypeOK
      <4>3. restarts[i].time \in Nat /\ now \in Nat
        BY <4>2 DEF TypeOK, Restart
      <4> QED
        BY <3>1, <4>1, <4>3
    <3>3. CountsOpenWindow'
      BY <3>1, <3>2 DEF WindowHistory, CountsOpenWindow
    <3>4. WindowsApart'
      BY <3>1 DEF WindowHistory, WindowsApart
    <3> QED
      BY <3>3, <3>4 DEF WindowHistory
  <2> QED
    BY <2>1, <2>3, <2>4, <2>5, <2>6, <2>7, <2>8 DEF Next, FireSome
<1> QED
  BY <1>1, <1>2, TypeCorrect, PTL DEF Spec

\* Among MaxRestarts + 1 successive restarts the window changes.
LEMMA WindowTurns ==
  ASSUME TypeOK, WindowHistory,
         NEW i \in 1 .. Len(restarts), NEW j \in 1 .. Len(restarts), j = i + MaxRestarts
  PROVE  restarts[i].window # restarts[j].window /\ i < j
<1>1. restarts[i].attempt \in 1 .. MaxRestarts /\ restarts[j].attempt \in 1 .. MaxRestarts
  BY DEF WindowHistory, CountsOpenWindow
<1>2. i < j
  BY <1>1, WatchdogAssumption DEF TypeOK
<1>3. restarts[i].window = restarts[j].window =>
        restarts[j].attempt = restarts[i].attempt + MaxRestarts
  BY <1>2, WatchdogAssumption DEF WindowHistory, WindowsApart
<1> QED
  BY <1>1, <1>2, <1>3, WatchdogAssumption

\* The rate of restarts: no more than 2 * MaxRestarts in any time WindowMs.
\* Among 2 * MaxRestarts + 1 restarts the window changes twice; the second of the
\* three windows opens no earlier than the first restart, the third opens more
\* than WindowMs later and no later than the last restart.
THEOREM RestartsAreRare == Spec => []RestartRate
<1>1. TypeOK /\ WindowHistory => RestartRate
  <2> SUFFICES ASSUME TypeOK, WindowHistory,
                      NEW i \in 1 .. Len(restarts), NEW j \in 1 .. Len(restarts),
                      j = i + 2 * MaxRestarts
               PROVE  restarts[j].time - restarts[i].time > WindowMs
    BY DEF RestartRate
  <2> DEFINE m == i + MaxRestarts
  <2>1. m \in 1 .. Len(restarts) /\ j = m + MaxRestarts
    BY WatchdogAssumption DEF TypeOK
  <2>2. /\ restarts[i].window # restarts[m].window /\ i < m
        /\ restarts[m].window # restarts[j].window /\ m < j
    BY <2>1, WindowTurns
  <2>3. restarts[m].window >= restarts[i].time
    BY <2>1, <2>2 DEF WindowHistory, WindowsApart
  <2>4. restarts[j].window > restarts[m].window + WindowMs
    BY <2>1, <2>2 DEF WindowHistory, WindowsApart
  <2>5. restarts[j].time >= restarts[j].window
    BY DEF WindowHistory, CountsOpenWindow, TypeOK, Restart
  <2>6. restarts[i] \in Restart /\ restarts[m] \in Restart /\ restarts[j] \in Restart
    BY <2>1 DEF TypeOK
  <2>7. /\ restarts[i].time \in Nat
        /\ restarts[m].window \in Nat
        /\ restarts[j].window \in Nat
        /\ restarts[j].time \in Nat
    BY <2>6 DEF Restart
  <2>8. ASSUME NEW a \in Nat, NEW b \in Nat, NEW c \in Nat, NEW d \in Nat,
               NEW w \in Nat, b >= a, c > b + w, d >= c
        PROVE  d - a > w
    BY <2>8
  <2> HIDE DEF m
  <2> QED
    BY <2>3, <2>4, <2>5, <2>7, <2>8, WatchdogAssumption
<1> QED
  BY <1>1, TypeCorrect, WindowHistoryInvariant, PTL

-----------------------------------------------------------------------------
(***************************************************************************)
(* The API                                                                 *)
(***************************************************************************)

\* The API drives the watchdog by the watchdog's own steps.
LEMMA ApiStepIsWatchdogStep ==
  ASSUME TypeOK, [ApiNext]_allVars
  PROVE  [Next]_vars
<1>1. CASE Supervise
  <2>1. CASE Start \/ Stop \/ FireSome \/ Tick
    BY <2>1 DEF Next
  <2>2. CASE \E s \in 1 .. created : ShellStop(s) \/ ShellStart(s)
    BY <2>2 DEF Next
  <2> QED  BY <1>1, <2>1, <2>2 DEF Supervise
<1>2. CASE PostProcess
  <2>1. CASE UNCHANGED vars
    BY <2>1
  <2>2. CASE status = "RUNNING" /\ shell # NoShell /\ ObserverError(shell)
    <3>1. shell \in 1 .. created
      BY <2>2 DEF TypeOK, NoShell
    <3> QED  BY <2>2, <3>1 DEF Next
  <2> QED  BY <1>2, <2>1, <2>2 DEF PostProcess, Refused, Served
<1>3. CASE UNCHANGED allVars
  BY <1>3 DEF allVars
<1> QED  BY <1>1, <1>2, <1>3 DEF ApiNext


\* The API's clients see the watchdog behave as its specification says: it
\* implements Watchdog's Spec, on the same variables.
THEOREM ApiImplementsWatchdog == ApiSpec => Spec
<1>1. ApiInit => Init /\ TypeOK
  BY WatchdogAssumption DEF ApiInit, Init, TypeOK, Status, NoShell
<1>2. TypeOK /\ [ApiNext]_allVars => [Next]_vars /\ TypeOK'
  BY ApiStepIsWatchdogStep, TypesKept
<1> QED  BY <1>1, <1>2, PTL DEF ApiSpec, Spec

\* ADR-002 at the API: no request is answered by a shell that is not running, and none
\* is refused for want of governance while the watchdog is RUNNING, for all faults and
\* restarts.
THEOREM GovernedRequests == ApiSpec => RequestsAreGoverned
<1>1. TypeOK /\ GovernedWhenRunning /\ [ApiNext]_allVars =>
        [(PostProcess /\ status = "RUNNING") =>
           /\ response' # "503 GOVERNANCE_UNAVAILABLE"
           /\ response' = "200" => shell \in running]_allVars
  <2> SUFFICES ASSUME GovernedWhenRunning, PostProcess, status = "RUNNING"
               PROVE  /\ response' # "503 GOVERNANCE_UNAVAILABLE"
                      /\ response' = "200" => shell \in running
    OBVIOUS
  <2>1. shell # NoShell /\ shell \in running
    BY DEF GovernedWhenRunning
  <2>2. response' \in {"400 INVALID_REQUEST", "200", "500"}
    BY <2>1 DEF PostProcess, Refused, Served
  <2> QED
    BY <2>1, <2>2
<1> QED
  BY <1>1, ApiImplementsWatchdog, TypeCorrect, GatedByShell, PTL
     DEF ApiSpec, RequestsAreGoverned

\* Behind the API a watchdog in FAIL_SAFE or STOPPED is revived by its owner only,
\* also if callers keep shells the watchdog forgot: without a request there is no
\* observer error, and a stopped shell is a crash only while the watchdog is RUNNING.
THEOREM ApiRevivedByOwner == ApiSpec => OnlyOwnerRevives
<1>1. [ApiNext]_allVars =>
        [(status \in {"FAIL_SAFE", "STOPPED"} /\ status' # status) => (Start \/ Stop)]_vars
  <2> SUFFICES ASSUME ApiNext, status \in {"FAIL_SAFE", "STOPPED"}, status' # status
               PROVE  Start \/ Stop
    BY DEF allVars
  <2>1. ~PostProcess
    BY DEF PostProcess, Refused, Served, vars
  <2>2. ASSUME NEW s \in 1 .. created, ShellStop(s) \/ ShellStart(s) PROVE FALSE
    BY <2>2 DEF ShellStop, ShellStart, StopIsCrash
  <2>3. ASSUME NEW t \in timers, Fire(t) PROVE FALSE
    BY <2>3 DEF Fire, RestartStillWanted
  <2>4. ~Tick
    BY DEF Tick
  <2> QED  BY <2>1, <2>2, <2>3, <2>4 DEF ApiNext, Supervise, FireSome
<1> QED  BY <1>1, PTL DEF ApiSpec, OnlyOwnerRevives

-----------------------------------------------------------------------------
(***************************************************************************)
(* One life of the watchdog                                                *)
(*                                                                         *)
(* Neither the unique handles nor the backoff are inductive.  What they    *)
(* rest on is that, until start() is called a second time, at most one     *)
(* timer is pending, that of the last crash, and that it lies later than   *)
(* every observation: a new shell, which counts from zero, never meets a   *)
(* request of its predecessor in the same millisecond.                     *)
(***************************************************************************)

ApiTypeOK ==
  /\ \A s \in DOMAIN counters : counters[s] \in Nat
  /\ issued \in Seq(Identity)

\* No observation lies in the future.
ObservedBefore == \A i \in DOMAIN issued : issued[i].observedAt <= now

\* Nothing has happened before the first call of start().
NotStarted == starts = 0 => status = "STOPPED" /\ timers = {} /\ issued = <<>>

\* While RUNNING no timer is pending.
NoneWhileRunning == status = "RUNNING" => timers = {}

\* While RESTARTING no more than one timer is pending, due after the backoff of the last
\* crash.
OneWhileRestarting ==
  status = "RESTARTING" =>
    /\ restarts # <<>>
    /\ \A t \in timers :
         /\ timers = {t}
         /\ t.due = restarts[Len(restarts)].time + restarts[Len(restarts)].backoff

\* The requests observed in the present millisecond have smaller ids than the next.
NextIsFresh ==
  status = "RUNNING" =>
    \A i \in DOMAIN issued : issued[i].observedAt = now => issued[i].requestId < Seen(shell) + 2

\* All observations are older than the restart that is pending.
ObservedBeforeRestart ==
  status = "RESTARTING" =>
    \A t \in timers : \A i \in DOMAIN issued : issued[i].observedAt < t.due

TimersInv == NotStarted /\ (starts <= 1 => NoneWhileRunning /\ OneWhileRestarting)

HandlesInv ==
  /\ ObservedBefore
  /\ starts <= 1 => NextIsFresh /\ ObservedBeforeRestart /\ HandlesAreUnique

LEMMA ApiTypesKept ==
  ASSUME TypeOK, ApiTypeOK, [ApiNext]_allVars
  PROVE  ApiTypeOK'
<1>1. CASE UNCHANGED <<counters, issued>>
  BY <1>1 DEF ApiTypeOK
<1>2. ASSUME NEW s, Observe(s) PROVE ApiTypeOK'
  <2>1. Seen(s) \in Nat /\ \A x \in DOMAIN counters : Seen(x) \in Nat
    BY DEF Seen, ApiTypeOK
  <2>2. [requestId |-> Seen(s) + 2, observedAt |-> now] \in Identity
    BY <2>1 DEF Identity, TypeOK
  <2>3. issued' \in Seq(Identity)
    BY <1>2, <2>2 DEF Observe, ApiTypeOK
  <2>4. \A x \in DOMAIN counters' : counters'[x] \in Nat
    BY <1>2, <2>1 DEF Observe
  <2> QED  BY <2>3, <2>4 DEF ApiTypeOK
<1> QED
  BY <1>1, <1>2 DEF ApiNext, Supervise, PostProcess, Refused, Served, allVars, apiVars

-----------------------------------------------------------------------------
(***************************************************************************)
(* The timers                                                              *)
(***************************************************************************)

\* A crash with no timer pending arms no more than one, for its own backoff.
LEMMA CrashArmsOne ==
  ASSUME TypeOK, HandleCrash({})
  PROVE  /\ status' \in {"RESTARTING", "FAIL_SAFE"}
         /\ OneWhileRestarting'
         /\ status' = "RESTARTING" =>
              \A t \in timers' : t.due \in Nat /\ t.due >= now + BaseBackoffMs
<1>1. CASE Exhausted
  BY <1>1 DEF HandleCrash, GiveUp, OneWhileRestarting
<1>2. CASE ~Exhausted
  <2>1. PICK listener \in RestartListeners : Announce({}, listener)
    BY <1>2 DEF HandleCrash
  <2> DEFINE r == [time |-> now, window |-> windowStart', attempt |-> Counted + 1,
                   backoff |-> Backoff(Counted), listener |-> listener]
             t == [attempt |-> Len(restarts) + 1, due |-> now + Backoff(Counted)]
  <2>2. status' = "RESTARTING" /\ timers' \subseteq {t} /\ restarts' = Append(restarts, r)
    BY <2>1 DEF Announce, Armed
  <2>3. Backoff(Counted) \in Nat /\ Backoff(Counted) >= BaseBackoffMs
    BY CountedType, BackoffAssumption
  <2>4. t.due \in Nat /\ t.due >= now + BaseBackoffMs
    BY <2>3, WatchdogAssumption DEF TypeOK
  <2>5. restarts' # <<>> /\ restarts'[Len(restarts')] = r
    BY <2>2 DEF TypeOK
  <2>6. t.due = r.time + r.backoff
    OBVIOUS
  <2> HIDE DEF r, t
  <2>7. \A u \in timers' : u = t /\ timers' = {u}
    BY <2>2
  <2> QED  BY <2>2, <2>4, <2>5, <2>6, <2>7 DEF OneWhileRestarting
<1> QED  BY <1>1, <1>2

\* So does a spawn that fails; one that succeeds leaves none.
LEMMA SpawnArmsOne ==
  ASSUME TypeOK, NEW outcome, Spawn({}, outcome)
  PROVE  /\ status' \in {"RUNNING", "RESTARTING", "FAIL_SAFE"}
         /\ NoneWhileRunning' /\ OneWhileRestarting'
         /\ status' = "RESTARTING" =>
              \A t \in timers' : t.due \in Nat /\ t.due >= now + BaseBackoffMs
<1>1. CASE outcome = "ok"
  BY <1>1 DEF Spawn, NoneWhileRunning, OneWhileRestarting
<1>2. CASE outcome # "ok"
  BY <1>2, CrashArmsOne DEF Spawn, NoneWhileRunning
<1> QED  BY <1>1, <1>2

\* What a step that is not a start(), a crash or a restart leaves alone.
LEMMA QuietTimers ==
  ASSUME TimersInv, UNCHANGED <<status, timers, restarts, issued>>, starts' = starts
  PROVE  TimersInv'
BY DEF TimersInv, NotStarted, NoneWhileRunning, OneWhileRestarting

LEMMA TimersInvNext ==
  ASSUME TypeOK, TimersInv, [ApiNext]_allVars
  PROVE  TimersInv'
<1>1. CASE Start /\ UNCHANGED apiVars
  <2>1. PICK outcome \in SpawnOutcomes : Spawn(timers, outcome)
    BY <1>1 DEF Start
  <2>2. starts' = starts + 1 /\ starts \in Nat
    BY <1>1 DEF Start, TypeOK
  <2>3. ASSUME starts' <= 1 PROVE NoneWhileRunning' /\ OneWhileRestarting'
    <3>1. timers = {}
      BY <2>2, <2>3 DEF TimersInv, NotStarted
    <3> QED  BY <2>1, <3>1, SpawnArmsOne
  <2> QED  BY <2>2, <2>3 DEF TimersInv, NotStarted
<1>2. CASE Stop /\ UNCHANGED apiVars
  BY <1>2 DEF Stop, TimersInv, NotStarted, NoneWhileRunning, OneWhileRestarting, apiVars
<1>3. ASSUME NEW s \in 1 .. created, ShellStop(s), UNCHANGED apiVars PROVE TimersInv'
  <2>1. CASE StopIsCrash
    <3>1. starts # 0 /\ starts' = starts
      BY <1>3, <2>1 DEF ShellStop, StopIsCrash, TimersInv, NotStarted
    <3>2. ASSUME starts <= 1 PROVE NoneWhileRunning' /\ OneWhileRestarting'
      <4>1. HandleCrash({})
        BY <1>3, <2>1, <3>2 DEF ShellStop, StopIsCrash, TimersInv, NoneWhileRunning
      <4> QED  BY <4>1, CrashArmsOne DEF NoneWhileRunning
    <3> QED  BY <3>1, <3>2 DEF TimersInv, NotStarted
  <2>2. CASE ~StopIsCrash
    BY <1>3, <2>2, QuietTimers DEF ShellStop, apiVars
  <2> QED  BY <2>1, <2>2
<1>4. ASSUME NEW s \in 1 .. created, ShellStart(s), UNCHANGED apiVars PROVE TimersInv'
  BY <1>4, QuietTimers DEF ShellStart, apiVars
<1>5. ASSUME NEW t \in timers, Fire(t), UNCHANGED apiVars PROVE TimersInv'
  <2>1. CASE RestartStillWanted
    <3>1. starts # 0 /\ starts' = starts
      BY <1>5, <2>1 DEF Fire, RestartStillWanted, TimersInv, NotStarted
    <3>2. PICK outcome \in SpawnOutcomes : Spawn(timers \ {t}, outcome)
      BY <1>5, <2>1 DEF Fire
    <3>3. ASSUME starts <= 1 PROVE NoneWhileRunning' /\ OneWhileRestarting'
      <4>1. timers \ {t} = {}
        BY <2>1, <3>3 DEF RestartStillWanted, TimersInv, OneWhileRestarting
      <4> QED  BY <3>2, <4>1, SpawnArmsOne
    <3> QED  BY <3>1, <3>3 DEF TimersInv, NotStarted
  <2>2. CASE ~RestartStillWanted
    <3>1. /\ timers' = timers \ {t} /\ timers # {}
          /\ status' = status /\ starts' = starts /\ status # "RESTARTING"
      BY <1>5, <2>2 DEF Fire, RestartStillWanted
    <3> QED
      BY <3>1 DEF TimersInv, NotStarted, NoneWhileRunning, OneWhileRestarting
  <2> QED  BY <2>1, <2>2
<1>6. CASE Tick /\ UNCHANGED apiVars
  BY <1>6, QuietTimers DEF Tick, apiVars
<1>7. CASE PostProcess
  <2>1. CASE UNCHANGED vars /\ UNCHANGED issued
    BY <2>1, QuietTimers DEF vars
  <2>2. CASE status = "RUNNING" /\ UNCHANGED vars
    BY <2>2 DEF vars, TimersInv, NotStarted, NoneWhileRunning, OneWhileRestarting
  <2>3. CASE status = "RUNNING" /\ ObserverError(shell)
    <3>1. starts # 0 /\ starts' = starts
      BY <2>3 DEF ObserverError, TimersInv, NotStarted
    <3>2. ASSUME starts <= 1 PROVE NoneWhileRunning' /\ OneWhileRestarting'
      <4>1. HandleCrash({})
        BY <2>3, <3>2 DEF ObserverError, TimersInv, NoneWhileRunning
      <4> QED  BY <4>1, CrashArmsOne DEF NoneWhileRunning
    <3> QED  BY <3>1, <3>2 DEF TimersInv, NotStarted
  <2> QED  BY <1>7, <2>1, <2>2, <2>3 DEF PostProcess, Refused, Served
<1>8. CASE UNCHANGED allVars
  BY <1>8, QuietTimers DEF allVars, vars, apiVars
<1> QED
  BY <1>1, <1>2, <1>3, <1>4, <1>5, <1>6, <1>7, <1>8 DEF ApiNext, Supervise, FireSome

LEMMA TimersInvAlways == ApiSpec => [](TypeOK /\ TimersInv)
<1>1. ApiInit => TypeOK /\ TimersInv
  BY WatchdogAssumption DEF ApiInit, Init, TypeOK, Status, NoShell, TimersInv, NotStarted,
     NoneWhileRunning, OneWhileRestarting
<1>2. TypeOK /\ TimersInv /\ [ApiNext]_allVars => TypeOK' /\ TimersInv'
  BY ApiStepIsWatchdogStep, TypesKept, TimersInvNext
<1> QED  BY <1>1, <1>2, PTL DEF ApiSpec

\* Until start() is called again, no shell is restarted before the backoff of the last
\* crash is over, whatever crashes, failed spawns, stops and late timers came before.
THEOREM BackoffIsHonoured == ApiSpec => BackoffHonoured
<1>1. TypeOK /\ TimersInv /\ [ApiNext]_allVars =>
        [(FireSome /\ status = "RESTARTING" /\ starts = 1) =>
           LET last == restarts[Len(restarts)] IN now >= last.time + last.backoff]_vars
  <2> SUFFICES ASSUME TypeOK, TimersInv, status = "RESTARTING", starts = 1,
                      NEW t \in timers, Fire(t)
               PROVE  now >= restarts[Len(restarts)].time + restarts[Len(restarts)].backoff
    BY DEF FireSome
  <2>1. t.due = restarts[Len(restarts)].time + restarts[Len(restarts)].backoff
    BY DEF TimersInv, OneWhileRestarting
  <2>2. t.due <= now /\ t.due \in Nat /\ now \in Nat
    BY DEF Fire, TypeOK, Timer
  <2> QED  BY <2>1, <2>2
<1> QED  BY <1>1, TimersInvAlways, PTL DEF ApiSpec, BackoffHonoured

-----------------------------------------------------------------------------
(***************************************************************************)
(* The handles                                                             *)
(***************************************************************************)

\* The observations and what they are compared with.
LEMMA ObservationTypes ==
  ASSUME ApiTypeOK, NEW i \in DOMAIN issued
  PROVE  issued[i].observedAt \in Nat /\ issued[i].requestId \in Nat
<1>1. issued[i] \in Identity
  BY DEF ApiTypeOK
<1> QED  BY <1>1 DEF Identity

\* Observing a request on the shell the watchdog holds gives it an identity of its own.
LEMMA ObserveIsFresh ==
  ASSUME TypeOK, ApiTypeOK, HandlesInv, status = "RUNNING", Observe(shell), now' = now
  PROVE  /\ ObservedBefore'
         /\ starts <= 1 => HandlesAreUnique'
         /\ (starts <= 1 /\ shell' = shell) => NextIsFresh'
<1> DEFINE n == Len(issued)
           new == [requestId |-> Seen(shell) + 2, observedAt |-> now]
<1>1. Seen(shell) \in Nat /\ now \in Nat
  BY DEF Seen, ApiTypeOK, TypeOK
<1>2. /\ n \in Nat /\ DOMAIN issued = 1 .. n /\ DOMAIN issued' = 1 .. n + 1
      /\ issued'[n + 1] = new
      /\ \A i \in 1 .. n : issued'[i] = issued[i]
  BY DEF Observe, ApiTypeOK
<1>3. \A i \in 1 .. n : issued[i].observedAt \in Nat /\ issued[i].requestId \in Nat
  BY <1>2, ObservationTypes
<1>4. Seen(shell)' = Seen(shell) + 1 \/ shell' # shell
  BY DEF Observe, Seen
<1>5. new.requestId = Seen(shell) + 2 /\ new.observedAt = now
  OBVIOUS
<1> HIDE DEF n, new
<1>6. ObservedBefore'
  <2> SUFFICES ASSUME NEW i \in 1 .. n + 1 PROVE issued'[i].observedAt <= now
    BY <1>2 DEF ObservedBefore
  <2>1. CASE i = n + 1
    BY <1>1, <1>2, <1>5, <2>1
  <2>2. CASE i \in 1 .. n
    BY <1>2, <2>2 DEF HandlesInv, ObservedBefore
  <2> QED  BY <1>2, <2>1, <2>2
<1>7. ASSUME starts <= 1 PROVE HandlesAreUnique'
  <2>1. ASSUME NEW i \in 1 .. n PROVE issued[i] # new
    <3>1. issued[i].observedAt = now => issued[i].requestId < Seen(shell) + 2
      BY <1>2, <1>7 DEF HandlesInv, NextIsFresh
    <3>2. issued[i].requestId < Seen(shell) + 2 => issued[i].requestId # new.requestId
      BY <1>1, <1>3, <1>5
    <3> QED  BY <1>5, <3>1, <3>2
  <2>2. \A i, j \in 1 .. n : issued[i] = issued[j] => i = j
    BY <1>2, <1>7 DEF HandlesInv, HandlesAreUnique
  <2> SUFFICES ASSUME NEW i \in 1 .. n + 1, NEW j \in 1 .. n + 1, issued'[i] = issued'[j]
               PROVE  i = j
    BY <1>2 DEF HandlesAreUnique
  <2>3. CASE i \in 1 .. n /\ j \in 1 .. n
    BY <1>2, <2>2, <2>3
  <2>4. CASE i \in 1 .. n /\ j = n + 1
    BY <1>2, <2>1, <2>4
  <2>5. CASE i = n + 1 /\ j \in 1 .. n
    BY <1>2, <2>1, <2>5
  <2> QED  BY <1>2, <2>3, <2>4, <2>5
<1>8. ASSUME starts <= 1, shell' = shell PROVE NextIsFresh'
  <2> SUFFICES ASSUME NEW i \in 1 .. n + 1, issued'[i].observedAt = now
               PROVE  issued'[i].requestId < Seen(shell) + 3
    BY <1>1, <1>2, <1>4, <1>8 DEF NextIsFresh
  <2>1. CASE i = n + 1
    BY <1>1, <1>2, <1>5, <2>1
  <2>2. CASE i \in 1 .. n
    <3>1. issued[i].requestId < Seen(shell) + 2
      BY <1>2, <1>8, <2>2 DEF HandlesInv, NextIsFresh
    <3> QED  BY <1>1, <1>2, <1>3, <2>2, <3>1
  <2> QED  BY <1>2, <2>1, <2>2
<1> QED  BY <1>6, <1>7, <1>8

\* A crash with no timer pending schedules the restart later than all observations.
LEMMA CrashIsLater ==
  ASSUME TypeOK, ApiTypeOK', ObservedBefore', BaseBackoffMs > 0, HandleCrash({}), now' = now
  PROVE  NextIsFresh' /\ ObservedBeforeRestart'
<1>1. status' # "RUNNING"
  BY CrashArmsOne
<1>2. ASSUME status' = "RESTARTING", NEW t \in timers', NEW i \in DOMAIN issued'
      PROVE  issued'[i].observedAt < t.due
  <2>1. t.due \in Nat /\ t.due >= now + BaseBackoffMs
    BY <1>2, CrashArmsOne
  <2>2. issued'[i].observedAt <= now
    BY <1>2 DEF ObservedBefore
  <2>3. issued'[i].observedAt \in Nat
    <3>1. issued'[i] \in Identity
      BY <1>2 DEF ApiTypeOK
    <3> QED  BY <3>1 DEF Identity
  <2> QED  BY <2>1, <2>2, <2>3, WatchdogAssumption DEF TypeOK
<1> QED  BY <1>1, <1>2 DEF NextIsFresh, ObservedBeforeRestart

\* A shell that is spawned with no timer pending, later than all observations, may
\* count from zero.
LEMMA SpawnIsLater ==
  ASSUME TypeOK, ApiTypeOK, ApiTypeOK', ObservedBefore, BaseBackoffMs > 0,
         NEW outcome, Spawn({}, outcome), now' = now, UNCHANGED issued,
         \A i \in DOMAIN issued : issued[i].observedAt < now
  PROVE  NextIsFresh' /\ ObservedBeforeRestart'
<1>1. CASE outcome = "ok"
  <2>1. status' = "RUNNING"
    BY <1>1 DEF Spawn
  <2>2. \A i \in DOMAIN issued : issued[i].observedAt # now
    BY ObservationTypes DEF TypeOK
  <2> QED  BY <2>1, <2>2 DEF NextIsFresh, ObservedBeforeRestart
<1>2. CASE outcome # "ok"
  <2>1. HandleCrash({})
    BY <1>2 DEF Spawn
  <2>2. ObservedBefore'
    BY DEF ObservedBefore
  <2> QED  BY <2>1, <2>2, CrashIsLater
<1> QED  BY <1>1, <1>2

\* A step that observes nothing and neither crashes nor restarts.
LEMMA QuietHandles ==
  ASSUME HandlesInv, UNCHANGED <<issued, counters, now>>, starts' = starts,
         status' = "RUNNING" => status = "RUNNING" /\ shell' = shell,
         status' = "RESTARTING" => status = "RESTARTING" /\ timers' = timers
  PROVE  HandlesInv'
BY DEF HandlesInv, ObservedBefore, NextIsFresh, ObservedBeforeRestart, HandlesAreUnique, Seen

LEMMA HandlesInvNext ==
  ASSUME BaseBackoffMs > 0, TypeOK, GovernedWhenRunning, ApiTypeOK, ApiTypeOK', TimersInv,
         HandlesInv, [ApiNext]_allVars
  PROVE  HandlesInv'
<1>1. ASSUME UNCHANGED <<issued, now>> PROVE ObservedBefore' /\ (starts <= 1 => HandlesAreUnique')
  BY <1>1 DEF HandlesInv, ObservedBefore, HandlesAreUnique
<1>2. CASE Start /\ UNCHANGED apiVars
  <2>1. PICK outcome \in SpawnOutcomes : Spawn(timers, outcome)
    BY <1>2 DEF Start
  <2>2. starts' = starts + 1 /\ starts \in Nat /\ UNCHANGED <<issued, now>>
    BY <1>2 DEF Start, TypeOK, apiVars
  <2>3. ASSUME starts' <= 1 PROVE NextIsFresh' /\ ObservedBeforeRestart'
    <3>1. timers = {} /\ issued = <<>>
      BY <2>2, <2>3 DEF TimersInv, NotStarted
    <3>2. \A i \in DOMAIN issued : issued[i].observedAt < now
      BY <3>1
    <3> QED  BY <2>1, <2>2, <3>1, <3>2, SpawnIsLater DEF HandlesInv
  <2>4. starts' <= 1 => starts <= 1
    BY <2>2
  <2> QED  BY <1>1, <2>2, <2>3, <2>4 DEF HandlesInv
<1>3. CASE Stop /\ UNCHANGED apiVars
  BY <1>3, QuietHandles DEF Stop, apiVars
<1>4. ASSUME NEW s \in 1 .. created, ShellStop(s), UNCHANGED apiVars PROVE HandlesInv'
  <2>1. UNCHANGED <<issued, counters, now, starts>>
    BY <1>4 DEF ShellStop, apiVars
  <2>2. CASE StopIsCrash
    <3>1. ASSUME starts <= 1 PROVE NextIsFresh' /\ ObservedBeforeRestart'
      <4>1. HandleCrash({})
        BY <1>4, <2>2, <3>1 DEF ShellStop, StopIsCrash, TimersInv, NoneWhileRunning
      <4> QED  BY <1>1, <2>1, <4>1, CrashIsLater
    <3> QED  BY <1>1, <2>1, <3>1 DEF HandlesInv
  <2>3. CASE ~StopIsCrash
    BY <1>4, <2>1, <2>3, QuietHandles DEF ShellStop
  <2> QED  BY <2>2, <2>3
<1>5. ASSUME NEW s \in 1 .. created, ShellStart(s), UNCHANGED apiVars PROVE HandlesInv'
  BY <1>5, QuietHandles DEF ShellStart, apiVars
<1>6. ASSUME NEW t \in timers, Fire(t), UNCHANGED apiVars PROVE HandlesInv'
  <2>1. UNCHANGED <<issued, counters, now, starts>>
    BY <1>6 DEF Fire, apiVars
  <2>2. CASE RestartStillWanted
    <3>1. PICK outcome \in SpawnOutcomes : Spawn(timers \ {t}, outcome)
      BY <1>6, <2>2 DEF Fire
    <3>2. ASSUME starts <= 1 PROVE NextIsFresh' /\ ObservedBeforeRestart'
      <4>1. timers \ {t} = {}
        BY <2>2, <3>2 DEF RestartStillWanted, TimersInv, OneWhileRestarting
      <4>2. t.due <= now /\ t.due \in Nat /\ now \in Nat
        BY <1>6 DEF Fire, TypeOK, Timer
      <4>3. ASSUME NEW i \in DOMAIN issued PROVE issued[i].observedAt < now
        <5>1. issued[i].observedAt < t.due
          BY <1>6, <2>2, <3>2 DEF RestartStillWanted, HandlesInv, ObservedBeforeRestart
        <5>2. issued[i].observedAt \in Nat
          BY ObservationTypes
        <5> QED  BY <4>2, <5>1, <5>2
      <4> QED  BY <2>1, <3>1, <4>1, <4>3, SpawnIsLater DEF HandlesInv
    <3> QED  BY <1>1, <2>1, <3>2 DEF HandlesInv
  <2>3. CASE ~RestartStillWanted
    BY <1>6, <2>1, <2>3, QuietHandles DEF Fire, RestartStillWanted
  <2> QED  BY <2>2, <2>3
<1>7. CASE Tick /\ UNCHANGED apiVars
  <2>1. now' = now + 1 /\ UNCHANGED <<issued, counters, status, shell, timers, starts>>
    BY <1>7 DEF Tick, apiVars
  <2>2. \A i \in DOMAIN issued : issued[i].observedAt <= now' /\ issued[i].observedAt # now'
    BY <2>1, ObservationTypes DEF HandlesInv, ObservedBefore, TypeOK
  <2> QED
    BY <2>1, <2>2
       DEF HandlesInv, ObservedBefore, NextIsFresh, ObservedBeforeRestart, HandlesAreUnique
<1>8. CASE PostProcess
  <2>1. CASE UNCHANGED <<vars, counters, issued>>
    BY <2>1, QuietHandles DEF vars
  <2>2. CASE status = "RUNNING" /\ Observe(shell) /\ UNCHANGED vars
    <3>1. ObservedBeforeRestart'
      BY <2>2 DEF ObservedBeforeRestart, vars
    <3>2. now' = now /\ shell' = shell /\ starts' = starts
      BY <2>2 DEF vars
    <3> QED  BY <2>2, <3>1, <3>2, ObserveIsFresh DEF HandlesInv
  <2>3. CASE status = "RUNNING" /\ Observe(shell) /\ ObserverError(shell)
    <3>1. now' = now /\ starts' = starts
      BY <2>3 DEF ObserverError
    <3>2. ObservedBefore' /\ (starts <= 1 => HandlesAreUnique')
      BY <2>3, <3>1, ObserveIsFresh
    <3>3. ASSUME starts <= 1 PROVE NextIsFresh' /\ ObservedBeforeRestart'
      <4>1. HandleCrash({})
        BY <2>3, <3>3 DEF ObserverError, TimersInv, NoneWhileRunning
      <4> QED  BY <3>1, <3>2, <4>1, CrashIsLater
    <3> QED  BY <3>1, <3>2, <3>3 DEF HandlesInv
  <2> QED  BY <1>8, <2>1, <2>2, <2>3 DEF PostProcess, Refused, Served
<1>9. CASE UNCHANGED allVars
  BY <1>9, QuietHandles DEF allVars, vars, apiVars
<1> QED
  BY <1>2, <1>3, <1>4, <1>5, <1>6, <1>7, <1>8, <1>9 DEF ApiNext, Supervise, FireSome

\* Evidence handles are unique although every shell counts its requests from zero,
\* for every positive backoff, every mix of faults, and any number of restarts, until
\* start() is called a second time.
THEOREM UniqueHandles ==
  ASSUME BaseBackoffMs > 0
  PROVE  ApiSpec => []HandlesAreUnique
<1>1. ApiInit => ApiTypeOK /\ HandlesInv
  BY DEF ApiInit, Init, ApiTypeOK, HandlesInv, ObservedBefore, NextIsFresh,
     ObservedBeforeRestart, HandlesAreUnique
<1>2. TypeOK /\ ApiTypeOK /\ [ApiNext]_allVars => ApiTypeOK'
  BY ApiTypesKept
<1>3. /\ TypeOK /\ GovernedWhenRunning /\ ApiTypeOK /\ ApiTypeOK' /\ TimersInv
      /\ HandlesInv /\ [ApiNext]_allVars
      => HandlesInv'
  BY HandlesInvNext
<1>4. HandlesInv => HandlesAreUnique
  BY DEF HandlesInv, HandlesAreUnique
<1> QED
  BY <1>1, <1>2, <1>3, <1>4, TimersInvAlways, ApiImplementsWatchdog, GatedByShell, PTL
     DEF ApiSpec

=============================================================================
