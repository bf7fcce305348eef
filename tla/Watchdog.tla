------------------------------ MODULE Watchdog ------------------------------
(***************************************************************************)
(* The supervisor of the governance shell: Watchdog (watchdog.ts) and the  *)
(* life cycle of the ShellLoop instances it creates (shell-loop.ts,        *)
(* observer.ts).                                                           *)
(*                                                                         *)
(* A shell instance is known by its number of creation: 1, 2, ...  The     *)
(* watchdog only remembers one of them (this.shell).  An instance that it  *)
(* forgets is never stopped and keeps its listeners, so `running' tells    *)
(* of every instance ever created whether it still accepts requests.       *)
(*                                                                         *)
(* Every handler runs to completion on the one JavaScript thread, so it is *)
(* one action.  Time is counted in units of the caller's choice; a pending *)
(* setTimeout is a record in `timers' and may run up to MaxLag units late. *)
(***************************************************************************)
EXTENDS Integers, Sequences, FiniteSets

CONSTANTS
  MaxRestarts,    \* config.maxRestarts (3 in the server)
  WindowMs,       \* config.windowMs (60 000 in the server)
  BaseBackoffMs,  \* config.baseBackoffMs (500 in the server)
  SpawnOutcomes,  \* what `new ShellLoop' and the watchdog:running listeners may do
  RestartListeners, \* what the watchdog:restarting listeners may do
  ObserverFaults, \* whether the observer may emit observer:error
  StaleCallers,   \* whether callers keep and use shells the watchdog forgot
  MaxLag,         \* how late a due timer may run
  MaxStarts,      \* bound: calls of start()
  Horizon         \* bound: no fault and no call of start() from this time on

Outcomes == {"ok", "constructor throws", "listener throws"}

ListenerBehaviours == {"fine", "throws"}

ASSUME WatchdogAssumption ==
  /\ MaxRestarts \in Nat
  /\ WindowMs \in Nat
  /\ BaseBackoffMs \in Nat
  /\ SpawnOutcomes \subseteq Outcomes
  /\ RestartListeners \subseteq ListenerBehaviours
  /\ "fine" \in RestartListeners
  /\ ObserverFaults \in BOOLEAN
  /\ StaleCallers \in BOOLEAN
  /\ MaxLag \in Nat
  /\ MaxStarts \in Nat
  /\ Horizon \in Nat

\* The delay before an attempt when `count' restarts were made in this window.
Backoff(count) == BaseBackoffMs * 2 ^ count

\* No delay is shorter than the first: a fact of arithmetic the provers lack.
ASSUME BackoffAssumption ==
  \A count \in 0 .. MaxRestarts : Backoff(count) \in Nat /\ Backoff(count) >= BaseBackoffMs

VARIABLES
  status,        \* this.status
  shell,         \* this.shell: an instance, or NoShell
  created,       \* how many ShellLoop instances were constructed
  running,       \* the instances whose running flag is set
  restartCount,  \* this.restartCount
  windowStart,   \* this.windowStart
  timers,        \* the pending restart timers
  restarts,      \* the watchdog:restarting notifications, oldest first
  starts,        \* how often start() was called
  now            \* Date.now()

vars == <<status, shell, created, running, restartCount, windowStart,
          timers, restarts, starts, now>>

Status == {"RUNNING", "RESTARTING", "FAIL_SAFE", "STOPPED"}

NoShell == 0

Timer == [attempt : Nat, due : Nat]

\* A notification, with the time it was emitted at, the window it counts in, and what
\* became of it.
Restart ==
  [time : Nat, window : Nat, attempt : Nat, backoff : Nat, listener : ListenerBehaviours]

Init ==
  /\ status = "STOPPED"
  /\ shell = NoShell
  /\ created = 0
  /\ running = {}
  /\ restartCount = 0
  /\ windowStart = 0
  /\ timers = {}
  /\ restarts = <<>>
  /\ starts = 0
  /\ now = 0

-----------------------------------------------------------------------------
(***************************************************************************)
(* _handleCrash and _spawnShell                                            *)
(***************************************************************************)

\* Mutant: the window is taken to be over as soon as time has passed.
WindowExpired_Early == now > windowStart

WindowExpired == now - windowStart > WindowMs

Counted == IF WindowExpired THEN 0 ELSE restartCount

\* Mutant: the limit is compared one too high.
Exhausted_OffByOne == Counted > MaxRestarts

Exhausted == Counted >= MaxRestarts

\* Mutant: the early return forgets to set the status.
GiveUp_Silent == UNCHANGED status

GiveUp == status' = "FAIL_SAFE"

\* Mutants: no timer is armed; the delay is always that of the first attempt.
Armed_Not(pending) == pending

Armed_Undoubled(pending) ==
  pending \cup {[attempt |-> Len(restarts) + 1, due |-> now + Backoff(0)]}

\* The timers once the next attempt is scheduled on top of the pending ones.
Armed(pending) ==
  pending \cup {[attempt |-> Len(restarts) + 1, due |-> now + Backoff(Counted)]}

\* Mutant: the crashed shell is not forgotten.
Forget_Not == UNCHANGED shell

Forget == shell' = NoShell

\* The next attempt is counted and announced before its timer is armed: a listener that
\* throws leaves by way of the emission, and nothing is scheduled.
Announce(pending, listener) ==
  /\ status' = "RESTARTING"
  /\ restartCount' = Counted + 1
  /\ restarts' = Append(restarts, [time     |-> now,
                                   window   |-> windowStart',
                                   attempt  |-> Counted + 1,
                                   backoff  |-> Backoff(Counted),
                                   listener |-> listener])
  /\ timers' = IF listener = "fine" THEN Armed(pending) ELSE pending

\* _handleCrash, with the timers that are pending when it is called.
HandleCrash(pending) ==
  /\ Forget
  /\ windowStart' = IF WindowExpired THEN now ELSE windowStart
  /\ \/ /\ Exhausted
        /\ GiveUp
        /\ restartCount' = Counted
        /\ timers' = pending
        /\ UNCHANGED restarts
     \/ /\ ~Exhausted
        /\ \E listener \in RestartListeners : Announce(pending, listener)

\* _spawnShell: a failure anywhere in it is a crash; one of a watchdog:running
\* listener comes too late to undo the start of the new instance.
Spawn(pending, outcome) ==
  \/ /\ outcome = "ok"
     /\ created' = created + 1
     /\ running' = running \cup {created + 1}
     /\ shell' = created + 1
     /\ status' = "RUNNING"
     /\ timers' = pending
     /\ UNCHANGED <<restartCount, windowStart, restarts>>
  \/ /\ outcome = "constructor throws"
     /\ HandleCrash(pending)
     /\ UNCHANGED <<created, running>>
  \/ /\ outcome = "listener throws"
     /\ created' = created + 1
     /\ running' = running \cup {created + 1}
     /\ HandleCrash(pending)

-----------------------------------------------------------------------------
(***************************************************************************)
(* What the owner of the watchdog and the holders of shells do             *)
(***************************************************************************)

\* start(); a call that finds the watchdog RUNNING returns at once.
Start ==
  /\ starts < MaxStarts
  /\ now < Horizon
  /\ status # "RUNNING"
  /\ starts' = starts + 1
  /\ \E outcome \in SpawnOutcomes : Spawn(timers, outcome)
  /\ UNCHANGED now

\* stop(): the status changes first, so the shell:stopped of the watchdog's own
\* shell is not taken for a crash.  Timers stay pending.
Stop ==
  /\ status' = "STOPPED"
  /\ running' = running \ {shell}
  /\ shell' = NoShell
  /\ UNCHANGED <<created, restartCount, windowStart, timers, restarts, starts, now>>

Reachable(s) == s = shell \/ StaleCallers

\* Mutant: no one listens to shell:stopped.
StopIsCrash_Never == FALSE

\* The condition the shell:stopped listener tests.
StopIsCrash == status = "RUNNING"

\* ShellLoop.stop() by a holder of instance s: observer.stop(), running = false,
\* then shell:stopped, which the watchdog takes for a crash while it is RUNNING.
ShellStop(s) ==
  /\ now < Horizon
  /\ s \in running
  /\ Reachable(s)
  /\ running' = running \ {s}
  /\ \/ /\ StopIsCrash
        /\ HandleCrash(timers)
     \/ /\ ~StopIsCrash
        /\ UNCHANGED <<status, shell, restartCount, windowStart, timers, restarts>>
  /\ UNCHANGED <<created, starts, now>>

\* ShellLoop.start() by a holder of an instance that was stopped.
ShellStart(s) ==
  /\ now < Horizon
  /\ s \in (1 .. created) \ running
  /\ Reachable(s)
  /\ running' = running \cup {s}
  /\ UNCHANGED <<status, shell, created, restartCount, windowStart, timers,
                 restarts, starts, now>>

\* ShellLoop.process() on instance s when Observer.tap() catches an error: it
\* emits observer:error, the shell emits shell:fail-safe, and the watchdog's
\* listener calls _handleCrash whatever its status and whatever shell it was.
ObserverError(s) ==
  /\ ObserverFaults
  /\ now < Horizon
  /\ s \in running
  /\ Reachable(s)
  /\ HandleCrash(timers)
  /\ UNCHANGED <<created, running, starts, now>>

-----------------------------------------------------------------------------
(***************************************************************************)
(* Time                                                                    *)
(***************************************************************************)

\* Mutant: the timer restarts the shell whatever the status has become.
RestartStillWanted_Always == TRUE

\* The condition the timer's callback tests.
RestartStillWanted == status = "RESTARTING"

Fire(t) ==
  /\ t.due <= now
  /\ \/ /\ RestartStillWanted
        /\ \E outcome \in SpawnOutcomes : Spawn(timers \ {t}, outcome)
     \/ /\ ~RestartStillWanted
        /\ timers' = timers \ {t}
        /\ UNCHANGED <<status, shell, created, running, restartCount,
                       windowStart, restarts>>
  /\ UNCHANGED <<starts, now>>

FireSome == \E t \in timers : Fire(t)

\* One unit of time passes.  Beyond the horizon it passes for the timers only.
Tick ==
  /\ \A t \in timers : now < t.due + MaxLag
  /\ now < Horizon \/ timers # {}
  /\ now' = now + 1
  /\ UNCHANGED <<status, shell, created, running, restartCount, windowStart,
                 timers, restarts, starts>>

Next ==
  \/ Start
  \/ Stop
  \/ \E s \in 1 .. created : ShellStop(s) \/ ShellStart(s) \/ ObserverError(s)
  \/ FireSome
  \/ Tick

Spec == Init /\ [][Next]_vars

\* The event loop runs timers that are due, and time passes.
Fairness == WF_vars(FireSome) /\ WF_vars(Tick)

FairSpec == Spec /\ Fairness

-----------------------------------------------------------------------------
(***************************************************************************)
(* Properties                                                              *)
(***************************************************************************)

\* The types of the variables.
TypeOK ==
  /\ status \in Status
  /\ shell \in 0 .. created
  /\ created \in Nat
  /\ running \subseteq 1 .. created
  /\ restartCount \in 0 .. MaxRestarts
  /\ windowStart \in 0 .. now
  /\ timers \subseteq Timer
  /\ restarts \in Seq(Restart)
  /\ starts \in Nat
  /\ now \in Nat

\* ADR-002: the core cannot serve output without an active governance shell.
\* The API gates on the status, then calls the shell it finds: at no time, and
\* whatever forgotten shells and late timers do, is the watchdog RUNNING
\* without a shell that accepts requests, or holding a shell otherwise.
GovernedWhenRunning ==
  /\ status = "RUNNING" <=> shell # NoShell
  /\ shell # NoShell => shell \in running

\* The newest announcement was cut short by a listener.
Interrupted == restarts # <<>> /\ restarts[Len(restarts)].listener = "throws"

\* A restart that was announced is lost in one way only.  While the watchdog is
\* RESTARTING the timer of the newest announcement is pending, though start() and
\* stop() may have been called in between and older timers may be pending as well,
\* unless a listener of that very announcement threw: the timer is armed after the
\* emission, and nothing makes up for it.
RestartIsPending ==
  status = "RESTARTING" =>
    Interrupted \/ \E t \in timers : t.attempt = Len(restarts)

\* The fixed window (restartCount, windowStart) bounds the rate of restarts: of
\* 2 * MaxRestarts + 1 successive restarts, the first and the last are more
\* than a window apart, with any mix of crashes, late timers and calls of
\* start() and stop(), none of which reset the count.
RestartRate ==
  \A i, j \in 1 .. Len(restarts) :
    j = i + 2 * MaxRestarts => restarts[j].time - restarts[i].time > WindowMs

\* While callers only use the shell the watchdog hands out, neither a pending
\* timer nor a shell revives a watchdog that is in FAIL_SAFE ("permanently until
\* manual intervention") or that was stopped: only its owner does.
OnlyOwnerRevives ==
  [][(status \in {"FAIL_SAFE", "STOPPED"} /\ status' # status) => (Start \/ Stop)]_vars

\* "Exponential backoff: 500ms -> 1000ms -> 2000ms" (watchdog.ts:17): until start() is
\* called again, a timer never restarts the shell before the backoff of the last
\* crash is over.  A second start() may leave the timer of an earlier crash
\* pending, which then cuts the backoff of a later one short.
BackoffHonoured ==
  [][(FireSome /\ status = "RESTARTING" /\ starts = 1) =>
       LET last == restarts[Len(restarts)] IN now >= last.time + last.backoff]_vars

\* Nor does the watchdog stay in RESTARTING, unless its announcement is interrupted: a
\* timer runs, and the shell is running again, or the limit is reached, or the owner
\* stopped it.
RestartCompletes ==
  status = "RESTARTING" ~> (status # "RESTARTING" \/ Interrupted)

\* If no shell ever comes up, a watchdog that was started ends in FAIL_SAFE, unless
\* its owner stops it or an announcement is interrupted: the window must not end
\* again and again before the limit is reached.
FailureIsFinal ==
  [](created = 0 /\ ~Interrupted) => (starts > 0 ~> status \in {"FAIL_SAFE", "STOPPED"})

=============================================================================
