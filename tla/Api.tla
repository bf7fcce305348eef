-------------------------------- MODULE Api --------------------------------
(***************************************************************************)
(* POST /v1/process of the API server (api/src/server.ts) in front of the  *)
(* watchdog and its shells, and the identities that the Observer of each   *)
(* shell gives to the requests it sees (observer.ts, core/engine/ids.ts).  *)
(*                                                                         *)
(* The watchdog's own steps are those of Watchdog.tla.  A request is       *)
(* served synchronously, so the status, the shell and the clock it sees    *)
(* are those of one state.  An evidence handle is a hash of the request id *)
(* and the millisecond of the observation: equal handles stand for equal   *)
(* pairs, and collisions of the 32-bit hash are left out.                  *)
(***************************************************************************)
EXTENDS Watchdog

CONSTANT MaxRequests  \* bound: requests seen by the shells altogether

ASSUME ApiAssumption == MaxRequests \in Nat

VARIABLES
  counters,  \* the requestCounter of each shell's Observer
  issued,    \* the identities of the requests observed, oldest first
  response   \* the last response of the API

apiVars == <<counters, issued, response>>

allVars == <<vars, apiVars>>

Identity == [requestId : Nat, observedAt : Nat]

ApiInit ==
  /\ Init
  /\ counters = [s \in {} |-> 0]
  /\ issued = <<>>
  /\ response = "none"

-----------------------------------------------------------------------------

\* How many requests shell s has seen; a new shell starts from zero.
Seen(s) == IF s \in DOMAIN counters THEN counters[s] ELSE 0

\* Mutant: the counter is not incremented.
Observe_Stuck(s) ==
  /\ UNCHANGED counters
  /\ issued' = Append(issued, [requestId |-> Seen(s) + 2, observedAt |-> now])

\* tap(): the counter is incremented, and generateRequestId increments its seed
\* once more.
Observe(s) ==
  /\ Len(issued) < MaxRequests
  /\ counters' = [x \in DOMAIN counters \cup {s} |-> IF x = s THEN Seen(s) + 1 ELSE Seen(x)]
  /\ issued' = Append(issued, [requestId |-> Seen(s) + 2, observedAt |-> now])

Refused(answer) ==
  /\ response' = answer
  /\ UNCHANGED <<vars, counters, issued>>

\* The emission on which the watchdog took up the crash left by an exception.
CrashThrew == restarts' # restarts /\ restarts'[Len(restarts')].listener = "throws"

\* The shell answers, be it with a FAIL_SAFE verdict when its observer fails; the
\* watchdog takes that for a crash, and a listener that throws there takes the
\* answer with it.
Served(s) ==
  \/ /\ IF s \in running THEN Observe(s) ELSE UNCHANGED <<counters, issued>>
     /\ response' = "200"
     /\ UNCHANGED vars
  \/ /\ ObserverError(s)
     /\ Observe(s)
     /\ response' = IF CrashThrew THEN "500" ELSE "200"

\* The status is looked at first, then the body, which may be malformed, then the shell.
PostProcess ==
  \/ /\ status \in {"FAIL_SAFE", "STOPPED"} \/ (status = "RUNNING" /\ shell = NoShell)
     /\ Refused("503 GOVERNANCE_UNAVAILABLE")
  \/ /\ status = "RESTARTING"
     /\ Refused("503 GOVERNANCE_RESTARTING")
  \/ /\ status = "RUNNING"
     /\ Refused("400 INVALID_REQUEST")
  \/ /\ status = "RUNNING" /\ shell # NoShell
     /\ Served(shell)

\* The watchdog's steps, except observer errors: they need a request.
Supervise ==
  /\ \/ Start
     \/ Stop
     \/ \E s \in 1 .. created : ShellStop(s) \/ ShellStart(s)
     \/ FireSome
     \/ Tick
  /\ UNCHANGED apiVars

ApiNext == Supervise \/ PostProcess

ApiSpec == ApiInit /\ [][ApiNext]_allVars

-----------------------------------------------------------------------------
(***************************************************************************)
(* Properties                                                              *)
(***************************************************************************)

\* The API never hands a request to a shell that is not running, and never answers that
\* governance is unavailable while the watchdog is RUNNING: its two checks, of the status
\* and of the shell, agree after any crash, restart or stop.
RequestsAreGoverned ==
  [][(PostProcess /\ status = "RUNNING") =>
       /\ response' # "503 GOVERNANCE_UNAVAILABLE"
       /\ response' = "200" => shell \in running]_allVars

\* Evidence handles are unique although every shell counts from zero again: a
\* shell that replaces another one starts at least a backoff later, so equal
\* request ids meet different timestamps.  It takes a positive backoff, and no
\* second call of start(), which replaces a shell within the same millisecond.
HandlesAreUnique ==
  starts <= 1 =>
    \A i, j \in DOMAIN issued : issued[i] = issued[j] => i = j

=============================================================================
