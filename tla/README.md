# Formal models of NCAOS / Urielle

TLA+ models of the Enforced Governance Shell (`src/egs`) and its API, with the TLC
configurations that check them on small instances and TLAPS proofs of the most
important properties for every value of the constants. `PROJECT.json` lists the
components, runs, mutants, hazards and theorems, and for every definition the lines of
`src/` it stands for.

    tlc -workers 2 -config Watchdog_faults.cfg Watchdog.tla
    tlapm ApiProofs.tla

## 1. The system

The program is a TypeScript monorepo: a governance shell that judges every request
(`egs/core`, `egs/shell`), detectors (`egs/detection`), an HTTP and WebSocket server
(`egs/api`), an audit layer that reads what the server recorded (`urielle`), helpers
for deployment (`egs/hardening`), a chaos harness and a React UI. Every process is one
JavaScript thread. Handlers run to completion; what interleaves is handlers, timers,
callbacks and clients.

| component | state | operations | what makes it correct |
|---|---|---|---|
| Watchdog (`shell/src/watchdog`) | status, shell, restartCount, windowStart, timers nobody clears | start, stop, crash, spawn, timer | RUNNING exactly when a shell accepts requests; no restart lost; bounded rate of restarts; FAIL_SAFE is final |
| Shell loop, Observer (`shell/src`) | running flags, request counter | start, stop, process | one verdict per request; what is announced is what is returned |
| Judge, Enforcer, `core` | lastState; otherwise pure | four layers, aggregation, scores, metrics, verdict, routing | severe never passes; worse requests get no milder verdict and do not look better |
| Event store (`api/src/store/event-store.ts`) | log per tenant, index by handle, index by workflow, counters | append with eviction, lookups, paging, statistics, clear, summary | the indexes implement one log; paging complete and finite; a summary says what happened |
| Policy store, detector registry, MTTD trackers | active policy, history, cached detector sets, ring buffers | setActive, get, reset, record | nothing cached is stale; history exact; percentiles are ranks |
| API server (`api/src/server.ts`) | the one shell, response, sockets | process, policy, events, sequences, mttd, detectors, state stream | never serves without a running shell; evidence handles are unique; pages are told the newest state |
| Rate limiter, JWT (`hardening/src/jwt`) | token bucket per tenant | check, verifyJwt | no more than burst and rate; no undue refusal; 429's promise kept; no one pays for another's request |
| Detectors (`detection/src`) | rules; premise registry; audit log; last score; the caller's change window | detect, addRule, register, clear | tenants apart; rules never soften; authority never rises; a window follows its history |
| Audit signals (`audit-signal/src`), Urielle (`urielle/src`) | none, or a report | convert, parse, findings, posture, controls, latencies, report | graded alike on both sides; nothing told is taken back; each event counted once |
| UI (`ui/src`) | the live state, connected or not | the state stream; views | it is shown the newest state |
| chaos harness, registers, pilots, demos, `docs/` snapshots | scripts, tables | | not modelled |

How they interact: the server calls `watchdog.start()` once and reads
`watchdog.status` and `watchdog.shell` on each request. The watchdog creates shells and
listens to their `shell:fail-safe` and `shell:stopped`. A shell runs Observer, Judge and
Enforcer in turn and emits each output; the server's listener of that event stores it
in the event store and sends its state to the sockets, and the handler of the request
stores it a second time, from the value returned. The policy store emits
`policy:changed`, on which the registry of detector sets recreates the tenant's
detectors and trackers, reading the policy back. Urielle has no connection of its own to
the server: whoever runs it reads records and summaries over HTTP, makes signals of them
and hands these in.

What is hard here, and in no test: timers that stay pending through `start()` and
`stop()`; listeners of a shell the watchdog has forgotten; exceptions thrown inside
listeners, in the middle of a spawn or an emission; a fixed window that counts
restarts; three indexes of a log kept in step by hand; clients paging, or reading a
sequence and its summary, while records come and go; SLAs copied out of a policy that
changes; arrays and registries that could be shared by tenants; state that callers carry
from call to call; sockets that close during a broadcast; a clock that is set back.

## 2. The modules

    Watchdog   <-- Api                  the supervisor; requests in front of it
    Judgment   <-- Shell <-- MCShell    how one request is decided; the shell loop
    EventStore <-- MCEventStore         the store and a client that pages; implements
    EventLog                              ... the log it promises (INSTANCE ... WITH)
    EventStore, AuditSignal, Urielle <-- Audit <-- MCAudit
    PolicyService <-- MCPolicyService
    GateDetector, PremiseDetector, AuthorityDetector, ContinuityDetector
               <-- DetectorSets <-- MCDetectorSets
    RateLimiter <-- Admission <-- MCAdmission
    StateStream
    Filtering                           Array.filter, for EventStore and Urielle
    ApiProofs (with the watchdog's), ShellProofs, PolicyServiceProofs, RateLimiterProofs,
    DetectorSetsProofs, StateStreamProofs, EventStoreProofs <-- AuditProofs

**Watchdog.** `status`, `shell`, `restartCount`, `windowStart` are the fields of the
class. A shell instance is its number of creation; `running` holds every instance ever
made that still accepts requests, since the watchdog forgets a crashed shell without
stopping it or removing its listeners. `timers` are the pending `setTimeout`s, which no
code clears, and `restarts` the `watchdog:restarting` notifications (history, for the
properties). `HandleCrash` and `Spawn` are `_handleCrash` and `_spawnShell`, shared by
the actions `Start`, `Stop`, `Fire` (a timer's callback), `ObserverError`, `ShellStop`
and `ShellStart`. A spawn succeeds, or its constructor throws, or a listener of
`watchdog:running` throws after the shell has been started. A listener of
`watchdog:restarting` may throw as well (`Announce`): it is told after the status was set and
the attempt counted, and before the timer is armed.

**Api** extends it with `POST /v1/process` and the identities of requests: `counters`
is each Observer's `requestCounter`, and `issued` the pairs of request id and timestamp
an evidence handle is the hash of. A malformed body is refused after the status was looked at;
an exception in the watchdog's crash handling, which runs inside `process()`, is answered 500.

**Judgment** has no state: the four layers, the fold over their results, the score
tables, the containment metrics with their rounding and clamps, the verdict, the output,
and the three built-in policies. **Shell** is the loop around it: `start`, `stop` and
`process`, with `emitted` for what subscribers saw during a call and `returned` for what
the caller got, and listeners that throw once or always.

**EventStore** keeps the four maps of the class as one record, `store`; `Appended`,
`Evict`, `getByHandle`, `getSequence`, `Clear`, `Source`, `Filtered`, `Page` (the three
parts of `query`) and `stats` are its methods; a record is an `EventRecord`, and `Filter`
is `Array.filter`, as a fold that tlapm can unfold (module **Filtering**). The client has the query it pages through and what it got. `Stored`
is what happens to one output. The constant `StoredUnder` says
under which tenants one output is appended: one (the store's own contract) or two, in
turn (what `server.ts:124` and `server.ts:211` do together). **EventLog** is what the
store promises, without an index: a bounded log for each tenant, numbered without a gap,
and a lookup that finds, for its tenant, the copy of an output that was stored last, while no
copy has left a log (`kept`). `EventStore!Log` maps the logs, the counters, the handles of
the index and the answers of `getByHandle` to it.

**AuditSignal** (the summary of a sequence, the signal made of a record and a summary,
EGS's schema and its level of evidence) and **Urielle** (the other schema, findings,
postures, control evidence, latencies, the tenant report) are operators only. **Audit**
puts them behind the store: whoever runs Urielle reads the records of a workflow, then
its summary, in two requests (`FetchRecords`, `FetchSummary`), between which `Store`
appends and evicts; `inputs` is what the next report is made of.

**PolicyService** is the policy store, the registry and the trackers together, as they
are wired by `policy:changed`. `changes` and `samples` are history variables.

**DetectorSets** is the registry again, with the four detectors each set holds (one
module of operators each): `shared` is the one array of default rules, `sets` the sets,
`granted` and `window` what callers carry from call to call, `added` and `tested`
history. The server creates and resets the sets and calls none of the detectors; the
calls are those the detectors' own tests make.

**RateLimiter** is the token bucket. Tokens are counted in units of 1/`Second`, which
makes the refill of `elapsed / 1000 * ratePerSec` a whole number. The code adds such products
up as doubles: ten refills of 0.1 tokens make 0.9999999999999999, which is refused where 1
is not. `short` says that a bucket holds less than its tokens by such an error, so small that
it decides only where the tokens are exactly enough; a sum may come out short or not
(`Shortfall`), a bucket that is capped holds the burst exactly. **Admission** puts
`verifyJwt` in front of it, in the order of ADR-007: a token is its claims and whether
its parts, signature and payload are sound; the requests are all combinations of token,
partner header and route.

**StateStream** is the socket route of the server and the page at its other end:
`shell` the state of the present shell, `readyState` and `up` the two ends' views of a
connection, `wire` what is on its way, `page` what is shown. A fail-safe state
(`enforcer.ts:82`) is broadcast like any other, but the shell does not keep it. Shells crash and restart,
connections break and lose what is on its way, each end notices in its own time.

## 3. The runs

| run | what it asks | instance |
|---|---|---|
| `watchdog_faults` | gate, restarts, window and liveness under every fault, and with callers that use forgotten shells | 2 restarts in a window of 3, backoffs 1 and 2, 2 calls of start(), faults until time 5, listeners of both notifications that throw; 99 213 states |
| `api_server` | the API in front of it, late timers, repeated start() and stop(); shells that construct | the same with timers up to 1 unit late, 3 requests; 1 853 779 states |
| `shell_outputs` | the verdict, authority and metrics of every request under every policy, and listeners that throw | 104 requests around every threshold, 5 policies and one that is refused; 14 570 states |
| `events_once` | the store implements EventLog; sequences, statistics, paging | capacity 2, 3 outputs stored once or under both of 2 tenants that share a workflow id, pages of 1 and 2; 109 220 states |
| `audit_report` | what a sequence is classified as, the two grades of evidence, the report | capacity 3, 4 outputs of 3 kinds, 2 workflows, stored as the server does: under `PARTNER_ID`, then under the caller, the audited tenant or `PARTNER_ID` again; 268 646 states |
| `policy_registry` | cached SLAs, counts and the health status, history, percentiles | 2 tenants, 2 layers, history of 1, buffer of 2; about 815 000 states, tenants symmetric |
| `detector_sets` | rules, premises, authority, change windows, tenants and resets | 3 calls in any order, 2 tenants, a clock of 3 instants; 55 252 states, tenants symmetric |
| `rate_limiter` | budget, refusals, retries, and who is charged | 2 tenants, 4 kinds of token, a second of 3 units, rate 2, burst 2, clock to 3, set back by 1, sums that come out short or not; 160 726 states |
| `state_stream` | what connected pages are shown, and that they are | 2 pages, 3 states judged, fail-safe states, restarts and reconnections at any time; 308 680 states |

The bounds are chosen so that each limit is passed at least once: the window ends while
timers are pending, the limit of restarts is reached within a window and across two; the
log and its copies, the history and the ring buffer overflow; a page ends exactly at
the last record and before it; the bucket empties, fills and is capped; a token expires
while its tenant has a bucket; a change window goes through every state but IDLE, in which no one runs tests; a premise expires and is presented anew. Each property has a mutant in
`PROJECT.json`, a plausible bug that makes it fail under the bounds of its own run,
which shows that the case it is about occurs. `shell_outputs` has ratios of premises on
both sides of and on 0.3 and 0.7, ratios of failed tests on 0.1 and on 0.4, and scores on 55 and
on 75, which is the limit of one of the policies; what lies between is left to the theorems,
which are for every request. The summary of a sequence depends on the order of two actions only (the server
stores an event for DOWNGRADE and BLOCK alone), so sequences of up to three events show
every classification that occurs.

Deadlock is checked where the system cannot stop: in the watchdog and the API (`stop()`
can always be called), the shell, the policy service and the stream. The event store,
the audit and the detector sets come to rest at the bounds `MaxOutputs` and `MaxCalls`,
the limiter at `MaxAllowed`.

*Fairness.* `FairSpec` of Watchdog assumes that the event loop runs due timers and
that time passes, nothing else: neither owners nor callers must act. `FairSpec` of
EventStore assumes that a client that was told `hasMore` asks for the next page. `FairSpec`
of StateStream assumes that a message on its way is delivered; that connections last,
that shells judge or restart, and that anyone connects again is not assumed.

### Runs that show a disagreement

Each checks what a comment or document says, and TLC refutes it by what the code does.

| run | the text | the code |
|---|---|---|
| `events_endless` | `event-store.ts:8` cursors are safe for high-volume logs | the tenant `PARTNER_ID` gets each record twice with one handle; a page that ends between the two repeats for ever |
| `policy_use` | `chaos-harness.ts:110` new requests use the new policy | the server's shell keeps the policy it was constructed with |
| `audit_mirror` | `audit-signal-consumer.ts:20` Urielle's schema mirrors EGS's | its pattern types lack `UNKNOWN`, which every sequence without an escalation has: its signals are refused |

## 4. The proofs

All are checked by `tlapm`, for every value of the constants that meets the named
assumptions of the modules. Those say what the constants are (numbers, finite sets), and
one thing more: `BackoffAssumption`, that `BaseBackoffMs * 2 ^ count` is a natural number
no less than `BaseBackoffMs` (true, and outside the provers' arithmetic). A theorem that
needs more has it as a hypothesis of its own, named below.

The provers here take no induction principle with an operator in it. Where an induction
is needed it is about the least element of a set of counterexamples: `LeastNumber` gets
one from the well-foundedness of `<` on `Nat`, and `KeptExists`, `SumUpToExists` and
`JoinExists` build the recursive functions of `Filter`, of the library's sums and of its
`FlattenSeq` up from theirs.

**ApiProofs, the watchdog.** For each invariant there is a lemma on `HandleCrash` and one on
`Spawn`, cited for every action. `TypeCorrect`, `GatedByShell` (no status but RUNNING
holds a shell, and RUNNING holds one that accepts requests), `RestartNeverLost`,
`RevivedByOwner` (for callers that keep to the shell they are handed:
`StaleCallers = FALSE`). `RestartNeverLost` and `RestartCompletes` have one way out, and it is
the code's: an announcement that a listener interrupts (`Interrupted`) has armed no timer, and
the watchdog stays in RESTARTING until its owner acts. `RestartsAreRare`: `RestartRate` speaks of pairs of
notifications and is not inductive. It follows from `CountsOpenWindow` (while a
window is open, as many notifications belong to it as `restartCount` says, and they
are the last ones) and `WindowsApart` (notifications of different windows are ordered as
their windows, and one of a window and one of the next but one are more than `WindowMs`
apart): 2 * `MaxRestarts` + 1 notifications cannot fit in two windows.

**ApiProofs, the server.** `ApiImplementsWatchdog`: every step of the API is a step of the supervisor
or leaves it alone, so its theorems carry over (`GovernedRequests`, `ApiRevivedByOwner`).
`GovernedRequests` and `ApiRevivedByOwner` need no hypothesis on callers: the server uses
no shell but the one the watchdog hands out. `BackoffIsHonoured`, from `TimersInv`: until
`start()` is called a second time, no timer is pending while RUNNING, and while RESTARTING
exactly one is, due when the backoff after the last notification is over. `UniqueHandles`,
from `HandlesInv`, under the same proviso: no request was observed in the future, those
observed in this millisecond have ids below the shell's next one, and all were observed
before a restart that is pending comes due. It is for `BaseBackoffMs > 0`: with 0, two
shells can number their first requests alike in one millisecond.

**ShellProofs.** `ShellTypeCorrect`. `NothingHighPasses` and `ServedIsAnnounced` follow
from `CallInv`: the outputs of the last call are none, or the one that was decided,
possibly followed by the fail-safe output, and what was returned matches.
`EventIsOfWorstLayer`, by the fold over the four layers, unrolled.
`WorseIsNeverMoreLenient` and `WorseNeverHasMoreAuthority` go layer by layer: each
layer's result is monotone in the grounds for containment, hence the aggregate
severity, hence action and authority. The second needs a policy whose PASS is not
`invalid` (`PassesAreUsable`: no severity both passes and scores below `limited`). The two
profiles that never pass, STRICT_PROD and CRITICAL_STRICT, meet it whatever their thresholds;
with `limited` above 58 a PILOT request of severity med passes
as `invalid`, but a high one is a downgrade, `reference-only`. `WorseNeverLooksBetter`
is the same for the metrics, which depend on the aggregate severity alone: four rows of
a table, for exposure before and after governance, drift, latency and isolation.

**EventStoreProofs.** `StoreImplementsLog`, the refinement of EventLog, holds however often
outputs are stored, so for the server, which stores each twice. Its invariants are
`LogsOK` (each log in the order of its records, all its tenant's and made so far) and
`IndexOK` (what the index has under a handle is logged, and no copy logged is newer). The
server's way is in the abstract specification (`AddTwice`): an output under two tenants is
found by the second only, and by no one once either copy has left. The other two theorems
take no part of the index by handle. Their invariants know a record by its identity (`made`), not its handle:
`LogsOK` again, and `FlowOK`. `SequencesNeverDisagree` is
`SequencesAgree` in full, however often an output is stored. `FlowOK` says that the index
by workflow lists records in their order, only logged ones, and *of a tenant's records all that are newer than one it
lists*. The last part is what survives the `clear()` of another tenant, and makes a sequence
a suffix of what the log has (`UpwardClosedIsEnd`); without `clear()` it lists all.
`FilterResult` says what `Filter` returns, `TalliesAddUp` that the tallies by kind
partition the log, and `Lengths` that a log has as many records as were numbered, up
to the limit. `PagesMissNothing` is `PagingIsComplete`, from `ClientOK`: the records of
the first answer matched the query and have old identities, so what the store adds later
is none of them; and *one that the client has not got and is still served comes after its
cursor, and it was told that there is more*. The cursor is a handle, so this is for the
tenants in `Single`, those for whom no output is stored twice: in the server all but
`PARTNER_ID` (when it calls itself), and `events_endless` shows what happens to that one. A
page whose cursor was evicted starts over, and so loses nothing (`AfterTheCursor`).

**PolicyServiceProofs.** `TypeCorrect`; `SlaIsNeverStale`, from the order in `setActive`
(the map is set before the event is emitted); `HistoryIsTheLog`, from `HistoryInv`
(the active policy is the last change, and the history the newest of those before it);
`CountsAreCurrent`, from `CountsInv` (a tracker's totals and
breaches are the counts of the samples since it was made, and a tenant without trackers
has none); `RankIsLeast`,
that `Math.ceil(p / 100 * n)` is the least rank that covers p percent. `PercentilesAreExact`
joins it with sorting: `Sorted` takes any order of the places in which the values ascend,
`OrderExists` builds one by choosing the least remaining value, and `SortedRanks` counts
the values up to, and below, the one at a rank.

**RateLimiterProofs.** `WithinBudget` is about all pairs of allowed requests. The
inductive `BudgetInv` says that the tokens never exceed what is left of the budget since any
earlier allowed request, and equal what is left since one of them unless the bucket is full;
`RefusalsAreNeeded` follows from the second half: whatever was rounded, a refused request
would have used the budget up. `WaitingIsEnough` (429's promise), from
`RetryInv`: a refused tenant's bucket was last refilled at the refusal, and no bucket is
overdrawn or refilled in the future. That one is for a clock that is never set back and a rate
above one a second; the others are for any. `AdmissionImplementsLimiter`: a step behind `verifyJwt`
is a step of the limiter or none, and `BearersAreCharged`: none but for the bearer's own tenant.

**DetectorSetsProofs.** `IsolatedGates`, `NeverSoftened` (from `RulesInv`: the shared
array is never written, and the rules of a set are those defaults followed by what its
tenant added to it), `AuthorityOnlyFalls` (from `ChainInv`: no grant of a chain is above the one
before, and the audit log holds the newest decisions of the chain), `WindowsFollowTests`
(from `WindowInv`: the window a caller carries is the one its history of tests leads to).
`DecidedByPresentation` needs no invariant: the step alone decides. It and
`WindowsFollowTests` say what the code does, against the comments beside it (section 6).

**StateStreamProofs.** `PagesAreTold` (the newest state sent since the page was connected or,
if there is none, the one the shell keeps), from `StreamInv`: a connection that works is open
at the server, and what is on its wire leads the page to the newest state; there is a message on it if
there was anything to tell, and a page not yet shown as connected is opened by the first.

**AuditProofs**, on top of EventStoreProofs; only the last theorem has a hypothesis. `ClassifiedByEscalation`: the
variance of the actions' tallies (`TotalOf`, `SpreadIsSmall`) keeps the score at 80 or more
for sequences of any length, and an escalation anywhere shows as one of two neighbours
(`EscalationIsLocal`). `UrielleNeverClaimsMore` (`GradesCompare`): the two gradings, row by row.

`WhatWasToldStaysTrue` is about a summary that was made earlier of what was logged then, so
its invariant `ToldInStep` says of what was read: *while its first record is logged, all of it
is listed, and nothing else that is listed is older than a part of it*. So it is the
start of what can be read now (`ReadIsStart`), whence the chain is a prefix (`SummaryGrows`).
`ReportsCountOnce`, for an audited tenant in `Single`, has `OwnedInStep`: there is an owner for every handle ever issued, the
workflow it was issued in or none, and records in the log, those fetched and signals in the
inputs have handles of their own workflow, each input all different ones. That is what
no pair of inputs says: inputs are of different times, and share no handle because
handles are never used for another workflow. From there it is algebra: signals, findings and the
parts of the posture are selections and joins of sequences with distinct handles
(`FilterDistinct`, `FlattenDistinct`), hence as many as their handles (`HandlesCounted`).
Stored twice for one tenant, two records have one handle and would be counted as two.

*Only model-checked.* Liveness, which is out of the prover's reach: `RestartCompletes`,
`FailureIsFinal`, `PagingEnds`, `EveryoneIsTold`. Every safety property of a passing run is
stated by a theorem. The three refuted properties hold for no proof to find. Some theorems have
a hypothesis that the run does not need, or meets by its instance: `Auditee \in Single` (`ReportsCountOnce`), `StaleCallers = FALSE`, a clock that is not set back (`WaitingIsEnough`), a positive
backoff (`UniqueHandles`), more than one request a second (`WaitingIsEnough`: with one,
a sum that comes out short refuses the retry, too), a policy whose PASS is not `invalid`. The type invariants of
PolicyService and RateLimiter are proved and have no run: the other invariants of these
modules could not be evaluated without them.

## 5. What the models leave out

- No listener calls `start()` or `stop()` from within an event of the watchdog: none in `src/` does.
- Listeners of `watchdog:fail-safe` and `watchdog:stopped` that throw: both are told last, and
  no state of the watchdog changes after them. Where an exception goes that leaves a timer's
  callback is the process's affair (without a handler it ends it); the models go on.
- The watchdog's clock does not go back; timers that are due run in any order.
- A request's flags, premises and so on are what the input normaliser makes of them;
  schema validation is the set of policies that parse. Ratios are exact: a ratio of
  two integers rounds to the double of the decimal literal exactly when they are equal.
- Evidence handles are the identity that is hashed, not the 32-bit hash: collisions are left out.
- The filters of a query by date, severity and action stand behind the one by layer.
- `clear()` is called by tests only; `events_once` includes it.
- Callers without the partner header share one tenant, as in the code.
- The trackers and the detectors of one set are two models, PolicyService and
  DetectorSets, which share only `get` and `reset`; the shell's four layers (Judgment) are
  other code than the four detectors, which nothing in the server calls.
- Urielle's schema wants a signal flat, EGS makes it nested (`core`, `sequence`), and no code
  makes the one of the other: `Flattened` is part of the script that runs Urielle, which is
  not in the repository, like the reading of events and summaries.
- That script reads `GET /v1/events` in one request, for a log that fits in a page of 100
  (`MaxPage`). A longer log takes several; what happens between two pages is the subject of
  EventStore.tla: paging starts over when the cursor's record was evicted, so a script that
  does not drop repeats would report an event twice.
- Tests of an update are a template of twelve with so many failures of each criticality;
  premises that are defined have fixed weights and contracts always satisfied in the run.
- Latencies are the few values around each threshold; the mean, minimum and maximum of a
  tracker are left out, and so is the reset() nothing calls.
- In StateStream the watchdog is reduced to a shell that is there or not; messages keep
  their order, as on a TCP connection, and are lost only with the connection.
- Cryptography and parsing of tokens: a token is sound or not.
- Wording (narratives, summaries, notes), labels for display, the views of the UI.
- Not modelled at all: registers (static tables and lookups), the chaos harness, scripts,
  superseded files that nothing imports, and the snapshots under `docs/`.

The rate limiter and verifyJwt are exported and tested, but the server registers neither.

## 6. Read, but shown by no run

Notes for whoever works on the code; each was met while modelling.

Shell, watchdog and core:

- `watchdog.ts:135` a `watchdog:restarting` listener that throws leaves RESTARTING without a
  timer: every request is answered 503 until its owner calls `start()`
  (`Interrupted` in Watchdog). The server registers no such listener (`server.ts:123` is its only one
  for the watchdog).
- `judge.ts:174` says "continuity wins ties"; the comparison is strict and continuity comes last, so the
  earliest of the layers that tie names the event and its queue (`EventNamesWorstLayer`).
- `watchdog.ts:88` an observer error of a shell the watchdog forgot takes it out of
  FAIL_SAFE, if the window is over (`RevivedByOwner` excludes such callers).
- `watchdog.ts:71` after an observer error the old shell is never stopped, not by `stop()` either.
- `watchdog.ts:66` a second `start()` while RESTARTING leaves a timer that can cut a later backoff short.
- `watchdog.ts:16` the window of 60 seconds is fixed, not sliding: up to twice three
  restarts fit in 60 seconds at its border (`RestartRate` is what does hold).
- `watchdog.ts:118` if the backoffs add up to more than the window, a shell that can never
  be constructed never leads to FAIL_SAFE (the defaults add up to 3.5 s of 60).
- `watchdog.ts:7` and ADR-002 line 35 know one 503; the code has a second, `GOVERNANCE_RESTARTING`.
- `enforcer.ts:84` the emission inside the catch is not guarded: with a listener that
  throws twice, process() throws too, whatever ADR-002 line 29 says.
- `egs/README.md:183` a request without a governance concern is PASS; CRITICAL_STRICT
  answers BLOCK and ENTERPRISE_STRICT DOWNGRADE, since `resolveAction` never sees whether a layer triggered.
- `layers.ts:131` authority above the grant goes undetected when reference-only is
  requested and the grant is invalid.
- `ids.ts:20` request ids repeat from shell to shell; only the timestamp in the handle tells them apart.

Server, store and stream:

- `server.ts:124` outputs are stored for the caller and for the server's `PARTNER_ID`.
- `event-store.ts:190` of an output stored under two tenants the lookup finds the second copy, for
  its tenant; when either copy is evicted or cleared, the handle is gone for both (`ImplementsLog`).
- `event-store.ts:8` pages overlap when the cursor's record was evicted.
- `event-store.ts:338` `clear()` drops other tenants' records of a shared workflow id from the index.
- `event-store.ts:226` with the events the server stores, only CONTAINED and UNKNOWN occur;
  CONTAINED means that a block follows a downgrade somewhere, not that the sequence
  ended in one, and UNKNOWN any sequence without an escalation, not only a short one.
- `tracker.ts:14` speaks of a rolling breach count; it is the count since the last reset.
- `tracker.ts:166` `reset()` leaves the buffer's contents, so percentiles outlive it. Nothing calls it.
- `policy-store.ts:32` the history names the user who replaced a policy as the one who activated it.
- `tenant-registry.ts:75` the authority audit log, append-only by its comment, is discarded
  with the set it belongs to on every change of policy.
- `ui/src/lib/api.ts:265` a page whose connection is closed without an error goes on
  being shown as connected and does not connect again.
- `enforcer.ts:82` the fail-safe state is not kept: a page that is loaded after it is sent the
  state before it, while those that were connected show the fail-safe one.
- The outputs of a stopped shell and the watchdog's own FAIL_SAFE are not broadcast.

Detectors, Urielle, hooks:

- `authority-detector.ts:22` calls override attempts HIGH; an attempt that asks for no more
  than it is granted is classified `none` and low, and one held back by the chain alone
  is a `boundary_test` and med.
- `continuity-detector.ts:21` the diagram takes an open window to WATCHING on any tests, contains
  only a watched one and leaves CLOSED by no arrow; in the code (235) unstable tests contain a window
  in any state (`WindowFollowsHistory`).
- `premise-detector.ts:142` says that claims are validated "against the registry", and what is
  presented accepted "also" (161). The look-up of what is registered (155) is never used:
  only what is presented decides (`PresentationDecides`).
- `continuity-detector.ts:230` a run with a failed critical test and a score above
  `stable` is high and triggered, and yet closes the window.
- `continuity-detector.ts:256` the getter `scoreHistory` calls itself; the trend compares
  with the last score of any update, so interleaved updates mix.
- `premise-detector.ts:162` an expiry of 0 milliseconds never expires.
- `iso42001-evidence.ts:73` EVIDENCED takes two handles, which its comment calls one; NOT_READY is reached without findings only. The maps of controls in
  EGS and Urielle differ.
- `mttd-monitor.ts` the SLAs are its own, whatever the tenant's policy says.
- `auth-middleware.ts:230` tokens are doubles: ten refused retries a millisecond apart add up to
  0.9999999999999999 tokens, and the next request is refused, which the budget allows (`RefusalsAreDue`
  says how far this goes: a request that would leave any of the budget is never refused).
- `auth-middleware.ts:231` a clock that is set back can leave negative tokens.
- `auth-middleware.ts:177` a token without `exp`, or with 0, never expires, and one that
  has is good until the end of that second.
- `auth-middleware.ts:10` the table of roles in the header is narrower than ROUTE_ROLES;
  the entry of the stream is under a method no request has, so every role may use it.

## 7. Plan

Every safety property the passing runs check is proved. What could follow is the report of
an audited tenant whose log is read page by page while it changes, and the four detectors of a
set joined with its trackers, once the server calls them.
