---------------------------- MODULE StateStream ----------------------------
(***************************************************************************)
(* The stream of states from the server to the pages that show them: the   *)
(* broadcast and the snapshot of WS /v1/state/stream (api/src/server.ts),  *)
(* createStateStream (ui/src/lib/api.ts) and the state of AdminTerminal    *)
(* (ui/src/App.tsx).  The watchdog is reduced to a shell that is there or  *)
(* not; states are numbered in the order they were sent.  A connection     *)
(* keeps the order of its messages and may break at any time: what is on   *)
(* its way is lost from some message on, and each side notices when it     *)
(* does.  No page connects again by itself; it may be loaded anew.         *)
(***************************************************************************)
EXTENDS Integers, Sequences

CONSTANTS
  Clients,
  MaxStates   \* bound: the states judged

ASSUME StateStreamAssumption == MaxStates \in Nat

NoState == 0
Open == -2         \* the message with which the browser calls onopen

VARIABLES
  judged,     \* how many states have been judged, fail-safe states included
  shell,      \* the state the shell keeps, NoState before its first, or NoShell
  readyState, \* of the server's socket of each client, "none" if not in wsClients
  up,         \* the clients whose connection works
  wire,       \* what is on its way to each client
  page,       \* [liveState, wsConnected] of each client's page
  since       \* how many states had been judged when each client connected

vars == <<judged, shell, readyState, up, wire, page, since>>

NoShell == -1
NewPage == [liveState |-> NoState, wsConnected |-> FALSE]

Init ==
  /\ judged = 0
  /\ shell = NoState
  /\ readyState = [c \in Clients |-> "none"]
  /\ up = {}
  /\ wire = [c \in Clients |-> <<>>]
  /\ page = [c \in Clients |-> NewPage]
  /\ since = [c \in Clients |-> 0]

\* Mutant: the loop returns at a socket that is not open, instead of going on to the next;
\* then no client of the set is sure to be reached.
Recipients_GivenUp ==
  IF \E c \in Clients : readyState[c] = "closing" THEN {}
  ELSE {c \in Clients : readyState[c] = "open"}

Recipients == {c \in Clients : readyState[c] = "open"}

\* A state goes out to the open sockets; a dead connection swallows it.
Broadcast(state) ==
  wire' = [c \in Clients |-> IF c \in Recipients \cap up
                             THEN Append(wire[c], state) ELSE wire[c]]

\* The shell judges, and its output is broadcast.
Judge ==
  /\ shell # NoShell
  /\ judged < MaxStates
  /\ judged' = judged + 1
  /\ shell' = judged + 1
  /\ Broadcast(judged + 1)
  /\ UNCHANGED <<readyState, up, page, since>>

\* Judging fails, or a listener told of it throws: a fail-safe state is broadcast, which
\* the shell does not keep, so that a snapshot goes on being of the state before it.
FailSafe ==
  /\ shell # NoShell
  /\ judged < MaxStates
  /\ judged' = judged + 1
  /\ Broadcast(judged + 1)
  /\ UNCHANGED <<shell, readyState, up, page, since>>

\* The watchdog forgets a shell that crashed, and later starts one that knows no state.
Crash ==
  /\ shell # NoShell
  /\ shell' = NoShell
  /\ UNCHANGED <<judged, readyState, up, wire, page, since>>

Restart ==
  /\ shell = NoShell
  /\ shell' = NoState
  /\ UNCHANGED <<judged, readyState, up, wire, page, since>>

\* Mutant: the snapshot is not sent to a client that connects.
Snapshot_Never == <<>>

\* What the server sends a client that connects: the state of the present shell, if any.
Snapshot == IF shell \in {NoShell, NoState} THEN <<>> ELSE <<shell>>

\* A page is loaded, and its connection accepted.
Connect(c) ==
  /\ readyState[c] = "none"
  /\ c \notin up
  /\ readyState' = [readyState EXCEPT ![c] = "open"]
  /\ up' = up \cup {c}
  /\ wire' = [wire EXCEPT ![c] = <<Open>> \o Snapshot]
  /\ page' = [page EXCEPT ![c] = NewPage]
  /\ since' = [since EXCEPT ![c] = judged]
  /\ UNCHANGED <<judged, shell>>

\* onopen or onmessage: either shows the page as connected.
Deliver(c) ==
  /\ wire[c] # <<>>
  /\ page' = [page EXCEPT ![c] =
                [liveState   |-> IF Head(wire[c]) = Open THEN @.liveState ELSE Head(wire[c]),
                 wsConnected |-> TRUE]]
  /\ wire' = [wire EXCEPT ![c] = Tail(@)]
  /\ UNCHANGED <<judged, shell, readyState, up, since>>

\* The connection breaks, or the page is left.
Break(c) ==
  /\ c \in up
  /\ up' = up \ {c}
  /\ \E n \in 0 .. Len(wire[c]) : wire' = [wire EXCEPT ![c] = SubSeq(@, 1, n)]
  /\ UNCHANGED <<judged, shell, readyState, page, since>>

\* onerror shows the page as disconnected; onclose only logs, so that a connection that
\* is closed without an error goes on being shown as it was.
Error(c) ==
  /\ c \notin up
  /\ wire[c] = <<>>
  /\ page[c].wsConnected
  /\ page' = [page EXCEPT ![c].wsConnected = FALSE]
  /\ UNCHANGED <<judged, shell, readyState, up, wire, since>>

\* The server's end of a broken connection: first closing, then the close event.
Closing(c) ==
  /\ c \notin up
  /\ readyState[c] = "open"
  /\ readyState' = [readyState EXCEPT ![c] = "closing"]
  /\ UNCHANGED <<judged, shell, up, wire, page, since>>

Closed(c) ==
  /\ readyState[c] = "closing"
  /\ readyState' = [readyState EXCEPT ![c] = "none"]
  /\ UNCHANGED <<judged, shell, up, wire, page, since>>

Next ==
  \/ Judge \/ FailSafe \/ Crash \/ Restart
  \/ \E c \in Clients : Connect(c) \/ Deliver(c) \/ Break(c) \/ Error(c) \/ Closing(c) \/ Closed(c)

Spec == Init /\ [][Next]_vars

\* A message on its way over a connection that works arrives.
FairSpec == Spec /\ \A c \in Clients : WF_vars(Deliver(c))

-----------------------------------------------------------------------------
(***************************************************************************)
(* Properties                                                              *)
(***************************************************************************)

\* What a client shows and will be shown, in its order, and the places with states.
Told(c) == <<page[c].liveState>> \o wire[c]

States(c) == {i \in DOMAIN Told(c) : Told(c)[i] \notin {Open, NoState}}

\* While its connection works, a client is on its way to the newest state: the states it
\* is told grow, and the last is the newest that any shell sent since it connected,
\* fail-safe states included; if none did, it is the one the shell keeps, if it has one.
\* (A fail-safe state is not kept: a page that is loaded after it is sent an older one.)
\* A page shown as disconnected that works is one that has not been opened yet.
ToldTheNewest ==
  \A c \in up :
    /\ \A i, j \in States(c) : i < j => Told(c)[i] < Told(c)[j]
    /\ \A i \in States(c) : (\A j \in States(c) : j <= i) =>
         /\ judged > since[c] => Told(c)[i] = judged
         /\ judged = since[c] /\ shell > NoState => Told(c)[i] = shell
    /\ judged > since[c] \/ shell > NoState => States(c) # {}
    /\ ~page[c].wsConnected => wire[c] # <<>> /\ Head(wire[c]) = Open

\* A state sent while a client is connected is shown to it, or a newer one is, or its
\* connection breaks: other connections that are closing do not stand in the way.
EveryoneIsTold ==
  \A c \in Clients, n \in 1..MaxStates :
    (c \in up /\ since[c] < n /\ judged = n) ~> (page[c].liveState >= n \/ c \notin up)

=============================================================================
