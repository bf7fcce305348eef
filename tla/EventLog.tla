------------------------------ MODULE EventLog ------------------------------
(***************************************************************************)
(* What the event store promises (the header of                            *)
(* api/src/store/event-store.ts), made exact where an output is stored     *)
(* twice: a log for each tenant, bounded, whose records are numbered       *)
(* without a gap, never change and leave oldest first, and a lookup that   *)
(* finds, for its tenant, the copy of a record that was stored last,       *)
(* exactly while no copy has left a log since.  Nothing is said of the     *)
(* indexes that do it; EventStore.tla implements this specification.       *)
(***************************************************************************)
EXTENDS Integers, Sequences

CONSTANTS
  Tenants,   \* partner ids
  Handles,   \* the evidence handles a caller may ask for
  Capacity,  \* MAX_EVENTS_PER_TENANT
  NoRecord   \* what a lookup that fails answers: null

VARIABLES
  logs,   \* the log of each tenant, oldest first
  given,  \* the last sequence number each tenant was given
  kept,   \* the handles of which no copy has left a log since one was stored
  found   \* what each tenant's lookup of each handle answers

logVars == <<logs, given, kept, found>>

Newest(log) == IF Len(log) > Capacity THEN Tail(log) ELSE log

\* The handles of the records that Newest leaves out, and of a whole log.
Leaving(log) == {log[i].handle : i \in 1 .. Len(log) - Capacity}
AllOf(log) == {log[i].handle : i \in 1 .. Len(log)}

Book == [logs |-> logs, given |-> given, kept |-> kept]

\* A record goes to the end of its tenant's log, and it is a copy that is kept.
Put(book, record) ==
  LET log == Append(book.logs[record.partner], record)
  IN  [logs  |-> [book.logs EXCEPT ![record.partner] = Newest(log)],
       given |-> [book.given EXCEPT ![record.partner] = record.number],
       kept  |-> (book.kept \ Leaving(log)) \cup {record.handle}]

Cleared(book, t) ==
  [logs  |-> [book.logs EXCEPT ![t] = <<>>],
   given |-> [book.given EXCEPT ![t] = 0],
   kept  |-> book.kept \ AllOf(book.logs[t])]

Logged(ls) == UNION {{ls[t][i] : i \in 1 .. Len(ls[t])} : t \in Tenants}

Copies(ls, h) == {r \in Logged(ls) : r.handle = h}

LastStored(ls, h) == CHOOSE r \in Copies(ls, h) : \A q \in Copies(ls, h) : q.id <= r.id

Lookup(book, t, h) ==
  IF h \in book.kept /\ LastStored(book.logs, h).partner = t
  THEN LastStored(book.logs, h) ELSE NoRecord

Lookups(book) == [t \in Tenants |-> [h \in Handles |-> Lookup(book, t, h)]]

Becomes(book) ==
  /\ logs' = book.logs
  /\ given' = book.given
  /\ kept' = book.kept
  /\ found' = Lookups(book)

Init ==
  /\ logs = [t \in Tenants |-> <<>>]
  /\ given = [t \in Tenants |-> 0]
  /\ kept = {}
  /\ found = Lookups(Book)

\* A record is the next of t in this book.
IsNext(book, t, record) == record.partner = t /\ record.number = book.given[t] + 1

\* It is stored after all that is logged, under a handle that nothing logged has.
IsNew(record) == \A r \in Logged(logs) : r.id < record.id /\ r.handle # record.handle

\* An output is stored under t.
Add(t) ==
  /\ logs'[t] # <<>>
  /\ LET record == logs'[t][Len(logs'[t])]
     IN  /\ IsNew(record)
         /\ IsNext(Book, t, record)
         /\ Becomes(Put(Book, record))

\* The copy of a record that was stored just before it, under t.
CopyBefore(record, t) ==
  [record EXCEPT !.id = record.id - 1, !.partner = t, !.number = given[t] + 1]

\* An output is stored under t, and again under u, which may be t.
AddTwice(t, u) ==
  /\ logs'[u] # <<>>
  /\ LET record == logs'[u][Len(logs'[u])]
         once == Put(Book, CopyBefore(record, t))
     IN  /\ IsNew(CopyBefore(record, t))
         /\ IsNext(once, u, record)
         /\ Becomes(Put(once, record))

\* A tenant's log is cleared, and its numbers start again.
Clear(t) == Becomes(Cleared(Book, t))

Next == \E t \in Tenants : Add(t) \/ (\E u \in Tenants : AddTwice(t, u)) \/ Clear(t)

Spec == Init /\ [][Next]_logVars

=============================================================================
