----------------------------- MODULE EventStore -----------------------------
(***************************************************************************)
(* The event store of the API (api/src/store/event-store.ts) and a client  *)
(* that pages through a tenant's events with the cursors it is given.      *)
(*                                                                         *)
(* The store is an object of four maps: the log of each tenant, the index  *)
(* from evidence handles to records, the last sequence number of each      *)
(* tenant, and the index from workflows to records.  A record keeps the    *)
(* number `id' of its append as its object identity (indexOf compares      *)
(* identities).  Every call is synchronous, hence one action; a client     *)
(* takes one action per page, and the store changes in between.            *)
(***************************************************************************)
EXTENDS Integers, Sequences, SequencesExt, Filtering, TLC

CONSTANTS
  Tenants,     \* partner ids
  Workflows,   \* workflow ids, which tenants choose freely
  NoWorkflow,  \* an event without one: undefined or ''
  Kinds,       \* what an event and its verdict say: layer, severity, action
  StoredUnder, \* the tenants one output is appended under, in turn
  Capacity,    \* MAX_EVENTS_PER_TENANT (10 000)
  Limits,      \* the page sizes the clients ask for
  Clears,      \* whether clear() is called
  MaxOutputs   \* bound: outputs stored

ASSUME EventStoreAssumption ==
  /\ NoWorkflow \notin Workflows
  /\ IsFiniteSet(Kinds)
  /\ \A tenants \in StoredUnder : tenants \in Seq(Tenants) /\ Len(tenants) \in 1 .. 2
  /\ Capacity \in Nat \ {0}
  /\ Limits \subseteq Nat \ {0}
  /\ Clears \in BOOLEAN
  /\ MaxOutputs \in Nat

VARIABLES
  store,   \* the four maps, and how many records were made
  outputs, \* how many outputs were stored
  client   \* the client that is paging

vars == <<store, outputs, client>>

EventRecord ==
  [id : Nat, partner : Tenants, number : Nat, handle : Nat,
   workflow : Workflows \cup {NoWorkflow}, kind : Kinds]

NoHandle == 0
NoRecord == [id |-> 0]

Empty ==
  [logs      |-> [t \in Tenants |-> <<>>],
   index     |-> [h \in {} |-> NoRecord],
   sequences |-> [t \in Tenants |-> 0],
   byFlow    |-> [w \in Workflows |-> <<>>],
   made      |-> 0]

-----------------------------------------------------------------------------
(***************************************************************************)
(* append, getByHandle, getSequence, stats, clear                           *)
(***************************************************************************)

Unindexed(index, handles) == [h \in DOMAIN index \ handles |-> index[h]]

\* Mutant: the handle of an evicted record stays in the index.
Evict_KeepsHandle(s, t) ==
  LET evicted == Head(s.logs[t])
  IN  [s EXCEPT !.logs[t] = Tail(@),
                !.byFlow = [w \in Workflows |-> Filter(@[w], {r \in EventRecord : r.id # evicted.id})]]

\* Mutant: the record stays in the sequence index.
Evict_KeepsSequence(s, t) ==
  [s EXCEPT !.logs[t] = Tail(@), !.index = Unindexed(@, {Head(s.logs[t]).handle})]

\* The oldest record of t leaves the log, its handle the index, and it leaves
\* its sequence if it is there.
Evict(s, t) ==
  LET evicted == Head(s.logs[t])
  IN  [s EXCEPT !.logs[t] = Tail(@),
                !.index = Unindexed(@, {evicted.handle}),
                !.byFlow = [w \in Workflows |-> Filter(@[w], {r \in EventRecord : r.id # evicted.id})]]

Full(s, t) == Len(s.logs[t]) >= Capacity

NextNumber(s, t) == s.sequences[t] + 1

Appended(s, t, event) ==
  LET record == [id |-> s.made + 1, partner |-> t, number |-> NextNumber(s, t),
                 handle |-> event.handle, workflow |-> event.workflow,
                 kind |-> event.kind]
      room == IF Full(s, t) THEN Evict(s, t) ELSE s
  IN  [logs      |-> [room.logs EXCEPT ![t] = Append(@, record)],
       index     |-> [h \in DOMAIN room.index \cup {event.handle} |->
                        IF h = event.handle THEN record ELSE room.index[h]],
       sequences |-> [room.sequences EXCEPT ![t] = record.number],
       byFlow    |-> [w \in Workflows |-> IF w = event.workflow
                                          THEN Append(room.byFlow[w], record)
                                          ELSE room.byFlow[w]],
       made      |-> record.id]

\* An output is stored by the listener of shell:output, or after it by the route too.
Stored(s, tenants, event) ==
  LET heard == Appended(s, tenants[1], event)
  IN  IF Len(tenants) = 1 THEN heard ELSE Appended(heard, tenants[2], event)

getByHandle(s, t, handle) ==
  IF handle \in DOMAIN s.index /\ s.index[handle].partner = t
  THEN s.index[handle] ELSE NoRecord

getSequence(s, t, w) == Filter(s.byFlow[w], {r \in EventRecord : r.partner = t})

\* The tallies by layer, severity and action are those of the kinds.
stats(s, t) ==
  LET log == s.logs[t]
  IN  [total           |-> Len(log),
       byKind          |-> [k \in Kinds |-> Len(Filter(log, {r \in EventRecord : r.kind = k}))],
       activeSequences |-> Cardinality({r.workflow : r \in ToSet(log)} \ {NoWorkflow})]

\* clear(): the whole sequence entry goes, whoever's records it holds.
Clear(s, t) ==
  LET log == ToSet(s.logs[t])
      flows == {r.workflow : r \in log}
  IN  [s EXCEPT !.logs[t] = <<>>,
                !.index = Unindexed(@, {r.handle : r \in log}),
                !.sequences[t] = 0,
                !.byFlow = [w \in Workflows |-> IF w \in flows THEN <<>> ELSE @[w]]]

-----------------------------------------------------------------------------
(***************************************************************************)
(* query                                                                   *)
(***************************************************************************)

\* A query by workflow reads oldest first, one of the log newest first.
Source(s, q) ==
  IF q.workflow # NoWorkflow THEN getSequence(s, q.partner, q.workflow)
  ELSE Reverse(s.logs[q.partner])

Filtered(s, q) == Filter(Source(s, q), {r \in EventRecord : r.kind \in q.kinds})

\* Mutant: the record under the cursor is served again.
StartOf_AtCursor(records, cursor) ==
  LET found == {i \in DOMAIN records : records[i].handle = cursor}
  IN  IF found = {} THEN 1 ELSE CHOOSE i \in found : \A j \in found : i <= j

\* The place after the first record with the cursor's handle, or the first place.
StartOf(records, cursor) ==
  LET found == {i \in DOMAIN records : records[i].handle = cursor}
  IN  IF found = {} THEN 1 ELSE 1 + CHOOSE i \in found : \A j \in found : i <= j

\* Mutant: the last record alone does not count as more.
HasMore_NotOne(records, start, limit) == start + limit < Len(records)

HasMore(records, start, limit) == start + limit <= Len(records)

\* The page of the filtered records after the cursor.
Page(records, limit, cursor) ==
  LET start == StartOf(records, cursor)
      page == SubSeq(records, start, Min({start + limit - 1, Len(records)}))
      hasMore == HasMore(records, start, limit)
  IN  [records    |-> page,
       hasMore    |-> hasMore,
       nextCursor |-> IF hasMore THEN Last(page).handle ELSE NoHandle]

-----------------------------------------------------------------------------

Queries ==
  [partner : Tenants, workflow : Workflows \cup {NoWorkflow},
   kinds : {Kinds} \cup {{k} : k \in Kinds}, limit : Limits]

Ids(records) == {r.id : r \in ToSet(records)}

\* The clients that have asked for nothing: the next cursor, the records it got, and those
\* that matched when it asked for its first page.
NewClients ==
  [paging : {FALSE}, cursor : {NoHandle}, got : {{}}, first : {{}}, query : Queries]

Init ==
  /\ store = Empty
  /\ outputs = 0
  /\ client \in NewClients

\* An output with an event is stored; its handle is new.
Store ==
  /\ outputs < MaxOutputs
  /\ outputs' = outputs + 1
  /\ \E tenants \in StoredUnder, w \in Workflows \cup {NoWorkflow}, k \in Kinds :
       store' = Stored(store, tenants, [handle |-> outputs', workflow |-> w, kind |-> k])
  /\ UNCHANGED client

ClearTenant ==
  /\ Clears
  /\ \E t \in Tenants : store.logs[t] # <<>> /\ store' = Clear(store, t)
  /\ UNCHANGED <<outputs, client>>

\* The client asks for its first page, or for the one after its cursor.
Ask(cursor, first) ==
  \E records \in {Filtered(store, client.query)} :
    LET page == Page(records, client.query.limit, cursor)
    IN  client' = [client EXCEPT !.paging = page.hasMore,
                                 !.cursor = page.nextCursor,
                                 !.got = @ \cup Ids(page.records),
                                 !.first = first]

FirstPage ==
  /\ client.got = {}
  /\ Filtered(store, client.query) # <<>>
  /\ Ask(NoHandle, Ids(Filtered(store, client.query)))
  /\ UNCHANGED <<store, outputs>>

NextPage ==
  /\ client.paging
  /\ UNCHANGED <<store, outputs>>
  /\ Ask(client.cursor, client.first)

Next == Store \/ ClearTenant \/ FirstPage \/ NextPage

Spec == Init /\ [][Next]_vars

\* A client that was told that there is more asks for it.
FairSpec == Spec /\ WF_vars(NextPage)

-----------------------------------------------------------------------------
(***************************************************************************)
(* Properties                                                              *)
(***************************************************************************)

Logged(s) == UNION {ToSet(s.logs[t]) : t \in Tenants}

\* The store as what it promises: the handles that are kept are those of the index,
\* which every append, eviction and clear() keeps in step by hand.
Log == INSTANCE EventLog WITH
  Handles <- 1 .. MaxOutputs,
  logs    <- store.logs,
  given   <- store.sequences,
  kept    <- DOMAIN store.index,
  found   <- [t \in Tenants |-> [h \in 1 .. MaxOutputs |-> getByHandle(store, t, h)]]

\* The three maps implement the log of EventLog.tla ("Evidence handles are the primary
\* key", event-store.ts:17), through evictions and clears of any tenant in any order, for
\* outputs stored once and for those the listener (server.ts:124) and the route (211)
\* both store.  No lookup serves evicted evidence or another tenant's, and no number is
\* lost.  Of an output stored once none misses what is logged.  Of one stored twice only
\* the copy stored last is found, by its tenant alone, and none from the moment either
\* copy leaves its log, though the other is still there: the index has one place for both.
ImplementsLog == Log!Spec

\* The sequence a tenant reads for a workflow is what its log holds of it, in the
\* same order, though tenants share workflow ids and the index shares its lists.
Agrees(t, w) ==
  getSequence(store, t, w) = Filter(store.logs[t], {r \in EventRecord : r.workflow = w})

\* Without clear() the sequences agree with the log; the clear() of a tenant that
\* shares the workflow id only takes older records away, never the newer ones.  So no
\* more sequences can be read than the statistics show, and what these count is the
\* events numbered since the tenant's own clear(), up to the limit.
SequencesAgree ==
  \A t \in Tenants :
    LET shown == stats(store, t)
    IN  /\ \A w \in Workflows :
             IF Clears
             THEN IsSuffix(getSequence(store, t, w),
                           Filter(store.logs[t], {r \in EventRecord : r.workflow = w}))
             ELSE Agrees(t, w)
        /\ Cardinality({w \in Workflows : getSequence(store, t, w) # <<>>})
             <= shown.activeSequences
        /\ shown.total = Min({store.sequences[t], Capacity})
        /\ shown.total = MapThenSumSet(LAMBDA k : shown.byKind[k], Kinds)

\* A client that has read its last page has been given every record that matched
\* when it began and is still stored, though records were stored and evicted
\* between the pages; a client that reads a workflow, unless the clear() of a
\* tenant that shares the workflow id took some of it out of the index.
PagingIsComplete ==
  LET q == client.query
  IN  (~client.paging /\ (q.workflow # NoWorkflow => Agrees(q.partner, q.workflow))) =>
        client.first \cap {r.id : r \in Logged(store)} \subseteq client.got

\* A client that keeps asking for the next page reaches the last one.
PagingEnds == client.paging ~> ~client.paging

=============================================================================
