-------------------------- MODULE StateStreamProofs --------------------------
(***************************************************************************)
(* That every page whose connection works is on its way to the newest      *)
(* state it should be told, for any number of pages and states and through *)
(* all crashes of the shell, fail-safe states and breaks of other          *)
(* connections.                                                            *)
(***************************************************************************)
EXTENDS StateStream, SequenceTheorems, TLAPS

Messages == {Open} \cup Nat

\* A page that shows live is led to state n by the messages w: after the one that opens
\* it come growing states, the last of which is n; without any, it shows n or nothing.
Leads(w, live, n) ==
  /\ w \in Seq(Messages)
  /\ live \in 0 .. n
  /\ \A i \in 1 .. Len(w) : w[i] = Open \/ w[i] \in 1 .. n
  /\ \A i \in 1 .. Len(w) : w[i] = Open => i = 1
  /\ \A i, j \in 1 .. Len(w) : i < j /\ w[i] # Open => w[i] < w[j]
  /\ \A j \in 1 .. Len(w) : w[j] # Open => live < w[j]
  /\ w # <<>> /\ w[Len(w)] # Open => w[Len(w)] = n
  /\ (\A i \in 1 .. Len(w) : w[i] = Open) => live \in {0, n}

\* A page is told some state.
IsTold(w, live) == live # NoState \/ \E i \in 1 .. Len(w) : w[i] # Open

LEMMA AppendLeads ==
  ASSUME NEW n \in Nat, NEW old \in 0 .. n, NEW w, NEW live, Leads(w, live, old)
  PROVE  Leads(Append(w, n + 1), live, n + 1) /\ IsTold(Append(w, n + 1), live)
<1> DEFINE k == Len(w)
           v == Append(w, n + 1)
<1>1. w \in Seq(Messages) /\ n + 1 \in Messages /\ k \in Nat /\ Open = -2
  BY DEF Leads, Messages, Open
<1>2. /\ v \in Seq(Messages) /\ Len(v) = k + 1 /\ v[k + 1] = n + 1 /\ v # <<>>
      /\ \A i \in 1 .. k : v[i] = w[i]
  BY <1>1, AppendProperties
<1>3. /\ live \in 0 .. n
      /\ \A i \in 1 .. k : w[i] = Open \/ w[i] \in 1 .. n
      /\ \A i \in 1 .. k : w[i] = Open => i = 1
      /\ \A i, j \in 1 .. k : i < j /\ w[i] # Open => w[i] < w[j]
      /\ \A j \in 1 .. k : w[j] # Open => live < w[j]
  <2>1. \A i : i \in 0 .. old => i \in 0 .. n
    OBVIOUS
  <2>2. \A i : i \in 1 .. old => i \in 1 .. n
    OBVIOUS
  <2> QED  BY <2>1, <2>2 DEF Leads
<1> HIDE DEF k, v
<1>4. \A i \in 1 .. Len(v) : i = k + 1 \/ (i \in 1 .. k /\ v[i] = w[i])
  BY <1>1, <1>2
<1>5. k + 1 \in 1 .. Len(v) /\ v[k + 1] # Open
  BY <1>1, <1>2
<1>6. \A i \in 1 .. Len(v) : v[i] = Open \/ v[i] \in 1 .. n + 1
  BY <1>2, <1>3, <1>4
<1>7. \A i \in 1 .. Len(v) : v[i] = Open => i = 1
  BY <1>3, <1>4, <1>5
<1>8. \A i, j \in 1 .. Len(v) : i < j /\ v[i] # Open => v[i] < v[j]
  <2> SUFFICES ASSUME NEW i \in 1 .. Len(v), NEW j \in 1 .. Len(v), i < j, v[i] # Open
               PROVE  v[i] < v[j]
    OBVIOUS
  <2>1. i \in 1 .. k /\ v[i] = w[i]
    BY <1>1, <1>2, <1>4
  <2>2. CASE j = k + 1
    BY <1>2, <1>3, <2>1, <2>2
  <2>3. CASE j \in 1 .. k
    BY <1>2, <1>3, <2>1, <2>3
  <2> QED  BY <1>4, <2>2, <2>3
<1>9. \A j \in 1 .. Len(v) : v[j] # Open => live < v[j]
  <2> SUFFICES ASSUME NEW j \in 1 .. Len(v), v[j] # Open PROVE live < v[j]
    OBVIOUS
  <2>1. CASE j = k + 1
    BY <1>2, <1>3, <2>1
  <2>2. CASE j \in 1 .. k
    BY <1>2, <1>3, <2>2
  <2> QED  BY <1>4, <2>1, <2>2
<1>10. Leads(v, live, n + 1)
  BY <1>2, <1>3, <1>5, <1>6, <1>7, <1>8, <1>9 DEF Leads
<1>11. IsTold(v, live)
  BY <1>5 DEF IsTold
<1> QED  BY <1>10, <1>11 DEF v

LEMMA TailLeads ==
  ASSUME NEW n \in Nat, NEW w, NEW live, Leads(w, live, n), w # <<>>,
         NEW new, new = IF Head(w) = Open THEN live ELSE Head(w)
  PROVE  Leads(Tail(w), new, n) /\ (IsTold(w, live) => IsTold(Tail(w), new))
<1> DEFINE k == Len(w)
           v == Tail(w)
<1>1. w \in Seq(Messages) /\ k \in Nat /\ k > 0 /\ Open = -2 /\ NoState = 0
  BY DEF Leads, Open, NoState
<1>2. /\ v \in Seq(Messages) /\ Len(v) = k - 1 /\ Head(w) = w[1]
      /\ \A i \in 1 .. Len(v) : v[i] = w[i + 1]
  BY <1>1, HeadTailProperties
<1>3. /\ live \in 0 .. n
      /\ \A i \in 1 .. k : w[i] = Open \/ w[i] \in 1 .. n
      /\ \A i \in 1 .. k : w[i] = Open => i = 1
      /\ \A i, j \in 1 .. k : i < j /\ w[i] # Open => w[i] < w[j]
      /\ \A j \in 1 .. k : w[j] # Open => live < w[j]
      /\ w[k] # Open => w[k] = n
      /\ (\A i \in 1 .. k : w[i] = Open) => live \in {0, n}
  BY DEF Leads
<1> HIDE DEF k, v
<1>4. 1 \in 1 .. k /\ \A i \in 1 .. Len(v) : i + 1 \in 1 .. k /\ v[i] = w[i + 1] /\ v[i] # Open
  BY <1>1, <1>2, <1>3
<1>5. new \in 0 .. n /\ \A j \in 1 .. Len(v) : new < v[j]
  <2>1. CASE w[1] = Open
    BY <1>2, <1>3, <1>4, <2>1
  <2>2. CASE w[1] # Open
    <3>1. new = w[1] /\ w[1] \in 1 .. n
      BY <1>2, <1>3, <1>4, <2>2
    <3>2. ASSUME NEW j \in 1 .. Len(v) PROVE new < v[j]
      <4>1. 1 < j + 1 /\ j + 1 \in 1 .. k /\ v[j] = w[j + 1]
        BY <1>4
      <4> QED  BY <1>3, <1>4, <2>2, <3>1, <4>1
    <3> QED  BY <3>1, <3>2
  <2> QED  BY <2>1, <2>2
<1>6. \A i \in 1 .. Len(v) : v[i] \in 1 .. n
  BY <1>3, <1>4
<1>7. \A i, j \in 1 .. Len(v) : i < j => v[i] < v[j]
  <2> SUFFICES ASSUME NEW i \in 1 .. Len(v), NEW j \in 1 .. Len(v), i < j PROVE v[i] < v[j]
    OBVIOUS
  <2>1. i + 1 < j + 1 /\ i + 1 \in 1 .. k /\ j + 1 \in 1 .. k
    BY <1>4
  <2> QED  BY <1>3, <1>4, <2>1
<1>8. v # <<>> => v[Len(v)] = n
  <2> SUFFICES ASSUME v # <<>> PROVE v[Len(v)] = n
    OBVIOUS
  <2>1. Len(v) \in 1 .. Len(v) /\ Len(v) + 1 = k
    BY <1>1, <1>2
  <2>2. v[Len(v)] = w[k] /\ v[Len(v)] # Open
    BY <1>4, <2>1
  <2> QED  BY <1>3, <2>2
<1>9. Len(v) = 0 => new \in {0, n}
  <2> SUFFICES ASSUME Len(v) = 0 PROVE new \in {0, n}
    OBVIOUS
  <2>1. k = 1
    BY <1>1, <1>2
  <2> QED  BY <1>2, <1>3, <2>1
<1>10. Leads(v, new, n)
  <2>1. (\A i \in 1 .. Len(v) : v[i] = Open) => new \in {0, n}
    <3>1. Len(v) # 0 => 1 \in 1 .. Len(v)
      BY <1>1, <1>2
    <3> QED  BY <1>4, <1>9, <3>1
  <2>2. /\ \A i \in 1 .. Len(v) : v[i] = Open \/ v[i] \in 1 .. n
        /\ \A i \in 1 .. Len(v) : v[i] = Open => i = 1
        /\ \A i, j \in 1 .. Len(v) : i < j /\ v[i] # Open => v[i] < v[j]
        /\ \A j \in 1 .. Len(v) : v[j] # Open => new < v[j]
        /\ v # <<>> /\ v[Len(v)] # Open => v[Len(v)] = n
    BY <1>4, <1>5, <1>6, <1>7, <1>8
  <2> QED  BY <1>2, <1>5, <2>1, <2>2 DEF Leads
<1>11. IsTold(w, live) => IsTold(v, new)
  <2>1. CASE w[1] # Open
    <3>1. new = w[1] /\ w[1] \in 1 .. n
      BY <1>2, <1>3, <1>4, <2>1
    <3> QED  BY <1>1, <3>1 DEF IsTold
  <2>2. CASE w[1] = Open /\ live = NoState
    <3>1. ASSUME NEW i \in 1 .. k, w[i] # Open PROVE IsTold(v, new)
      <4>1. i - 1 \in 1 .. Len(v) /\ (i - 1) + 1 = i
        BY <1>1, <1>2, <2>2, <3>1
      <4> QED  BY <1>4, <4>1 DEF IsTold
    <3> QED  BY <2>2, <3>1 DEF IsTold, k
  <2>3. CASE w[1] = Open /\ live # NoState
    BY <1>2, <2>3 DEF IsTold
  <2> QED  BY <2>1, <2>2, <2>3
<1> QED  BY <1>10, <1>11 DEF v

\* The messages of a new connection lead to the state the shell keeps, if it has one.
LEMMA OpenLeads ==
  ASSUME NEW n \in Nat, NEW s, (s \in {NoShell, NoState} /\ n = 0) \/ (s = n /\ n > 0),
         NEW w, w = <<Open>> \o (IF s \in {NoShell, NoState} THEN <<>> ELSE <<s>>)
  PROVE  /\ Leads(w, NoState, n) /\ w # <<>> /\ Head(w) = Open
         /\ n > 0 => IsTold(w, NoState)
<1>1. Open = -2 /\ NoShell = -1 /\ NoState = 0
  BY DEF Open, NoShell, NoState
<1> DEFINE one == <<Open>>
           two == <<s>>
<1>2. one \in Seq(Messages) /\ Len(one) = 1 /\ one[1] = Open
  <2>1. Open \in Messages
    BY DEF Messages
  <2> QED  BY <2>1
<1>3. CASE s \in {NoShell, NoState}
  <2>1. w = one
    BY <1>3
  <2>2. ~(n > 0)
    BY <1>1, <1>3
  <2> HIDE DEF one
  <2>3. w \in Seq(Messages) /\ Len(w) = 1 /\ w[1] = Open /\ w # <<>> /\ Head(w) = Open
    <3>1. w \in Seq(Messages) /\ Len(w) = 1 /\ w[1] = Open
      BY <1>2, <2>1
    <3>2. w # <<>>
      BY <3>1
    <3> QED  BY <3>1, <3>2, HeadTailProperties
  <2> QED  BY <1>1, <2>2, <2>3 DEF Leads
<1>4. CASE s \notin {NoShell, NoState}
  <2>1. s = n /\ n > 0 /\ n \in Messages
    BY <1>1, <1>4 DEF Messages
  <2>2. two \in Seq(Messages) /\ Len(two) = 1 /\ two[1] = n
    BY <2>1
  <2>3. w = one \o two
    BY <1>4
  <2> HIDE DEF one, two
  <2>4. /\ w \in Seq(Messages) /\ Len(w) = 2 /\ w[1] = Open /\ w[2] = n
        /\ w # <<>> /\ Head(w) = Open
    BY <1>2, <2>2, <2>3, ConcatProperties
  <2>5. \A i \in 1 .. 2 : i = 1 \/ i = 2
    OBVIOUS
  <2>6. Leads(w, NoState, n)
    BY <1>1, <2>1, <2>4, <2>5 DEF Leads
  <2>7. 2 \in 1 .. Len(w) /\ w[2] # Open
    BY <1>1, <2>1, <2>4
  <2> QED  BY <2>4, <2>6, <2>7 DEF IsTold
<1> QED  BY <1>3, <1>4

-----------------------------------------------------------------------------

\* What the server knows and what every client has.
Typed ==
  /\ judged \in Nat
  /\ shell \in {NoShell, NoState} \cup 1 .. judged
  /\ readyState = [c \in Clients |-> readyState[c]]
  /\ wire = [c \in Clients |-> wire[c]]
  /\ page = [c \in Clients |-> page[c]]
  /\ since = [c \in Clients |-> since[c]]
  /\ up \subseteq Clients
  /\ \A c \in Clients : since[c] \in 0 .. judged

\* State n is the newest of those a client should be told: the newest sent since it
\* connected, or the one the shell keeps; 0 is none.
Newest(c, n) ==
  /\ n \in 0 .. judged
  /\ judged > since[c] => n = judged
  /\ judged = since[c] /\ shell > NoState => n = shell

\* The messages of a client lead its page to state n, and hold one if n is not none.
LedTo(c, n) ==
  /\ Leads(wire[c], page[c].liveState, n)
  /\ n > 0 => IsTold(wire[c], page[c].liveState)

\* A connection that works is open at the server, its messages lead its page to the
\* newest state, and one opens a page that is not shown as connected.
Served(c) ==
  /\ readyState[c] = "open"
  /\ \E n \in Nat : Newest(c, n) /\ LedTo(c, n)
  /\ ~page[c].wsConnected => wire[c] # <<>> /\ Head(wire[c]) = Open

StreamInv == Typed /\ \A c \in up : Served(c)

LEMMA StreamInvInit == Init => StreamInv
BY DEF Init, StreamInv, Typed, NoState

LEMMA StreamInvJudge == StreamInv /\ (Judge \/ FailSafe) => StreamInv'
<1> SUFFICES ASSUME StreamInv, Judge \/ FailSafe PROVE StreamInv'
  OBVIOUS
<1>0. /\ judged \in Nat /\ judged' = judged + 1 /\ Broadcast(judged + 1)
      /\ shell' \in {shell, judged + 1} /\ UNCHANGED <<readyState, up, page, since>>
  BY DEF StreamInv, Typed, Judge, FailSafe
<1>1. Typed'
  <2>1. shell' \in {NoShell, NoState} \cup 1 .. judged'
    <3>1. shell \in {NoShell, NoState} \cup 1 .. judged
      BY DEF StreamInv, Typed
    <3> QED  BY <1>0, <3>1
  <2>2. \A c \in Clients : since'[c] \in 0 .. judged'
    <3>1. \A c \in Clients : since[c] \in 0 .. judged
      BY DEF StreamInv, Typed
    <3> QED  BY <1>0, <3>1
  <2>3. wire' = [c \in Clients |-> wire'[c]]
    BY <1>0 DEF Broadcast
  <2> QED  BY <1>0, <2>1, <2>2, <2>3 DEF StreamInv, Typed
<1>2. ASSUME NEW c \in up PROVE Served(c)'
  <2>1. c \in Recipients \cap up /\ c \in Clients
    BY DEF StreamInv, Typed, Served, Recipients
  <2>2. wire'[c] = Append(wire[c], judged + 1) /\ judged' = judged + 1 /\ page' = page
        /\ readyState' = readyState
    BY <1>0, <2>1 DEF Broadcast
  <2>3. PICK n \in 0 .. judged : Leads(wire[c], page[c].liveState, n)
    BY DEF StreamInv, Served, Newest, LedTo
  <2>4. Leads(wire'[c], page'[c].liveState, judged') /\ IsTold(wire'[c], page'[c].liveState)
    BY <1>0, <2>2, <2>3, AppendLeads
  <2>5. ~page'[c].wsConnected => wire'[c] # <<>> /\ Head(wire'[c]) = Open
    <3> SUFFICES ASSUME ~page[c].wsConnected
                 PROVE  wire'[c] # <<>> /\ Head(wire'[c]) = Open
      BY <2>2
    <3>1. wire[c] \in Seq(Messages) /\ judged + 1 \in Messages
      BY <1>0, <2>3 DEF Leads, Messages
    <3>2. wire[c] # <<>> /\ Head(wire[c]) = Open
      BY DEF StreamInv, Served
    <3> QED  BY <2>2, <3>1, <3>2, HeadTailAppend, AppendProperties
  <2>6. (\E m \in Nat : Newest(c, m) /\ LedTo(c, m))'
    <3>1. PICK m \in Nat : m = judged + 1
      BY <1>0
    <3>2. since'[c] \in 0 .. judged
      BY <1>0, <2>1 DEF StreamInv, Typed
    <3>3. m = judged' /\ m \in 0 .. judged' /\ judged' # since'[c]
      BY <1>0, <3>1, <3>2
    <3> QED  BY <2>4, <3>3 DEF Newest, LedTo
  <2> QED  BY <2>2, <2>5, <2>6 DEF StreamInv, Served
<1> QED  BY <1>0, <1>1, <1>2 DEF StreamInv

LEMMA StreamInvConnect ==
  ASSUME StreamInv, NEW c \in Clients, Connect(c)
  PROVE  StreamInv'
<1>1. Typed'
  <2>1. judged \in Nat /\ judged' = judged /\ shell' = shell /\ c \in Clients
    BY DEF StreamInv, Typed, Connect
  <2>2. \A d \in Clients : since'[d] \in 0 .. judged
    BY <2>1 DEF StreamInv, Typed, Connect
  <2> QED  BY <2>1, <2>2 DEF StreamInv, Typed, Connect
<1>2. Served(c)'
  <2>1. /\ wire'[c] = <<Open>> \o Snapshot /\ page'[c] = NewPage /\ judged' = judged
        /\ since'[c] = judged /\ shell' = shell /\ readyState'[c] = "open"
    BY DEF StreamInv, Typed, Connect
  <2>2. NewPage.liveState = NoState /\ NewPage.wsConnected = FALSE
    BY DEF NewPage
  <2>3. judged \in Nat /\ shell \in {NoShell, NoState} \cup 1 .. judged
    BY DEF StreamInv, Typed
  <2>4. PICK n \in 0 .. judged :
          (shell \in {NoShell, NoState} /\ n = 0) \/ (shell = n /\ n > 0)
    <3>1. CASE shell \in {NoShell, NoState}
      <4>1. 0 \in 0 .. judged
        BY <2>3
      <4> QED  BY <3>1, <4>1
    <3>2. CASE shell \in 1 .. judged
      <4>1. shell \in 0 .. judged /\ shell > 0
        BY <2>3, <3>2
      <4>2. \E n \in 0 .. judged : n = shell /\ n > 0
        BY <4>1
      <4> QED  BY <4>2
    <3> QED  BY <2>3, <3>1, <3>2
  <2>5. n \in Nat
    BY <2>3
  <2>6. /\ Leads(wire'[c], NoState, n) /\ wire'[c] # <<>> /\ Head(wire'[c]) = Open
        /\ n > 0 => IsTold(wire'[c], NoState)
    BY <2>1, <2>4, <2>5, OpenLeads DEF Snapshot
  <2>7. n \in 0 .. judged /\ judged' = since'[c] /\ ~(judged' > since'[c])
        /\ (shell' > NoState => n = shell')
    BY <2>1, <2>3, <2>4 DEF NoShell, NoState
  <2>8. (\E m \in Nat : Newest(c, m) /\ LedTo(c, m))'
    BY <2>1, <2>2, <2>5, <2>6, <2>7 DEF Newest, LedTo
  <2> QED  BY <2>1, <2>2, <2>6, <2>8 DEF Served
<1>3. ASSUME NEW d \in up \ {c} PROVE Served(d)'
  <2>1. /\ wire'[d] = wire[d] /\ page'[d] = page[d] /\ judged' = judged
        /\ since'[d] = since[d] /\ shell' = shell /\ readyState'[d] = readyState[d]
    BY DEF StreamInv, Typed, Connect
  <2> QED  BY <2>1 DEF StreamInv, Served, Newest, LedTo
<1> QED  BY <1>1, <1>2, <1>3 DEF StreamInv, Connect

LEMMA StreamInvDeliver ==
  ASSUME StreamInv, NEW c \in Clients, Deliver(c)
  PROVE  StreamInv'
<1>1. Typed'
  BY DEF StreamInv, Typed, Deliver
<1>2. ASSUME c \in up PROVE Served(c)'
  <2> DEFINE new == IF Head(wire[c]) = Open THEN page[c].liveState ELSE Head(wire[c])
  <2>1. /\ wire'[c] = Tail(wire[c]) /\ page'[c] = [liveState |-> new, wsConnected |-> TRUE]
        /\ wire[c] # <<>> /\ UNCHANGED <<judged, since, shell, readyState>>
    BY DEF StreamInv, Typed, Deliver
  <2>2. page'[c].liveState = new /\ page'[c].wsConnected = TRUE
    BY <2>1
  <2>3. PICK n \in Nat : Newest(c, n) /\ LedTo(c, n)
    BY <1>2 DEF StreamInv, Served
  <2>4. /\ Leads(Tail(wire[c]), new, n)
        /\ IsTold(wire[c], page[c].liveState) => IsTold(Tail(wire[c]), new)
    BY <2>1, <2>3, TailLeads DEF LedTo
  <2>5. readyState[c] = "open"
    BY <1>2 DEF StreamInv, Served
  <2> HIDE DEF new
  <2>6. (\E m \in Nat : Newest(c, m) /\ LedTo(c, m))'
    BY <2>1, <2>2, <2>3, <2>4 DEF Newest, LedTo
  <2> QED  BY <2>1, <2>2, <2>5, <2>6 DEF Served
<1>3. ASSUME NEW d \in up \ {c} PROVE Served(d)'
  <2>1. /\ wire'[d] = wire[d] /\ page'[d] = page[d] /\ judged' = judged
        /\ since'[d] = since[d] /\ shell' = shell /\ readyState'[d] = readyState[d]
    BY DEF StreamInv, Typed, Deliver
  <2> QED  BY <2>1 DEF StreamInv, Served, Newest, LedTo
<1> QED  BY <1>1, <1>2, <1>3 DEF StreamInv, Deliver

\* The other steps leave a connection that works as it is, but for the shell.
LEMMA StreamInvOthers ==
  ASSUME StreamInv,
         \/ Crash \/ Restart \/ UNCHANGED vars
         \/ \E c \in Clients : Break(c) \/ Error(c) \/ Closing(c) \/ Closed(c)
  PROVE  StreamInv'
<1>1. CASE Crash \/ Restart
  <2>1. Typed'
    BY <1>1 DEF StreamInv, Typed, Crash, Restart
  <2>2. ASSUME NEW c \in up PROVE Served(c)'
    <3>1. UNCHANGED <<judged, readyState, up, wire, page, since>> /\ shell' \in {NoShell, NoState}
      BY <1>1 DEF Crash, Restart
    <3>2. ~(shell' > NoState)
      BY <3>1 DEF NoShell, NoState
    <3> QED  BY <3>1, <3>2 DEF StreamInv, Served, Newest, LedTo
  <2> QED  BY <1>1, <2>1, <2>2 DEF StreamInv, Crash, Restart
<1>2. CASE UNCHANGED vars
  BY <1>2 DEF StreamInv, Typed, Served, Newest, LedTo, vars
<1>3. ASSUME NEW c \in Clients, Break(c) \/ Error(c) \/ Closing(c) \/ Closed(c)
      PROVE  StreamInv'
  <2>1. c \notin up' /\ up' \subseteq up /\ UNCHANGED <<judged, shell, since>>
    <3>1. CASE Closed(c)
      BY <3>1 DEF Closed, StreamInv, Served
    <3> QED  BY <1>3, <3>1 DEF Break, Error, Closing
  <2>2. /\ readyState' = [d \in Clients |-> readyState'[d]]
        /\ wire' = [d \in Clients |-> wire'[d]] /\ page' = [d \in Clients |-> page'[d]]
        /\ \A d \in Clients \ {c} : /\ readyState'[d] = readyState[d]
                                    /\ wire'[d] = wire[d] /\ page'[d] = page[d]
    BY <1>3 DEF StreamInv, Typed, Break, Error, Closing, Closed
  <2>3. Typed'
    BY <2>1, <2>2 DEF StreamInv, Typed
  <2>4. ASSUME NEW d \in up' PROVE Served(d)'
    <3>1. d \in up /\ d # c /\ d \in Clients
      BY <2>1, <2>4 DEF StreamInv, Typed
    <3> QED  BY <2>1, <2>2, <3>1 DEF StreamInv, Served, Newest, LedTo
  <2> QED  BY <2>3, <2>4 DEF StreamInv
<1> QED  BY <1>1, <1>2, <1>3

LEMMA StreamInvariant == Spec => []StreamInv
<1>1. StreamInv /\ [Next]_vars => StreamInv'
  BY StreamInvJudge, StreamInvConnect, StreamInvDeliver, StreamInvOthers DEF Next
<1> QED  BY <1>1, StreamInvInit, PTL DEF Spec

\* What a page shows comes before the messages on their way to it.
LEMMA ToldIs ==
  ASSUME NEW c, wire[c] \in Seq(Messages), page[c].liveState \in Messages
  PROVE  /\ Len(wire[c]) \in Nat
         /\ DOMAIN Told(c) = 1 .. Len(wire[c]) + 1
         /\ Told(c)[1] = page[c].liveState
         /\ \A i \in 1 .. Len(wire[c]) : Told(c)[i + 1] = wire[c][i]
<1> DEFINE one == <<page[c].liveState>>
<1>1. one \in Seq(Messages) /\ Len(one) = 1 /\ one[1] = page[c].liveState
  OBVIOUS
<1>2. Told(c) = one \o wire[c]
  BY DEF Told
<1> HIDE DEF one
<1>3. /\ Told(c) \in Seq(Messages) /\ Len(Told(c)) = Len(wire[c]) + 1
      /\ \A i \in 1 .. Len(wire[c]) + 1 :
           Told(c)[i] = IF i <= 1 THEN one[i] ELSE wire[c][i - 1]
  <2> DEFINE w == wire[c]
  <2>1. w \in Seq(Messages)
    OBVIOUS
  <2> HIDE DEF w
  <2>2. /\ one \o w \in Seq(Messages) /\ Len(one \o w) = Len(one) + Len(w)
        /\ \A i \in 1 .. Len(one) + Len(w) :
             (one \o w)[i] = IF i <= Len(one) THEN one[i] ELSE w[i - Len(one)]
    BY <1>1, <2>1, ConcatProperties
  <2>3. Len(one) + Len(w) = Len(w) + 1
    BY <1>1, <2>1
  <2> QED  BY <1>1, <1>2, <2>2, <2>3 DEF w
<1>4. Len(wire[c]) \in Nat
  OBVIOUS
<1> DEFINE k == Len(wire[c])
<1> HIDE DEF k
<1>5. k \in Nat /\ \A i \in 1 .. k : i + 1 \in 1 .. k + 1 /\ (i + 1) - 1 = i /\ ~(i + 1 <= 1)
  BY <1>4 DEF k
<1>6. Len(Told(c)) = k + 1 /\ DOMAIN Told(c) = 1 .. k + 1
  BY <1>3 DEF k
<1>7. \A i \in 1 .. k + 1 : Told(c)[i] = IF i <= 1 THEN one[i] ELSE wire[c][i - 1]
  BY <1>3 DEF k
<1>8. Told(c)[1] = page[c].liveState
  BY <1>1, <1>5, <1>7
<1>9. \A i \in 1 .. k : Told(c)[i + 1] = wire[c][i]
  BY <1>5, <1>7
<1> QED  BY <1>5, <1>6, <1>8, <1>9 DEF k

\* Every page whose connection works is on its way to the newest state sent since it
\* connected, fail-safe states included, or if none was, to the one the shell keeps.
THEOREM PagesAreTold == Spec => []ToldTheNewest
<1>1. StreamInv => ToldTheNewest
  <2> SUFFICES ASSUME StreamInv, NEW c \in up
               PROVE  /\ \A i, j \in States(c) : i < j => Told(c)[i] < Told(c)[j]
                      /\ \E n \in Nat : /\ Newest(c, n)
                                        /\ \A i \in States(c) :
                                             (\A j \in States(c) : j <= i) => Told(c)[i] = n
                                        /\ n > 0 => States(c) # {}
    <3>1. ASSUME StreamInv, NEW d \in up
          PROVE  /\ since[d] \in 0 .. judged /\ judged \in Nat /\ shell \in Int
                 /\ ~page[d].wsConnected => wire[d] # <<>> /\ Head(wire[d]) = Open
      <4>1. d \in Clients /\ Typed /\ Served(d)
        BY <3>1 DEF StreamInv, Typed
      <4>2. since[d] \in 0 .. judged /\ judged \in Nat
        BY <4>1 DEF Typed
      <4>3. shell \in Int
        BY <4>1 DEF Typed, NoShell, NoState
      <4>4. ~page[d].wsConnected => wire[d] # <<>> /\ Head(wire[d]) = Open
        BY <4>1 DEF Served
      <4> QED  BY <4>2, <4>3, <4>4
    <3>2. ASSUME NEW d \in up, NEW n \in Nat, since[d] \in 0 .. judged, judged \in Nat,
                 shell \in Int, Newest(d, n)
          PROVE  judged > since[d] \/ shell > NoState => n > 0
      BY <3>2 DEF Newest, NoState
    <3> QED  BY <3>1, <3>2 DEF ToldTheNewest, Newest
  <2> DEFINE w == wire[c]
             live == page[c].liveState
             t == Told(c)
             k == Len(w)
  <2>0. PICK n \in Nat : Newest(c, n) /\ LedTo(c, n)
    BY DEF StreamInv, Served
  <2>1. Leads(w, live, n) /\ Open = -2 /\ NoState = 0
    BY <2>0 DEF LedTo, Open, NoState
  <2>2. /\ w \in Seq(Messages) /\ live \in 0 .. n
        /\ \A i \in 1 .. k : w[i] = Open \/ w[i] \in 1 .. n
        /\ \A i, j \in 1 .. k : i < j /\ w[i] # Open => w[i] < w[j]
        /\ \A j \in 1 .. k : w[j] # Open => live < w[j]
        /\ \A i \in 1 .. k : w[i] = Open => i = 1
        /\ w # <<>> /\ w[k] # Open => w[k] = n
        /\ (\A i \in 1 .. k : w[i] = Open) => live \in {0, n}
    BY <2>1 DEF Leads
  <2>3. /\ k \in Nat /\ DOMAIN t = 1 .. k + 1 /\ t[1] = live
        /\ \A i \in 1 .. k : t[i + 1] = w[i]
    BY <2>1, <2>2, ToldIs DEF Messages
  <2>4. w = <<>> <=> k = 0
    BY <2>2
  <2> HIDE DEF w, live, t, k
  <2>5. \A i : i \in States(c) <=>
          \/ i = 1 /\ live # 0
          \/ i - 1 \in 1 .. k /\ i \in 1 .. k + 1 /\ i = (i - 1) + 1 /\ t[i] = w[i - 1] /\ w[i - 1] # Open
    <3>1. \A i \in 1 .. k + 1 : i = 1 \/ (i - 1 \in 1 .. k /\ i = (i - 1) + 1)
      BY <2>3
    <3>2. \A i \in 1 .. k + 1 : i # 1 => t[i] = w[i - 1]
      BY <2>3, <3>1
    <3>3. \A j \in 1 .. k : w[j] # NoState
      BY <2>1, <2>2
    <3>4. live # Open /\ 1 \in 1 .. k + 1 /\ ~(1 - 1 \in 1 .. k)
      BY <2>1, <2>2, <2>3
    <3> QED  BY <2>1, <2>3, <3>1, <3>2, <3>3, <3>4 DEF States, t
  <2>6. ASSUME NEW i \in States(c), NEW j \in States(c), i < j PROVE t[i] < t[j]
    <3>1. j - 1 \in 1 .. k /\ t[j] = w[j - 1] /\ w[j - 1] # Open
      BY <2>3, <2>5, <2>6
    <3>2. CASE i = 1
      BY <2>2, <2>3, <3>1, <3>2
    <3>3. CASE i # 1
      <4>1. i - 1 \in 1 .. k /\ t[i] = w[i - 1] /\ w[i - 1] # Open /\ i - 1 < j - 1
        BY <2>3, <2>5, <2>6, <3>1, <3>3
      <4> QED  BY <2>2, <3>1, <4>1
    <3> QED  BY <3>2, <3>3
  <2>7. ASSUME NEW i \in States(c), \A j \in States(c) : j <= i PROVE t[i] = n
    <3>1. CASE k > 0 /\ w[k] # Open
      <4>1. k + 1 \in States(c)
        <5>1. (k + 1) - 1 = k /\ k \in 1 .. k /\ k + 1 \in 1 .. k + 1 /\ t[k + 1] = w[k]
          BY <2>3, <3>1
        <5> QED  BY <2>5, <3>1, <5>1
      <4>2. i = k + 1
        BY <2>3, <2>5, <2>7, <4>1
      <4> QED  BY <2>2, <2>3, <2>4, <3>1, <4>2
    <3>2. CASE k = 0 \/ w[k] = Open
      <4>1. k \in {0, 1} /\ \A j \in 1 .. k : w[j] = Open
        BY <2>2, <2>3, <3>2
      <4>2. i = 1 /\ live # 0
        BY <2>5, <4>1
      <4> QED  BY <2>2, <2>3, <4>1, <4>2
    <3> QED  BY <2>3, <3>1, <3>2
  <2>8. ASSUME IsTold(w, live) PROVE States(c) # {}
    <3>1. CASE live # 0
      BY <2>5, <3>1
    <3>2. ASSUME NEW j \in 1 .. k, w[j] # Open PROVE States(c) # {}
      <4>1. (j + 1) - 1 = j /\ j + 1 \in 1 .. k + 1
        BY <2>3
      <4>2. j + 1 \in States(c)
        BY <2>3, <2>5, <3>2, <4>1
      <4> QED  BY <4>2
    <3> QED  BY <2>1, <2>8, <3>1, <3>2 DEF IsTold, k
  <2>9. n > 0 => States(c) # {}
    BY <2>0, <2>8 DEF LedTo, w, live
  <2> QED  BY <2>0, <2>6, <2>7, <2>9 DEF t
<1> QED  BY <1>1, StreamInvariant, PTL

=============================================================================
