--------------------------- MODULE Dashboard_proofs ---------------------------
(***************************************************************************)
(* Proofs about the dashboard, for every set of events and of pages and    *)
(* every capacity of a page's channel: its type invariant, that a snapshot *)
(* adds up, that what a page was sent is in the metrics it fetches next,   *)
(* that every page is sent events in the order of counting, and that       *)
(* nobody waits for a mutex that is never given back.                      *)
(*                                                                         *)
(* All of them rest on who holds which lock.  The inductive invariant says *)
(* that (Locking), what the counters and the snapshots hold meanwhile      *)
(* (Counting, Snapshots), and where an event may be that a page has not    *)
(* been shown yet (Feed, Kept).                                            *)
(***************************************************************************)
EXTENDS Dashboard, TLAPS

\* The stages of RecordEvent in which it holds Metrics.mu: while it waits for
\* the readers before it to leave, and when they have left.
Inside == {"decisions", "clients", "send"}
Holding == {"totals"} \cup Inside

Locking ==
  /\ \A e \in Events : rec[e] \in Holding <=> metricsMu.writer = e
  /\ \A e \in Events : rec[e] \in Inside => metricsMu.readers = {}
  /\ \A e \in Events : rec[e] = "send" <=> e \in clientsMu.readers
  /\ \A e \in Events : todo[e] # {} => rec[e] = "send"
  /\ \A p \in Pages : get[p] \in {"maps", "totals"} <=> p \in metricsMu.readers
  /\ \A p \in Pages : sse[p] \in {"add", "remove"} <=> clientsMu.writer = p
  /\ \A p \in Pages : taken[p] # none <=> sse[p] = "write"
  /\ \A p \in Pages : sse[p] \in {"leave", "remove"} => p \in away

\* Half counted: the totals have the event, the decisions do not yet.
Half == \E e \in Events : rec[e] = "decisions"

Counting ==
  /\ \A e \in Events : rec[e] \in Inside \cup {"done"} <=> e \in ToSet(counted)
  /\ \A e \in Events : rec[e] \in Inside => counted[Len(counted)] = e
  /\ metrics.requests = metrics.denied + metrics.allowed + (IF Half THEN 1 ELSE 0)

SnapshotOf(p) ==
  /\ expects[p] \subseteq ToSet(counted)
  /\ get[p] = "totals" => copy[p].denied + copy[p].allowed = metrics.requests
  /\ get[p] = "answered" => /\ copy[p].denied + copy[p].allowed = copy[p].requests
                            /\ expects[p] \subseteq ToSet(copy[p].of)
Snapshots == \A p \in Pages : SnapshotOf(p)

\* a comes before b in the sequence c, that of the events counted.
Before(c, a, b) ==
  \E k, l \in 1..Len(c) : k < l /\ c[k] = a /\ c[l] = b
Ordered(c, s) == \A i, j \in 1..Len(s) : i < j => Before(c, s[i], s[j])
AllBefore(c, S, T) == \A a \in S, b \in T : Before(c, a, b)

\* The events shown (s), being written (w) and waiting (q) are in line: each
\* before those after it, in the order of c.
InLine(c, s, w, q) ==
  /\ Ordered(c, s) /\ Ordered(c, q)
  /\ AllBefore(c, ToSet(s), w)
  /\ AllBefore(c, ToSet(s), ToSet(q))
  /\ AllBefore(c, w, ToSet(q))

\* What p has been given is in line, and consists of events whose loop has come
\* past p.
Writing(p) == {taken[p]} \ {none}
Given(p) == ToSet(shown[p]) \cup Writing(p) \cup ToSet(chan[p])
FeedOf(p) ==
  /\ InLine(counted, shown[p], Writing(p), chan[p])
  /\ \A e \in Given(p) : rec[e] \in {"send", "done"} /\ p \notin todo[e]
Feed == \A p \in Pages : FeedOf(p)

Kept ==
  /\ \A p \in Pages : Len(chan[p]) <= Len(offered[p])
  /\ \A p \in Pages \ away : FirstOnesKept(p)

IInv == TypeOK /\ Locking /\ Counting /\ Snapshots /\ Feed /\ Kept

-----------------------------------------------------------------------------
(* The type invariant, in parts: what one goroutine changes leaves most of  *)
(* them alone.                                                              *)

Count == [requests : Nat, denied : Nat, allowed : Nat]
Copy == [requests : Nat, denied : Nat, allowed : Nat, of : Seq(Events)]

LocksType ==
  /\ metricsMu \in [writer : Events \cup {none}, readers : SUBSET Pages]
  /\ clientsMu \in [writer : Pages \cup {none}, readers : SUBSET Events]
RecordersType ==
  /\ metrics \in Count
  /\ rec \in [Events -> {"new", "totals", "decisions", "clients", "send", "done"}]
  /\ counted \in Seq(Events)
StreamsType ==
  /\ away \subseteq Pages
  /\ shown \in [Pages -> Seq(Events)] /\ offered \in [Pages -> Seq(Events)]
  /\ taken \in [Pages -> Events \cup {none}]
  /\ sse \in [Pages -> {"closed", "lock", "add", "select", "write", "leave",
                        "remove"}]
ClientsType ==
  /\ clients \subseteq Pages
  /\ todo \in [Events -> SUBSET clients]
  /\ chan \in [Pages -> Seq(Events)]
  /\ \A p \in Pages : Len(chan[p]) <= Capacity
  /\ \A p \in Pages : chan[p] # <<>> => p \in clients
FetchesType ==
  /\ get \in [Pages -> {"idle", "lock", "maps", "totals", "answered"}]
  /\ copy \in [Pages -> Copy]
  /\ expects \in [Pages -> SUBSET Events]

Typed == LocksType /\ RecordersType /\ StreamsType /\ ClientsType /\ FetchesType

\* The type invariant in named parts.
LEMMA TypeParts == TypeOK <=> Typed
BY DEF TypeOK, Typed, LocksType, RecordersType, StreamsType, ClientsType, FetchesType,
       Count, Copy

\* Locking and unlocking keep the type of a mutex.
LEMMA MutexType ==
  ASSUME NEW W, NEW R, NEW mu \in [writer : W \cup {none}, readers : SUBSET R]
  PROVE  /\ \A w \in W : [mu EXCEPT !.writer = w] \in
                           [writer : W \cup {none}, readers : SUBSET R]
         /\ \A r \in R : [mu EXCEPT !.readers = @ \cup {r}] \in
                           [writer : W \cup {none}, readers : SUBSET R]
         /\ Unlocked(mu) \in [writer : W \cup {none}, readers : SUBSET R]
         /\ \A r : RUnlocked(mu, r) \in [writer : W \cup {none}, readers : SUBSET R]
BY DEF Unlocked, RUnlocked

\* So do the two halves of a snapshot that of a copy.
LEMMA CopyType ==
  ASSUME NEW c \in Copy, NEW m \in Nat, NEW n \in Nat
  PROVE  /\ [c EXCEPT !.denied = m, !.allowed = n] \in Copy
         /\ \A s \in Seq(Events) : [c EXCEPT !.requests = m, !.of = s] \in Copy
BY DEF Copy

\* A set of the members of a sequence, and of one that has grown or shrunk.
LEMMA ToSetAppend ==
  ASSUME NEW S, NEW s \in Seq(S), NEW x \in S
  PROVE  ToSet(Append(s, x)) = ToSet(s) \cup {x}
<1> DEFINE t == Append(s, x)
<1>1. /\ DOMAIN t = 1..Len(s)+1 /\ DOMAIN s = 1..Len(s)
      /\ t[Len(s) + 1] = x
      /\ \A i \in 1..Len(s) : t[i] = s[i]
      /\ Len(s) \in Nat
  OBVIOUS
<1> HIDE DEF t
<1>2. ASSUME NEW i \in DOMAIN t PROVE t[i] \in ToSet(s) \cup {x}
  <2>1. CASE i \in 1..Len(s)
    BY <1>1, <2>1 DEF ToSet
  <2>2. CASE i = Len(s) + 1
    BY <1>1, <2>2
  <2> QED
    BY <1>1, <1>2, <2>1, <2>2
<1>3. ASSUME NEW i \in DOMAIN s PROVE s[i] \in ToSet(t)
  BY <1>1, <1>3 DEF ToSet
<1>4. x \in ToSet(t)
  BY <1>1 DEF ToSet
<1>5. ToSet(t) = ToSet(s) \cup {x}
  BY <1>2, <1>3, <1>4 DEF ToSet
<1> QED
  BY <1>5 DEF t

\* A sequence is its head and its tail, and its members are theirs.
LEMMA ToSetTail ==
  ASSUME NEW S, NEW s \in Seq(S), s # <<>>
  PROVE  /\ Head(s) \in S /\ Tail(s) \in Seq(S) /\ Len(Tail(s)) = Len(s) - 1
         /\ ToSet(s) = ToSet(Tail(s)) \cup {Head(s)}
<1>1. Head(s) \in S /\ Tail(s) \in Seq(S) /\ Len(Tail(s)) = Len(s) - 1
  OBVIOUS
<1>2. ToSet(Tail(s)) \cup {Head(s)} \subseteq ToSet(s)
  BY DEF ToSet
<1>3. ASSUME NEW i \in DOMAIN s PROVE s[i] \in ToSet(Tail(s)) \cup {Head(s)}
  <2>1. CASE i = 1
    BY <2>1
  <2>2. CASE i # 1
    <3>1. i - 1 \in DOMAIN Tail(s) /\ Tail(s)[i-1] = s[i]
      BY <1>3, <2>2
    <3> QED
      BY <3>1 DEF ToSet
  <2> QED
    BY <2>1, <2>2
<1> QED
  BY <1>1, <1>2, <1>3 DEF ToSet

\* The members of a sequence over a set are in the set.
LEMMA ToSetType ==
  ASSUME NEW S, NEW s \in Seq(S)
  PROVE  ToSet(s) \subseteq S /\ (\A i \in 1..Len(s) : s[i] \in ToSet(s)) /\ ToSet(<<>>) = {}
BY DEF ToSet

\* The initial state has its type.
LEMMA TypeInit == Init => TypeOK
<1> SUFFICES ASSUME Init PROVE TypeOK
  OBVIOUS
<1>1. LocksType
  BY DEF Init, Free, LocksType
<1>2. RecordersType
  BY DEF Init, RecordersType, Count
<1>3. StreamsType
  BY DEF Init, StreamsType
<1>4. ClientsType
  BY DashboardAssumption DEF Init, ClientsType
<1>5. FetchesType
  BY DEF Init, FetchesType, NoCount, Copy
<1> QED
  BY <1>1, <1>2, <1>3, <1>4, <1>5, TypeParts DEF Typed

\* What an action leaves alone keeps its type.
LEMMA TypeKept ==
  /\ LocksType /\ UNCHANGED locks => LocksType'
  /\ RecordersType /\ UNCHANGED <<metrics, rec, counted>> => RecordersType'
  /\ StreamsType /\ UNCHANGED <<away, shown, offered, taken, sse>> => StreamsType'
  /\ ClientsType /\ UNCHANGED <<clients, todo, chan>> => ClientsType'
  /\ FetchesType /\ UNCHANGED fetches => FetchesType'
BY DEF LocksType, RecordersType, StreamsType, ClientsType, FetchesType, locks, fetches

\* Every step keeps the types.
LEMMA TypeStep ==
  ASSUME TypeOK, Locking, [Next]_vars
  PROVE  TypeOK'
<1> USE DashboardAssumption DEF Typed
<1>0. Typed
  BY TypeParts
<1> SUFFICES Typed'
  BY TypeParts, PTL
<1>1. ASSUME NEW e \in Events, LockMetrics(e) PROVE LocksType' /\ RecordersType'
  <2>1. metricsMu' \in [writer : Events \cup {none}, readers : SUBSET Pages]
    BY <1>0, <1>1, MutexType DEF LockMetrics, Announce, LocksType
  <2> QED
    BY <1>0, <1>1, <2>1 DEF LockMetrics, LocksType, RecordersType
<1>2. ASSUME NEW e \in Events, CountTotals(e) PROVE RecordersType'
  <2>1. metrics' \in Count
    BY <1>0, <1>2 DEF CountTotals, RecordersType, Count
  <2> QED
    BY <1>0, <1>2, <2>1 DEF CountTotals, RecordersType
<1>3. ASSUME NEW e \in Events, CountDecisions(e) PROVE RecordersType'
  <2>1. metrics' \in Count
    BY <1>0, <1>3 DEF CountDecisions, RecordersType, Count
  <2> QED
    BY <1>0, <1>3, <2>1 DEF CountDecisions, RecordersType
<1>4. ASSUME NEW e \in Events, LockClients(e)
      PROVE LocksType' /\ RecordersType' /\ ClientsType'
  <2>1. clientsMu' \in [writer : Pages \cup {none}, readers : SUBSET Events]
    BY <1>0, <1>4, MutexType DEF LockClients, RLock, LocksType
  <2>2. LocksType' /\ RecordersType'
    BY <1>0, <1>4, <2>1 DEF LockClients, LocksType, RecordersType
  <2> QED
    BY <1>0, <1>4, <2>2 DEF LockClients, ClientsType, streams
<1>5. ASSUME NEW e \in Events, Send(e) PROVE ClientsType' /\ StreamsType'
  <2>1. PICK p \in todo[e] :
          /\ chan' = IF Len(chan[p]) < Capacity
                     THEN [chan EXCEPT ![p] = Append(@, e)] ELSE chan
          /\ offered' = [offered EXCEPT ![p] = Append(@, e)]
          /\ todo' = [todo EXCEPT ![e] = @ \ {p}]
    BY <1>5 DEF Send
  <2>2. p \in clients /\ p \in Pages
    BY <1>0 DEF ClientsType
  <2>3. Append(chan[p], e) \in Seq(Events) /\ Len(Append(chan[p], e)) = Len(chan[p]) + 1
    BY <1>0, <2>2 DEF ClientsType
  <2>4. Append(offered[p], e) \in Seq(Events)
    BY <1>0, <2>2 DEF StreamsType
  <2>5. chan' \in [Pages -> Seq(Events)] /\ offered' \in [Pages -> Seq(Events)]
    BY <1>0, <2>1, <2>3, <2>4 DEF ClientsType, StreamsType
  <2>6. \A q \in Pages : Len(chan'[q]) <= Capacity
    BY <1>0, <2>1, <2>3 DEF ClientsType
  <2>7. \A q \in Pages : chan'[q] # <<>> => q \in clients
    BY <1>0, <2>1, <2>2 DEF ClientsType
  <2>8. todo' \in [Events -> SUBSET clients]
    BY <1>0, <2>1 DEF ClientsType
  <2> QED
    BY <1>0, <1>5, <2>5, <2>6, <2>7, <2>8 DEF Send, ClientsType, StreamsType
<1>6. ASSUME NEW e \in Events, Recorded(e) PROVE LocksType' /\ RecordersType'
  <2>1. /\ metricsMu' \in [writer : Events \cup {none}, readers : SUBSET Pages]
        /\ clientsMu' \in [writer : Pages \cup {none}, readers : SUBSET Events]
    BY <1>0, <1>6, MutexType DEF Recorded, LocksType
  <2> QED
    BY <1>0, <1>6, <2>1 DEF Recorded, LocksType, RecordersType
<1>7. ASSUME NEW p \in Pages, Open(p) PROVE StreamsType'
  BY <1>0, <1>7 DEF Open, StreamsType
<1>8. ASSUME NEW p \in Pages, LockForUpdate(p) PROVE LocksType' /\ StreamsType'
  <2>1. clientsMu' \in [writer : Pages \cup {none}, readers : SUBSET Events]
    BY <1>0, <1>8, MutexType DEF LockForUpdate, Announce, LocksType
  <2>2. LocksType'
    BY <1>0, <1>8, <2>1 DEF LockForUpdate, LocksType
  <2>3. StreamsType'
    BY <1>0, <1>8 DEF LockForUpdate, StreamsType
  <2> QED
    BY <2>2, <2>3
<1>9. ASSUME NEW p \in Pages, Add(p) PROVE LocksType' /\ StreamsType' /\ ClientsType'
  <2>1. clientsMu' \in [writer : Pages \cup {none}, readers : SUBSET Events]
    BY <1>0, <1>9 DEF Add, Unlocked, LocksType
  <2>2. LocksType' /\ StreamsType'
    <3>1. LocksType'
      BY <1>0, <1>9, <2>1 DEF Add, LocksType
    <3>2. StreamsType'
      BY <1>0, <1>9 DEF Add, StreamsType
    <3> QED
      BY <3>1, <3>2
  <2>3. ClientsType'
    <3>1. clients' = clients \cup {p} /\ UNCHANGED <<todo, chan>>
      BY <1>9 DEF Add, recorders
    <3> QED
      BY <1>0, <3>1 DEF ClientsType
  <2> QED
    BY <2>2, <2>3
<1>10. ASSUME NEW p \in Pages, Receive(p) PROVE StreamsType' /\ ClientsType'
  <2>1. /\ Head(chan[p]) \in Events /\ Tail(chan[p]) \in Seq(Events)
        /\ Len(Tail(chan[p])) = Len(chan[p]) - 1
    BY <1>0, <1>10, ToSetTail DEF Receive, ClientsType
  <2>2. StreamsType'
    BY <1>0, <1>10, <2>1 DEF Receive, StreamsType
  <2>3. Len(chan[p]) \in Nat /\ Len(chan[p]) <= Capacity
    BY <1>0 DEF ClientsType
  <2>4. ClientsType'
    BY <1>0, <1>10, <2>1, <2>3 DEF Receive, ClientsType, recorders
  <2> QED
    BY <2>2, <2>4
<1>11. ASSUME NEW p \in Pages, Write(p) PROVE StreamsType'
  <2>1. taken[p] \in Events
    BY <1>11 DEF Write, TypeOK, Locking
  <2>2. Append(shown[p], taken[p]) \in Seq(Events)
    BY <1>0, <2>1 DEF StreamsType
  <2>3. shown' \in [Pages -> Seq(Events)]
    BY <1>0, <1>11, <2>2 DEF Write, StreamsType
  <2>4. UNCHANGED <<away, offered>> /\ taken' \in [Pages -> Events \cup {none}]
    BY <1>0, <1>11 DEF Write, StreamsType
  <2> QED
    BY <1>0, <1>11, <2>3, <2>4 DEF Write, StreamsType
<1>12. ASSUME NEW p \in Pages, Done(p) PROVE StreamsType'
  BY <1>0, <1>12 DEF Done, StreamsType
<1>13. ASSUME NEW p \in Pages, Delete(p) PROVE LocksType' /\ StreamsType' /\ ClientsType'
  <2>1. clientsMu' \in [writer : Pages \cup {none}, readers : SUBSET Events]
    BY <1>0, <1>13 DEF Delete, Unlocked, LocksType
  <2>2. LocksType' /\ StreamsType'
    <3>1. LocksType'
      BY <1>0, <1>13, <2>1 DEF Delete, LocksType
    <3>2. StreamsType'
      BY <1>0, <1>13 DEF Delete, StreamsType
    <3> QED
      BY <3>1, <3>2
  <2>3. \A e \in Events : todo[e] = {}
    BY <1>13 DEF Delete, Entered, Locking
  <2>4. ClientsType'
    BY <1>0, <1>13, <2>3 DEF Delete, ClientsType, recorders
  <2> QED
    BY <2>2, <2>4
<1>14. ASSUME NEW p \in Pages, GoAway(p) PROVE StreamsType'
  BY <1>0, <1>14 DEF GoAway, StreamsType
<1>15. ASSUME NEW p \in Pages, Fetch(p) PROVE FetchesType'
  <2>1. ToSet(shown[p]) \in SUBSET Events
    BY <1>0, ToSetType DEF StreamsType
  <2> QED
    BY <1>0, <1>15, <2>1 DEF Fetch, FetchesType
<1>16. ASSUME NEW p \in Pages, LockSnapshot(p) PROVE LocksType' /\ FetchesType'
  <2>1. metricsMu' \in [writer : Events \cup {none}, readers : SUBSET Pages]
    BY <1>0, <1>16, MutexType DEF LockSnapshot, RLock, LocksType
  <2> QED
    BY <1>0, <1>16, <2>1 DEF LockSnapshot, LocksType, FetchesType
<1>17. ASSUME NEW p \in Pages, CopyMaps(p) PROVE FetchesType'
  <2>1. [copy[p] EXCEPT !.denied = metrics.denied, !.allowed = metrics.allowed] \in Copy
    <3>1. copy[p] \in Copy /\ metrics.denied \in Nat /\ metrics.allowed \in Nat
      BY <1>0 DEF FetchesType, RecordersType, Count
    <3> QED
      BY <3>1, CopyType
  <2> QED
    BY <1>0, <1>17, <2>1 DEF CopyMaps, FetchesType
<1>18. ASSUME NEW p \in Pages, CopyTotals(p) PROVE LocksType' /\ FetchesType'
  <2>1. metricsMu' \in [writer : Events \cup {none}, readers : SUBSET Pages]
    <3>1. metricsMu' = RUnlocked(metricsMu, p)
      BY <1>18 DEF CopyTotals
    <3> QED
      BY <1>0, <3>1, MutexType DEF LocksType
  <2>2. [copy[p] EXCEPT !.requests = metrics.requests, !.of = counted] \in Copy
    <3>1. copy[p] \in Copy /\ metrics.requests \in Nat /\ counted \in Seq(Events)
      BY <1>0 DEF FetchesType, RecordersType, Count
    <3> QED
      BY <3>1, CopyType
  <2> QED
    BY <1>0, <1>18, <2>1, <2>2 DEF CopyTotals, LocksType, FetchesType
<1>19. ASSUME NEW p \in Pages, Update(p) PROVE FetchesType'
  BY <1>0, <1>19 DEF Update, FetchesType
<1>20. CASE UNCHANGED vars
  BY <1>0, <1>20, TypeKept DEF vars, locks, recorders, streams, fetches
<1>21. ASSUME NEW e \in Events, RecordEvent(e) PROVE Typed'
  BY <1>0, <1>21, <1>1, <1>2, <1>3, <1>4, <1>5, <1>6, TypeKept
  DEF RecordEvent, LockMetrics, CountTotals, CountDecisions, LockClients, Send,
      Recorded, locks, streams, fetches
<1>22. ASSUME NEW p \in Pages,
              Open(p) \/ Stream(p) \/ Write(p) \/ GoAway(p) \/ Fetch(p) \/ GetMetrics(p)
       PROVE  Typed'
  <2>1. CASE Open(p) \/ Write(p) \/ GoAway(p)
    BY <1>0, <2>1, <1>7, <1>11, <1>14, TypeKept DEF Open, Write, GoAway, recorders
  <2>2. CASE Stream(p)
    BY <1>0, <2>2, <1>8, <1>9, <1>10, <1>12, <1>13, TypeKept
    DEF Stream, LockForUpdate, Add, Receive, Done, Delete, locks, recorders
  <2>3. CASE Fetch(p) \/ GetMetrics(p)
    BY <1>0, <2>3, <1>15, <1>16, <1>17, <1>18, <1>19, TypeKept
    DEF Fetch, GetMetrics, LockSnapshot, CopyMaps, CopyTotals, Update, locks,
        recorders, streams
  <2> QED
    BY <1>22, <2>1, <2>2, <2>3
<1> QED
  BY <1>20, <1>21, <1>22 DEF Next

-----------------------------------------------------------------------------
(* Who holds which lock.                                                    *)

\* Nobody holds the lock at first.
LEMMA LockingInit == Init => Locking
BY DashboardAssumption DEF Init, Free, Locking, Holding, Inside

\* Every step keeps each lock with those that hold it.
LEMMA LockingStep ==
  ASSUME TypeOK, Locking, [Next]_vars
  PROVE  Locking'
<1> USE DashboardAssumption DEF Holding, Inside
<1>0. /\ LocksType /\ RecordersType /\ StreamsType /\ ClientsType /\ FetchesType
      /\ todo \in [Events -> SUBSET Pages]
  BY TypeParts DEF Typed, ClientsType
<1>1. ASSUME NEW e \in Events, RecordEvent(e) PROVE Locking'
  <2> USE <1>0 DEF LocksType, RecordersType, Locking, streams, fetches
  <2>1. CASE LockMetrics(e)
    BY <2>1 DEF LockMetrics, Announce
  <2>2. CASE CountTotals(e)
    BY <2>2 DEF CountTotals, Entered, locks
  <2>3. CASE CountDecisions(e)
    BY <2>3 DEF CountDecisions, locks
  <2>4. CASE LockClients(e)
    BY <2>4 DEF LockClients, RLock
  <2>5. CASE Send(e)
    BY <2>5 DEF Send, locks
  <2>6. CASE Recorded(e)
    BY <2>6 DEF Recorded, Unlocked, RUnlocked
  <2> QED
    BY <1>1, <2>1, <2>2, <2>3, <2>4, <2>5, <2>6 DEF RecordEvent
<1>2. ASSUME NEW p \in Pages, Open(p) \/ Stream(p) \/ Write(p) \/ GoAway(p)
      PROVE  Locking'
  <2> USE <1>0 DEF LocksType, StreamsType, Locking, recorders, fetches
  <2>1. CASE Open(p)
    BY <2>1 DEF Open, locks
  <2>2. CASE LockForUpdate(p)
    BY <2>2 DEF LockForUpdate, Announce
  <2>3. CASE Add(p)
    BY <2>3 DEF Add, Unlocked
  <2>4. CASE Receive(p)
    <3>1. Head(chan[p]) \in Events
      BY <2>4, ToSetTail DEF Receive, ClientsType
    <3> QED
      BY <2>4, <3>1 DEF Receive, locks
  <2>5. CASE Write(p)
    BY <2>5 DEF Write, locks
  <2>6. CASE Done(p)
    BY <2>6 DEF Done, locks
  <2>7. CASE Delete(p)
    BY <2>7 DEF Delete, Unlocked
  <2>8. CASE GoAway(p)
    BY <2>8 DEF GoAway, locks
  <2> QED
    BY <1>2, <2>1, <2>2, <2>3, <2>4, <2>5, <2>6, <2>7, <2>8 DEF Stream
<1>3. ASSUME NEW p \in Pages, Fetch(p) \/ GetMetrics(p) PROVE Locking'
  <2> USE <1>0 DEF LocksType, FetchesType, Locking, recorders, streams
  <2>1. CASE Fetch(p)
    BY <2>1 DEF Fetch, locks
  <2>2. CASE LockSnapshot(p)
    BY <2>2 DEF LockSnapshot, RLock
  <2>3. CASE CopyMaps(p)
    BY <2>3 DEF CopyMaps, locks
  <2>4. CASE CopyTotals(p)
    BY <2>4 DEF CopyTotals, RUnlocked
  <2>5. CASE Update(p)
    BY <2>5 DEF Update, locks
  <2> QED
    BY <1>3, <2>1, <2>2, <2>3, <2>4, <2>5 DEF GetMetrics
<1>4. CASE UNCHANGED vars
  BY <1>4 DEF vars, locks, recorders, streams, fetches, Locking
<1> QED
  BY <1>1, <1>2, <1>3, <1>4 DEF Next

-----------------------------------------------------------------------------
(* The counters.                                                            *)

\* One event at a time is between its Lock and its Unlock.
LEMMA OneHolder ==
  ASSUME Locking, NEW e \in Events, NEW f \in Events,
         rec[e] \in Holding, rec[f] \in Holding
  PROVE  e = f
BY DEF Locking

\* Nothing is counted at first.
LEMMA CountingInit == Init => Counting
<1> SUFFICES ASSUME Init PROVE Counting
  OBVIOUS
<1>1. ~Half /\ \A e \in Events : rec[e] \notin Inside \cup {"done"}
  BY DEF Init, Half, Inside
<1>2. ToSet(counted) = {}
  BY DEF Init, ToSet
<1>3. metrics.requests = metrics.denied + metrics.allowed + 0
  BY DEF Init
<1> QED
  BY <1>1, <1>2, <1>3 DEF Counting

\* Every step keeps the counters in step with what was recorded.
LEMMA CountingStep ==
  ASSUME TypeOK, Locking, Counting, [Next]_vars
  PROVE  Counting'
<1>0. LocksType /\ RecordersType
  BY TypeParts DEF Typed
<1>1. ASSUME UNCHANGED <<rec, counted, metrics>> PROVE Counting'
  BY <1>1 DEF Counting, Half
<1>2. ASSUME NEW e \in Events, LockMetrics(e) PROVE Counting'
  <2>1. ~\E f \in Events : rec[f] \in Holding
    BY <1>0, <1>2, DashboardAssumption DEF LockMetrics, Announce, Locking, LocksType
  <2>2. Half' = FALSE /\ Half = FALSE
    BY <1>0, <1>2, <2>1 DEF LockMetrics, Half, Holding, Inside, RecordersType
  <2> QED
    BY <1>0, <1>2, <2>1, <2>2
    DEF LockMetrics, Counting, Holding, Inside, RecordersType
<1>3. ASSUME NEW e \in Events, CountTotals(e) PROVE Counting'
  <2>1. \A f \in Events \ {e} : rec[f] \notin Holding
    BY <1>3, OneHolder DEF CountTotals, Holding
  <2>2. Half' /\ ~Half
    BY <1>0, <1>3, <2>1 DEF CountTotals, Half, Holding, Inside, RecordersType
  <2>3. metrics' = [metrics EXCEPT !.requests = @ + 1]
    BY <1>3 DEF CountTotals
  <2>4. metrics'.requests = metrics'.denied + metrics'.allowed + 1
    BY <1>0, <2>2, <2>3 DEF Counting, RecordersType, Count
  <2>5. ToSet(counted') = ToSet(counted) \cup {e}
    BY <1>0, <1>3, ToSetAppend DEF CountTotals, RecordersType
  <2>6. counted'[Len(counted')] = e
    BY <1>0, <1>3 DEF CountTotals, RecordersType
  <2> QED
    BY <1>0, <1>3, <2>1, <2>2, <2>4, <2>5, <2>6
    DEF CountTotals, Counting, Holding, Inside, RecordersType
<1>4. ASSUME NEW e \in Events, CountDecisions(e) PROVE Counting'
  <2>1. \A f \in Events \ {e} : rec[f] \notin Holding
    BY <1>4, OneHolder DEF CountDecisions, Holding, Inside
  <2>2. ~Half' /\ Half
    BY <1>0, <1>4, <2>1 DEF CountDecisions, Half, Holding, Inside, RecordersType
  <2>3. metrics' = [metrics EXCEPT !.denied = @ + 1] \/ metrics' = [metrics EXCEPT !.allowed = @ + 1]
    BY <1>4 DEF CountDecisions
  <2>4. metrics'.requests = metrics'.denied + metrics'.allowed + 0
    <3>1. metrics.requests = metrics.denied + metrics.allowed + 1
      BY <2>2 DEF Counting
    <3>2. metrics \in Count
      BY <1>0 DEF RecordersType
    <3> QED
      BY <2>3, <3>1, <3>2 DEF Count
  <2> QED
    BY <1>0, <1>4, <2>1, <2>2, <2>4
    DEF CountDecisions, Counting, Holding, Inside, RecordersType
<1>5. ASSUME NEW e \in Events, LockClients(e) \/ Recorded(e) PROVE Counting'
  <2>1. UNCHANGED <<counted, metrics>>
    BY <1>5 DEF LockClients, Recorded
  <2>2. \A f \in Events : /\ rec'[f] = "decisions" <=> rec[f] = "decisions"
                          /\ rec'[f] \in Inside => rec[f] \in Inside
                          /\ rec'[f] \in Inside \cup {"done"} <=>
                               rec[f] \in Inside \cup {"done"}
    BY <1>0, <1>5 DEF LockClients, Recorded, Inside, RecordersType
  <2>3. Half' <=> Half
    BY <2>2 DEF Half
  <2> QED
    BY <2>1, <2>2, <2>3 DEF Counting
<1>6. ASSUME NEW e \in Events, Send(e) PROVE Counting'
  BY <1>1, <1>6 DEF Send
<1>7. ASSUME NEW p \in Pages,
             Open(p) \/ Stream(p) \/ Write(p) \/ GoAway(p) \/ Fetch(p) \/ GetMetrics(p)
      PROVE  UNCHANGED recorders \/ UNCHANGED <<rec, counted, metrics>>
  BY <1>7 DEF Open, Stream, LockForUpdate, Add, Receive, Done, Delete, Write, GoAway, Fetch,
     GetMetrics, LockSnapshot, CopyMaps, CopyTotals, Update
<1> QED
  BY <1>1, <1>2, <1>3, <1>4, <1>5, <1>6, <1>7 DEF Next, RecordEvent, vars, recorders

-----------------------------------------------------------------------------
(* The snapshots.                                                           *)

\* No page has a snapshot at first.
LEMMA SnapshotsInit == Init => Snapshots
BY DEF Init, Snapshots, SnapshotOf

\* Every step keeps the snapshots that pages take consistent.
LEMMA SnapshotsStep ==
  ASSUME TypeOK, Locking, Counting, Feed, Snapshots, [Next]_vars
  PROVE  Snapshots'
<1>0. LocksType /\ RecordersType /\ FetchesType /\ StreamsType
  BY TypeParts DEF Typed
<1>1. SUFFICES ASSUME NEW p \in Pages PROVE SnapshotOf(p)'
  BY DEF Snapshots
<1>2. SnapshotOf(p)
  BY DEF Snapshots
<1>3. ASSUME NEW e \in Events, RecordEvent(e) PROVE SnapshotOf(p)'
  <2>1. UNCHANGED fetches
    BY <1>3 DEF RecordEvent, LockMetrics, CountTotals, CountDecisions, LockClients,
       Send, Recorded
  <2>2. ToSet(counted) \subseteq ToSet(counted')
    <3>1. CASE CountTotals(e)
      BY <1>0, <3>1, ToSetAppend DEF CountTotals, RecordersType
    <3>2. CASE ~CountTotals(e)
      BY <1>3, <3>2 DEF RecordEvent, LockMetrics, CountDecisions, LockClients, Send,
         Recorded
    <3> QED
      BY <3>1, <3>2
  <2>3. get[p] = "totals" => metrics' = metrics
    <3>1. get[p] = "totals" => metricsMu.readers # {}
      BY DEF Locking
    <3>2. CASE CountTotals(e)
      BY <3>1, <3>2 DEF CountTotals, Entered
    <3>3. CASE CountDecisions(e)
      BY <3>1, <3>3 DEF CountDecisions, Locking, Inside
    <3>4. CASE ~CountTotals(e) /\ ~CountDecisions(e)
      BY <1>3, <3>4 DEF RecordEvent, LockMetrics, LockClients, Send, Recorded
    <3> QED
      BY <3>2, <3>3, <3>4
  <2> QED
    BY <1>2, <2>1, <2>2, <2>3 DEF SnapshotOf, fetches
<1>4. ASSUME NEW q \in Pages, Open(q) \/ Stream(q) \/ Write(q) \/ GoAway(q)
      PROVE  SnapshotOf(p)'
  <2>1. UNCHANGED <<fetches, counted, metrics>>
    BY <1>4 DEF Open, Stream, LockForUpdate, Add, Receive, Done, Delete, Write, GoAway, recorders
  <2> QED
    BY <1>2, <2>1 DEF SnapshotOf, fetches
<1>5. ASSUME NEW q \in Pages, Fetch(q) PROVE SnapshotOf(p)'
  <2>1. ToSet(shown[q]) \subseteq ToSet(counted)
    <3>1. \A e \in ToSet(shown[q]) : e \in Events /\ rec[e] \in Inside \cup {"done"}
      BY <1>0, ToSetType DEF StreamsType, Feed, FeedOf, Given, Inside
    <3> QED
      BY <3>1 DEF Counting
  <2> QED
    BY <1>0, <1>2, <1>5, <2>1 DEF Fetch, SnapshotOf, recorders, FetchesType
<1>6. ASSUME NEW q \in Pages, CopyMaps(q) PROVE SnapshotOf(p)'
  <2>1. get[q] = "maps" /\ UNCHANGED <<metrics, counted, expects>>
    BY <1>6 DEF CopyMaps, recorders
  <2>2. ~Half
    BY <2>1 DEF Locking, Half, Inside
  <2>3. metrics.denied + metrics.allowed = metrics.requests
    BY <1>0, <2>2 DEF Counting, RecordersType, Count
  <2>4. CASE p = q
    <3>1. copy'[p].denied = metrics.denied /\ copy'[p].allowed = metrics.allowed /\ get'[p] = "totals"
      BY <1>0, <1>6, <2>4 DEF CopyMaps, FetchesType, Copy
    <3> QED
      BY <1>2, <2>1, <2>3, <3>1 DEF SnapshotOf
  <2>5. CASE p # q
    <3>1. copy'[p] = copy[p] /\ get'[p] = get[p]
      BY <1>0, <1>6, <2>5 DEF CopyMaps, FetchesType
    <3> QED
      BY <1>2, <2>1, <3>1 DEF SnapshotOf
  <2> QED
    BY <2>4, <2>5
<1>7. ASSUME NEW q \in Pages, CopyTotals(q) PROVE SnapshotOf(p)'
  <2>1. get[q] = "totals" /\ UNCHANGED <<metrics, counted, expects>>
    BY <1>7 DEF CopyTotals, recorders
  <2>2. CASE p = q
    <3>1. /\ copy'[p].denied = copy[p].denied /\ copy'[p].allowed = copy[p].allowed
          /\ copy'[p].requests = metrics.requests /\ copy'[p].of = counted
          /\ get'[p] = "answered"
      BY <1>0, <1>7, <2>2 DEF CopyTotals, FetchesType, Copy
    <3> QED
      BY <1>2, <2>1, <2>2, <3>1 DEF SnapshotOf
  <2>3. CASE p # q
    <3>1. copy'[p] = copy[p] /\ get'[p] = get[p]
      BY <1>0, <1>7, <2>3 DEF CopyTotals, FetchesType
    <3> QED
      BY <1>2, <2>1, <3>1 DEF SnapshotOf
  <2> QED
    BY <2>2, <2>3
<1>8. ASSUME NEW q \in Pages, LockSnapshot(q) \/ Update(q) PROVE SnapshotOf(p)'
  <2>1. /\ UNCHANGED <<copy, expects, counted, metrics>>
        /\ get'[p] = get[p] \/ get'[p] \in {"maps", "idle"}
    BY <1>0, <1>8 DEF LockSnapshot, Update, recorders, FetchesType
  <2> QED
    BY <1>2, <2>1 DEF SnapshotOf
<1>9. CASE UNCHANGED vars
  BY <1>2, <1>9 DEF SnapshotOf, vars, recorders, fetches
<1> QED
  BY <1>3, <1>4, <1>5, <1>6, <1>7, <1>8, <1>9 DEF Next, GetMetrics

-----------------------------------------------------------------------------
(* The order of what a page is sent: the lemmas speak of any sequence c of  *)
(* counted events, s shown, q waiting, and a set w of at most one being     *)
(* written.                                                                 *)

\* Appending to a sequence what all of its members were counted before.
LEMMA OrderedAppend ==
  ASSUME NEW c, NEW s \in Seq(Events), NEW x \in Events, Ordered(c, s),
         AllBefore(c, ToSet(s), {x})
  PROVE  Ordered(c, Append(s, x))
<1> DEFINE t == Append(s, x)
<1>1. /\ Len(t) = Len(s) + 1 /\ Len(s) \in Nat /\ t[Len(s) + 1] = x
      /\ \A i \in 1..Len(s) : t[i] = s[i]
  OBVIOUS
<1>2. \A i \in 1..Len(s) : Before(c, s[i], x)
  BY ToSetType DEF AllBefore
<1> HIDE DEF t
<1>3. ASSUME NEW i \in 1..Len(t), NEW j \in 1..Len(t), i < j
      PROVE  Before(c, t[i], t[j])
  <2>1. i \in 1..Len(s)
    BY <1>1, <1>3
  <2>2. CASE j \in 1..Len(s)
    BY <1>1, <1>3, <2>1, <2>2 DEF Ordered
  <2>3. CASE j = Len(s) + 1
    BY <1>1, <1>2, <2>1, <2>3
  <2> QED
    BY <1>1, <2>2, <2>3
<1>4. Ordered(c, t)
  BY <1>3 DEF Ordered
<1> QED
  BY <1>4 DEF t

\* One more event counted.
LEMMA LineGrows ==
  ASSUME NEW c \in Seq(Events), NEW x \in Events, NEW s, NEW w, NEW q,
         InLine(c, s, w, q)
  PROVE  InLine(Append(c, x), s, w, q)
<1>1. ASSUME NEW a, NEW b, Before(c, a, b) PROVE Before(Append(c, x), a, b)
  <2>1. PICK k \in 1..Len(c), l \in 1..Len(c) : k < l /\ c[k] = a /\ c[l] = b
    BY <1>1 DEF Before
  <2>2. /\ k \in 1..Len(Append(c, x)) /\ l \in 1..Len(Append(c, x))
        /\ Append(c, x)[k] = a /\ Append(c, x)[l] = b
    BY <2>1
  <2> QED
    BY <2>1, <2>2 DEF Before
<1>2. \A t : Ordered(c, t) => Ordered(Append(c, x), t)
  BY <1>1 DEF Ordered
<1>3. \A S, T : AllBefore(c, S, T) => AllBefore(Append(c, x), S, T)
  BY <1>1 DEF AllBefore
<1> QED
  BY <1>2, <1>3 DEF InLine

\* One more event waiting, the last one counted.
LEMMA LineSends ==
  ASSUME NEW c, NEW s \in Seq(Events), NEW w, NEW q \in Seq(Events),
         NEW x \in Events, InLine(c, s, w, q),
         AllBefore(c, ToSet(s) \cup w \cup ToSet(q), {x})
  PROVE  InLine(c, s, w, Append(q, x))
<1>1. ToSet(Append(q, x)) = ToSet(q) \cup {x}
  BY ToSetAppend
<1>2. Ordered(c, Append(q, x))
  BY OrderedAppend DEF InLine, AllBefore
<1> QED
  BY <1>1, <1>2 DEF InLine, AllBefore

\* The first one waiting is received.
LEMMA LineReceives ==
  ASSUME NEW c, NEW s \in Seq(Events), NEW q \in Seq(Events), q # <<>>,
         InLine(c, s, {}, q)
  PROVE  InLine(c, s, {Head(q)}, Tail(q))
<1>1. ToSet(q) = ToSet(Tail(q)) \cup {Head(q)}
  BY ToSetTail
<1>2. /\ Len(Tail(q)) = Len(q) - 1 /\ Len(q) \in Nat /\ Head(q) = q[1] /\ 1 \in 1..Len(q)
      /\ \A i \in 1..Len(Tail(q)) : i + 1 \in 1..Len(q) /\ Tail(q)[i] = q[i + 1]
  OBVIOUS
<1>3. Ordered(c, Tail(q))
  BY <1>2 DEF InLine, Ordered
<1>4. AllBefore(c, {Head(q)}, ToSet(Tail(q)))
  <2>1. ASSUME NEW b \in ToSet(Tail(q)) PROVE Before(c, Head(q), b)
    <3>1. PICK i \in 1..Len(Tail(q)) : b = Tail(q)[i]
      BY <1>2, ToSetTail DEF ToSet
    <3>2. 1 < i + 1 /\ i + 1 \in 1..Len(q) /\ b = q[i + 1]
      BY <1>2, <3>1
    <3> QED
      BY <1>2, <3>2 DEF InLine, Ordered
  <2> QED
    BY <2>1 DEF AllBefore
<1> QED
  BY <1>1, <1>3, <1>4 DEF InLine, AllBefore

\* The one being written is shown, or is lost with the page.
LEMMA LineWrites ==
  ASSUME NEW c, NEW s \in Seq(Events), NEW x \in Events, NEW q,
         InLine(c, s, {x}, q)
  PROVE  InLine(c, Append(s, x), {}, q) /\ InLine(c, s, {}, q)
<1>1. ToSet(Append(s, x)) = ToSet(s) \cup {x}
  BY ToSetAppend
<1>2. Ordered(c, Append(s, x))
  BY OrderedAppend DEF InLine
<1> QED
  BY <1>1, <1>2 DEF InLine, AllBefore

\* A line stays one when nothing waits in it any more.
LEMMA LineEnds ==
  ASSUME NEW c, NEW s, NEW w, NEW q, InLine(c, s, w, q)
  PROVE  InLine(c, s, w, <<>>)
BY ToSetType DEF InLine, AllBefore, Ordered, ToSet

\* The event that a handler is recording was counted after every other.
LEMMA LastCounted ==
  ASSUME RecordersType, Counting, NEW e \in Events, rec[e] \in Inside,
         NEW a \in Events \ {e}, rec[a] \in Inside \cup {"done"}
  PROVE  Before(counted, a, e)
<1>1. a \in ToSet(counted) /\ counted \in Seq(Events) /\ counted[Len(counted)] = e
  BY DEF Counting, RecordersType
<1>2. PICK k \in 1..Len(counted) : counted[k] = a
  BY <1>1 DEF ToSet
<1>3. k < Len(counted) /\ Len(counted) \in 1..Len(counted)
  BY <1>1, <1>2
<1> QED
  BY <1>1, <1>2, <1>3 DEF Before

\* No page has a feed at first.
LEMMA FeedInit == Init => Feed
<1> SUFFICES ASSUME Init, NEW p \in Pages PROVE FeedOf(p)
  BY DEF Feed
<1>1. shown[p] = <<>> /\ chan[p] = <<>> /\ Writing(p) = {}
  BY DEF Init, Writing
<1>2. ToSet(<<>>) = {}
  BY DEF ToSet
<1> QED
  BY <1>1, <1>2 DEF FeedOf, Given, InLine, Ordered, AllBefore

\* Every step keeps each feed in the order of the recording.
LEMMA FeedStep ==
  ASSUME TypeOK, Locking, Counting, Feed, [Next]_vars
  PROVE  Feed'
<1>0. RecordersType /\ StreamsType /\ ClientsType /\ todo \in [Events -> SUBSET Pages]
  BY TypeParts DEF Typed, ClientsType
<1>1. SUFFICES ASSUME NEW p \in Pages PROVE FeedOf(p)'
  BY DEF Feed
<1> DEFINE Same == UNCHANGED <<shown[p], chan[p], taken[p]>>
<1>2. /\ FeedOf(p)
      /\ shown[p] \in Seq(Events) /\ chan[p] \in Seq(Events)
      /\ taken[p] \in Events \cup {none}
      /\ ToSet(shown[p]) \subseteq Events /\ ToSet(chan[p]) \subseteq Events
      /\ Given(p) \subseteq Events
  BY <1>0, ToSetType DEF Feed, StreamsType, ClientsType, Given, Writing
<1>3. ASSUME Same, UNCHANGED counted \/ \E e \in Events : CountTotals(e),
             \A e \in Given(p) : rec'[e] \in {"send", "done"} /\ p \notin todo'[e]
      PROVE  FeedOf(p)'
  <2>1. Given(p)' = Given(p) /\ Writing(p)' = Writing(p)
    BY <1>3 DEF Given, Writing
  <2>2. InLine(counted', shown[p], Writing(p), chan[p])
    <3>1. InLine(counted, shown[p], Writing(p), chan[p])
      BY <1>2 DEF FeedOf
    <3>2. CASE \E e \in Events : CountTotals(e)
      <4>1. PICK e \in Events : counted' = Append(counted, e)
        BY <3>2 DEF CountTotals
      <4> QED
        BY <1>0, <3>1, <4>1, LineGrows DEF RecordersType
    <3> QED
      BY <1>3, <3>1, <3>2
  <2> QED
    BY <1>3, <2>1, <2>2 DEF FeedOf
<1>4. ASSUME Same, UNCHANGED <<counted, rec, todo>> PROVE FeedOf(p)'
  BY <1>2, <1>3, <1>4 DEF FeedOf
\* The handlers.
<1>5. ASSUME NEW e \in Events, RecordEvent(e), ~Send(e) PROVE FeedOf(p)'
  <2>1. Same
    BY <1>5 DEF RecordEvent, LockMetrics, CountTotals, CountDecisions, LockClients,
       Recorded, streams
  <2>2. UNCHANGED counted \/ CountTotals(e)
    BY <1>5 DEF RecordEvent, LockMetrics, CountTotals, CountDecisions, LockClients,
       Recorded
  <2>3. ASSUME NEW f \in Given(p)
        PROVE  rec'[f] \in {"send", "done"} /\ p \notin todo'[f]
    <3>1. f \in Events /\ rec[f] \in {"send", "done"} /\ p \notin todo[f]
      BY <1>2 DEF FeedOf
    <3>2. CASE f # e
      BY <1>0, <1>5, <3>1, <3>2 DEF RecordEvent, LockMetrics, CountTotals,
         CountDecisions, LockClients, Recorded, RecordersType
    <3>3. CASE f = e
      BY <1>0, <1>5, <3>1, <3>3 DEF RecordEvent, LockMetrics, CountTotals,
         CountDecisions, LockClients, Recorded, RecordersType
    <3> QED
      BY <3>2, <3>3
  <2> QED
    BY <1>3, <2>1, <2>2, <2>3
<1>6. ASSUME NEW e \in Events, Send(e) PROVE FeedOf(p)'
  <2>1. PICK q \in todo[e] :
          /\ chan' = IF Len(chan[q]) < Capacity
                     THEN [chan EXCEPT ![q] = Append(@, e)] ELSE chan
          /\ todo' = [todo EXCEPT ![e] = @ \ {q}]
    BY <1>6 DEF Send
  <2>2. rec[e] = "send" /\ UNCHANGED <<rec, counted, shown, taken>>
    BY <1>6 DEF Send
  <2>3. q \in Pages /\ \A f \in Events : todo'[f] \subseteq todo[f]
    BY <1>0, <2>1
  <2>4. CASE chan'[p] = chan[p]
    BY <1>2, <1>3, <2>2, <2>3, <2>4 DEF FeedOf
  <2>5. CASE chan'[p] # chan[p]
    <3>1. p = q /\ chan'[p] = Append(chan[p], e) /\ p \notin todo'[e]
      BY <1>0, <2>1, <2>3, <2>5 DEF ClientsType
    <3>2. e \notin Given(p)
      BY <1>2, <2>1, <3>1 DEF FeedOf
    <3>3. AllBefore(counted, Given(p), {e})
      BY <1>0, <1>2, <2>2, <3>2, LastCounted DEF AllBefore, FeedOf, Inside
    <3>4. InLine(counted, shown[p], Writing(p), chan'[p])
      BY <1>2, <3>1, <3>3, LineSends DEF FeedOf, Given
    <3>5. Writing(p)' = Writing(p)
      BY <2>2 DEF Writing
    <3>6. Given(p)' = Given(p) \cup {e}
      BY <1>2, <2>2, <3>1, <3>5, ToSetAppend DEF Given
    <3> QED
      BY <1>2, <2>2, <2>3, <3>1, <3>4, <3>5, <3>6 DEF FeedOf
  <2> QED
    BY <2>4, <2>5
\* The event streams.
<1>7. ASSUME NEW q \in Pages, Receive(q) PROVE FeedOf(p)'
  <2>1. UNCHANGED <<rec, todo, counted, shown>>
    BY <1>7 DEF Receive, recorders
  <2>2. CASE p # q
    BY <1>0, <1>4, <1>7, <2>1, <2>2 DEF Receive, StreamsType, ClientsType
  <2>3. CASE p = q
    <3>1. Writing(p) = {}
      BY <1>7, <2>3 DEF Receive, Locking, Writing
    <3>2. chan[p] # <<>> /\ taken'[p] = Head(chan[p]) /\ chan'[p] = Tail(chan[p])
      BY <1>0, <1>7, <2>3 DEF Receive, StreamsType, ClientsType
    <3>3. Head(chan[p]) \in Events
      BY <1>2, <3>2, ToSetTail
    <3>4. Writing(p)' = {Head(chan[p])}
      BY <3>2, <3>3, DashboardAssumption DEF Writing
    <3>5. InLine(counted, shown[p], {Head(chan[p])}, Tail(chan[p]))
      BY <1>2, <3>1, <3>2, LineReceives DEF FeedOf
    <3>6. ToSet(chan[p]) = ToSet(Tail(chan[p])) \cup {Head(chan[p])}
      BY <1>2, <3>2, ToSetTail
    <3>7. Given(p)' = Given(p)
      BY <2>1, <3>1, <3>2, <3>4, <3>6 DEF Given
    <3> QED
      BY <1>2, <2>1, <3>2, <3>4, <3>5, <3>7 DEF FeedOf
  <2> QED
    BY <2>2, <2>3
<1>8. ASSUME NEW q \in Pages, Write(q) PROVE FeedOf(p)'
  <2>1. UNCHANGED <<rec, todo, counted, chan>>
    BY <1>8 DEF Write, recorders
  <2>2. CASE p # q
    BY <1>0, <1>4, <1>8, <2>1, <2>2 DEF Write, StreamsType
  <2>3. CASE p = q
    <3>1. /\ taken'[p] = none
          /\ shown'[p] = shown[p] \/ shown'[p] = Append(shown[p], taken[p])
      BY <1>0, <1>8, <2>3 DEF Write, StreamsType
    <3>2. taken[p] \in Events /\ Writing(p) = {taken[p]}
      BY <1>2, <1>8, <2>3, DashboardAssumption DEF Write, Locking, Writing
    <3>3. Writing(p)' = {}
      BY <3>1 DEF Writing
    <3>4. InLine(counted, shown'[p], {}, chan[p])
      <4>1. InLine(counted, shown[p], {taken[p]}, chan[p])
        BY <1>2, <3>2 DEF FeedOf
      <4>2. /\ InLine(counted, Append(shown[p], taken[p]), {}, chan[p])
            /\ InLine(counted, shown[p], {}, chan[p])
        BY <1>2, <3>2, <4>1, LineWrites
      <4> QED
        BY <3>1, <4>2
    <3>5. Given(p)' \subseteq Given(p)
      <4>1. ToSet(Append(shown[p], taken[p])) = ToSet(shown[p]) \cup {taken[p]}
        BY <1>2, <3>2, ToSetAppend
      <4>2. ToSet(shown'[p]) \subseteq ToSet(shown[p]) \cup {taken[p]}
        BY <3>1, <4>1
      <4> QED
        BY <2>1, <3>2, <3>3, <4>2 DEF Given
    <3> QED
      BY <1>2, <2>1, <3>3, <3>4, <3>5 DEF FeedOf
  <2> QED
    BY <2>2, <2>3
<1>9. ASSUME NEW q \in Pages, Delete(q) PROVE FeedOf(p)'
  <2>1. UNCHANGED <<rec, todo, counted, shown, taken>>
    BY <1>9 DEF Delete, recorders
  <2>2. chan'[p] = chan[p] \/ chan'[p] = <<>>
    BY <1>0, <1>9 DEF Delete, ClientsType
  <2>3. CASE chan'[p] = chan[p]
    BY <1>4, <2>1, <2>3
  <2>4. CASE chan'[p] = <<>>
    <3>1. InLine(counted, shown[p], Writing(p), <<>>)
      BY <1>2, LineEnds DEF FeedOf
    <3>2. Writing(p)' = Writing(p)
      BY <2>1 DEF Writing
    <3>3. Given(p)' \subseteq Given(p)
      BY <2>1, <2>4, <3>2, ToSetType DEF Given, ToSet
    <3> QED
      BY <1>2, <2>1, <2>4, <3>1, <3>2, <3>3 DEF FeedOf
  <2> QED
    BY <2>2, <2>3, <2>4
<1>10. ASSUME NEW q \in Pages,
              Open(q) \/ LockForUpdate(q) \/ Add(q) \/ Done(q) \/ GoAway(q)
       PROVE  FeedOf(p)'
  BY <1>4, <1>10 DEF Open, LockForUpdate, Add, Done, GoAway, recorders
<1>11. ASSUME NEW q \in Pages, Fetch(q) \/ GetMetrics(q) PROVE FeedOf(p)'
  BY <1>4, <1>11 DEF Fetch, GetMetrics, LockSnapshot, CopyMaps, CopyTotals, Update,
     recorders, streams
<1>12. CASE UNCHANGED vars
  BY <1>4, <1>12 DEF vars, recorders, streams
<1> QED
  BY <1>5, <1>6, <1>7, <1>8, <1>9, <1>10, <1>11, <1>12 DEF Next, Stream

-----------------------------------------------------------------------------
(* What a page misses.                                                      *)

\* No stream has a backlog at first.
LEMMA KeptInit == Init => Kept
BY DEF Init, Kept, FirstOnesKept

\* Every step keeps a page's backlog to the first events it was offered.
LEMMA KeptStep ==
  ASSUME TypeOK, Locking, Kept, [Next]_vars
  PROVE  Kept'
<1>0. StreamsType /\ ClientsType /\ RecordersType
  BY TypeParts DEF Typed
<1>1. SUFFICES ASSUME NEW p \in Pages
               PROVE  /\ Len(chan'[p]) <= Len(offered'[p])
                      /\ p \notin away' => FirstOnesKept(p)'
  BY DEF Kept
<1>2. /\ Len(chan[p]) <= Len(offered[p])
      /\ p \notin away => FirstOnesKept(p)
      /\ shown[p] \in Seq(Events) /\ chan[p] \in Seq(Events) /\ offered[p] \in Seq(Events)
      /\ Len(chan[p]) \in Nat /\ Len(offered[p]) \in Nat
      /\ taken[p] \in Events \cup {none}
  BY <1>0 DEF Kept, StreamsType, ClientsType
<1> DEFINE Has == ToSet(shown[p]) \cup {taken[p]} \cup ToSet(chan[p])
           Has2 == ToSet(shown'[p]) \cup {taken'[p]} \cup ToSet(chan'[p])
           Goal == /\ Len(chan'[p]) <= Len(offered'[p])
                   /\ p \notin away' => FirstOnesKept(p)'
\* It is enough that nothing was offered and that nothing p has is lost.
<1>3. ASSUME offered'[p] = offered[p], Len(chan'[p]) <= Len(chan[p]),
             Len(chan'[p]) \in Nat,
             p \notin away' => p \notin away /\ Has \ {none} \subseteq Has2
      PROVE  Goal
  <2>1. ASSUME p \notin away' PROVE FirstOnesKept(p)'
    <3>1. ASSUME NEW i \in 1..Len(offered[p]), i <= Capacity
          PROVE  offered[p][i] \in Has2
      <4>1. offered[p][i] \in Has
        BY <1>2, <1>3, <2>1, <3>1 DEF FirstOnesKept
      <4>2. offered[p][i] # none
        BY <1>2, DashboardAssumption
      <4> QED
        BY <1>3, <2>1, <4>1, <4>2
    <3> QED
      BY <1>3, <3>1 DEF FirstOnesKept
  <2> QED
    BY <1>2, <1>3, <2>1
<1>4. ASSUME UNCHANGED <<offered[p], chan[p], shown[p], taken[p]>>, p \notin away' => p \notin away
      PROVE  Goal
  BY <1>2, <1>3, <1>4
<1>5. ASSUME NEW e \in Events, Send(e) PROVE Goal
  <2>1. PICK q \in todo[e] :
          /\ chan' = IF Len(chan[q]) < Capacity
                     THEN [chan EXCEPT ![q] = Append(@, e)] ELSE chan
          /\ offered' = [offered EXCEPT ![q] = Append(@, e)]
    BY <1>5 DEF Send
  <2>2. UNCHANGED <<shown, taken, away>> /\ q \in Pages
    BY <1>0, <1>5 DEF Send, ClientsType
  <2>3. CASE p # q
    BY <1>0, <1>4, <2>1, <2>2, <2>3 DEF StreamsType, ClientsType
  <2>4. CASE p = q
    <3>1. offered'[p] = Append(offered[p], e) /\ Len(offered'[p]) = Len(offered[p]) + 1
      BY <1>0, <1>2, <2>1, <2>2, <2>4 DEF StreamsType
    <3>2. /\ Len(chan[p]) < Capacity => /\ chan'[p] = Append(chan[p], e)
                                        /\ Len(chan'[p]) = Len(chan[p]) + 1
                                        /\ ToSet(chan'[p]) = ToSet(chan[p]) \cup {e}
          /\ ~(Len(chan[p]) < Capacity) => chan'[p] = chan[p]
      BY <1>0, <1>2, <2>1, <2>2, <2>4, ToSetAppend DEF ClientsType
    <3>3. Len(chan'[p]) <= Len(offered'[p])
      BY <1>2, <3>1, <3>2
    <3>4. ASSUME p \notin away', NEW i \in 1..Len(offered'[p]), i <= Capacity
          PROVE  offered'[p][i] \in Has2
      <4>1. Has \subseteq Has2
        BY <2>2, <3>2
      <4>2. CASE i \in 1..Len(offered[p])
        <5>1. offered'[p][i] = offered[p][i]
          BY <1>2, <3>1, <4>2
        <5> QED
          BY <1>2, <2>2, <3>4, <4>1, <4>2, <5>1 DEF FirstOnesKept
      <4>3. CASE i = Len(offered[p]) + 1
        <5>1. offered'[p][i] = e
          BY <1>2, <3>1, <4>3
        <5>2. Len(chan[p]) < Capacity
          BY <1>2, <3>4, <4>3, DashboardAssumption
        <5> QED
          BY <3>2, <5>1, <5>2
      <4> QED
        BY <1>2, <3>1, <3>4, <4>2, <4>3
    <3> QED
      BY <3>3, <3>4 DEF FirstOnesKept
  <2> QED
    BY <2>3, <2>4
<1>6. ASSUME NEW e \in Events, RecordEvent(e), ~Send(e) PROVE Goal
  BY <1>4, <1>6 DEF RecordEvent, LockMetrics, CountTotals, CountDecisions, LockClients,
     Recorded, streams
<1>7. ASSUME NEW q \in Pages, Receive(q) PROVE Goal
  <2>1. UNCHANGED <<shown, offered, away>>
    BY <1>7 DEF Receive
  <2>2. CASE p # q
    BY <1>0, <1>4, <1>7, <2>1, <2>2 DEF Receive, StreamsType, ClientsType
  <2>3. CASE p = q
    <3>1. /\ chan[p] # <<>> /\ taken'[p] = Head(chan[p]) /\ chan'[p] = Tail(chan[p])
          /\ taken[p] = none
      BY <1>0, <1>7, <2>3 DEF Receive, StreamsType, ClientsType, Locking
    <3>2. /\ ToSet(chan[p]) = ToSet(Tail(chan[p])) \cup {Head(chan[p])}
          /\ Len(Tail(chan[p])) = Len(chan[p]) - 1
          /\ Tail(chan[p]) \in Seq(Events)
      BY <1>2, <3>1, ToSetTail
    <3>3. Len(chan'[p]) \in Nat /\ Len(chan'[p]) <= Len(chan[p])
      BY <1>2, <3>1, <3>2
    <3> QED
      BY <1>3, <2>1, <3>1, <3>2, <3>3
  <2> QED
    BY <2>2, <2>3
<1>8. ASSUME NEW q \in Pages, Write(q) PROVE Goal
  <2>1. UNCHANGED <<chan, offered, away>>
    BY <1>8 DEF Write
  <2>2. CASE p # q
    BY <1>0, <1>4, <1>8, <2>1, <2>2 DEF Write, StreamsType
  <2>3. CASE p = q
    <3>1. p \notin away => shown'[p] = Append(shown[p], taken[p])
      BY <1>0, <1>8, <2>3 DEF Write, StreamsType
    <3>2. taken[p] \in Events
      BY <1>2, <1>8, <2>3 DEF Write, Locking
    <3>3. p \notin away => ToSet(shown'[p]) = ToSet(shown[p]) \cup {taken[p]}
      <4>1. ToSet(Append(shown[p], taken[p])) = ToSet(shown[p]) \cup {taken[p]}
        BY <1>2, <3>2, ToSetAppend
      <4> QED
        BY <3>1, <4>1
    <3> QED
      BY <1>2, <1>3, <2>1, <3>3
  <2> QED
    BY <2>2, <2>3
<1>9. ASSUME NEW q \in Pages, Delete(q) PROVE Goal
  <2>1. UNCHANGED <<shown, taken, offered, away>> /\ q \in away
    BY <1>9 DEF Delete, Locking
  <2>2. CASE p # q
    BY <1>0, <1>4, <1>9, <2>1, <2>2 DEF Delete, ClientsType
  <2>3. CASE p = q
    <3>1. chan'[p] = <<>> /\ Len(<<>>) = 0
      BY <1>0, <1>9, <2>3 DEF Delete, ClientsType
    <3> QED
      BY <1>2, <1>3, <2>1, <2>3, <3>1
  <2> QED
    BY <2>2, <2>3
<1>10. ASSUME NEW q \in Pages,
              Open(q) \/ LockForUpdate(q) \/ Add(q) \/ Done(q) \/ GoAway(q)
       PROVE  Goal
  <2>1. UNCHANGED <<offered, chan, shown, taken>> /\ away \subseteq away'
    BY <1>10 DEF Open, LockForUpdate, Add, Done, GoAway
  <2> QED
    BY <1>4, <2>1
<1>11. ASSUME NEW q \in Pages, Fetch(q) \/ GetMetrics(q) PROVE Goal
  BY <1>4, <1>11 DEF Fetch, GetMetrics, LockSnapshot, CopyMaps, CopyTotals, Update, streams
<1>12. CASE UNCHANGED vars
  BY <1>4, <1>12 DEF vars, streams
<1> QED
  BY <1>5, <1>6, <1>7, <1>8, <1>9, <1>10, <1>11, <1>12 DEF Next, Stream

-----------------------------------------------------------------------------
(* The theorems.                                                            *)

\* IInv holds initially and is preserved by every step: it is inductive.
THEOREM Inductive == Spec => []IInv
<1>1. Init => IInv
  BY TypeInit, LockingInit, CountingInit, SnapshotsInit, FeedInit, KeptInit DEF IInv
<1>2. IInv /\ [Next]_vars => IInv'
  BY TypeStep, LockingStep, CountingStep, SnapshotsStep, FeedStep, KeptStep DEF IInv
<1> QED
  BY <1>1, <1>2, PTL DEF Spec

\* Every variable has its type; no channel holds more than its capacity, and
\* only those of pages in the map hold anything.
THEOREM TypeCorrect == Spec => []TypeOK
<1>1. IInv => TypeOK
  BY DEF IInv
<1> QED
  BY <1>1, Inductive, PTL

\* Whatever handlers record meanwhile, the decisions of a snapshot that a page
\* is given are those of the requests in it.
THEOREM SnapshotsAddUp == Spec => []SnapshotAddsUp
<1>1. IInv => SnapshotAddsUp
  BY DEF IInv, Snapshots, SnapshotOf, SnapshotAddsUp
<1> QED
  BY <1>1, Inductive, PTL

\* What a page had been sent when it asked for the metrics is in those it gets.
THEOREM ShownAreCounted == Spec => []ShownIsCounted
<1>1. IInv => ShownIsCounted
  BY DEF IInv, Snapshots, SnapshotOf, ShownIsCounted
<1> QED
  BY <1>1, Inductive, PTL

\* Every page is shown events in the order in which they were counted, and the
\* first ones offered to it, as many as its channel has room for, reach it.
THEOREM FeedsInOrder == Spec => []FeedInOrder
<1>1. IInv => FeedInOrder
  <2>1. ASSUME IInv, NEW p \in Pages PROVE InOrder(p)
    BY <2>1 DEF IInv, Feed, FeedOf, InLine, Ordered, Before, InOrder
  <2> QED
    BY <2>1 DEF IInv, Kept, FeedInOrder
<1> QED
  BY <1>1, Inductive, PTL

\* RecordEvent holds Metrics.mu while it takes Dashboard.mu (dashboard.go:44-75).
\* What brings the recording of e further: a step of its own that waits for nobody;
\* while it waits for the snapshots begun before it, the next step of one of them;
\* while it waits for a page to be added or removed, that page's step, which waits
\* for nobody either.  No step of the browser is among them.
CarriedOn(e) ==
  \/ rec[e] = "totals" /\ Entered(metricsMu, e)
  \/ rec[e] = "totals" /\ \E p \in metricsMu.readers : get[p] \in {"maps", "totals"}
  \/ rec[e] \in {"decisions", "send"}
  \/ rec[e] = "clients" /\ clientsMu.writer = none
  \/ rec[e] = "clients" /\ \E p \in Pages : /\ sse[p] \in {"add", "remove"}
                                          /\ Entered(clientsMu, p)

\* Whoever has a mutex, or has announced itself for it, is carried on: neither the
\* handlers nor the pages ever wait for each other in a circle.
NoCircularWait ==
  /\ \A e \in Events : rec[e] \in Holding => CarriedOn(e)
  /\ metricsMu.writer # none => \E e \in Events : rec[e] \in Holding /\ CarriedOn(e)
  /\ clientsMu.writer # none =>
       \E p \in Pages :
         /\ sse[p] \in {"add", "remove"}
         /\ Entered(clientsMu, p) \/ \E e \in clientsMu.readers : rec[e] = "send"

\* However handlers, streams and fetches interleave, none of them is left waiting
\* for a mutex that nobody is about to give back.
THEOREM NobodyWaitsInACircle == Spec => []NoCircularWait
<1>1. ASSUME TypeOK, Locking, NEW e \in Events, rec[e] \in Holding PROVE CarriedOn(e)
  <2>1. /\ metricsMu.writer = e /\ metricsMu.readers \subseteq Pages
        /\ clientsMu.readers \subseteq Events /\ clientsMu.writer \in Pages \cup {none}
    BY <1>1 DEF TypeOK, Locking
  <2>2. CASE rec[e] = "totals"
    BY <1>1, <2>1, <2>2 DEF CarriedOn, Entered, Locking
  <2>3. CASE rec[e] = "clients"
    <3>1. clientsMu.readers = {}
      <4> SUFFICES ASSUME NEW f \in Events, f \in clientsMu.readers PROVE FALSE
        BY <2>1
      <4>1. rec[f] = "send"
        BY <1>1 DEF Locking
      <4>2. f = e
        BY <1>1, <4>1, OneHolder DEF Holding, Inside
      <4> QED
        BY <2>3, <4>1, <4>2
    <3>2. ASSUME NEW p \in Pages, clientsMu.writer = p PROVE sse[p] \in {"add", "remove"}
      BY <1>1, <3>2 DEF Locking
    <3> QED
      BY <2>1, <2>3, <3>1, <3>2 DEF CarriedOn, Entered
  <2>4. CASE rec[e] \in {"decisions", "send"}
    BY <2>4 DEF CarriedOn
  <2> QED
    BY <1>1, <2>2, <2>3, <2>4 DEF Holding, Inside
<1>2. ASSUME TypeOK, Locking, metricsMu.writer # none
      PROVE  \E e \in Events : rec[e] \in Holding /\ CarriedOn(e)
  <2>1. metricsMu.writer \in Events
    BY <1>2 DEF TypeOK
  <2>2. rec[metricsMu.writer] \in Holding
    BY <1>2, <2>1 DEF Locking
  <2> QED
    BY <1>1, <1>2, <2>1, <2>2
<1>3. ASSUME TypeOK, Locking, clientsMu.writer # none
      PROVE  \E p \in Pages :
               /\ sse[p] \in {"add", "remove"}
               /\ Entered(clientsMu, p) \/ \E e \in clientsMu.readers : rec[e] = "send"
  <2>1. clientsMu.writer \in Pages /\ clientsMu.readers \subseteq Events
    BY <1>3 DEF TypeOK
  <2>2. sse[clientsMu.writer] \in {"add", "remove"}
    BY <1>3, <2>1 DEF Locking
  <2>3. \A e \in clientsMu.readers : rec[e] = "send"
    BY <1>3, <2>1 DEF Locking
  <2> QED
    BY <2>1, <2>2, <2>3 DEF Entered
<1>4. IInv => NoCircularWait
  BY <1>1, <1>2, <1>3 DEF IInv, NoCircularWait
<1> QED
  BY <1>4, Inductive, PTL
=============================================================================
