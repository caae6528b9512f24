----------------------------- MODULE Dashboard -----------------------------
(***************************************************************************)
(* The dashboard of internal/dashboard/dashboard.go: the counters, the     *)
(* event stream, and the page (dashboardHTML) that shows both.             *)
(*                                                                         *)
(* Three kinds of goroutine meet here: the request handlers that record    *)
(* their event, one event-stream handler for every page, and the handlers  *)
(* that fetch the metrics for a page.  Metrics.mu and Dashboard.mu are     *)
(* sync.RWMutexes: a writer first announces itself, which keeps new        *)
(* readers out, and enters when the readers before it have left.  The      *)
(* steps between Lock and Unlock are separate actions wherever another     *)
(* goroutine could see what is between them.                               *)
(*                                                                         *)
(* An event stands for its one decision; the counts of tools and of        *)
(* anomalies are handled like those of decisions.  A page that reconnects  *)
(* is another page.                                                        *)
(***************************************************************************)
EXTENDS Naturals, Sequences, SequencesExt

CONSTANTS
  Events,    \* the events recorded, one by each handler
  Denied,    \* those of them whose decision is deny; the others are allow
  Pages,     \* the pages opened in a browser
  Capacity,  \* of a page's channel: 100 in the code
  none       \* no writer

ASSUME DashboardAssumption ==
  /\ Denied \subseteq Events
  /\ Capacity \in Nat \ {0}
  /\ none \notin Events \cup Pages

VARIABLES
  metricsMu, \* Metrics.mu: [writer, readers]
  clientsMu, \* Dashboard.mu
  metrics,   \* the counters
  rec,       \* rec[e]: where the RecordEvent of e is
  todo,      \* todo[e]: the clients its loop has still to serve
  clients,   \* d.clients: the pages whose channel is in the map
  chan,      \* chan[p]: the channel of p
  sse,       \* sse[p]: where the event-stream handler of p is
  taken,     \* taken[p]: the event it has received and is writing
  away,      \* the pages that have been closed, so that ctx is done
  shown,     \* shown[p]: the events p has been sent, in order
  get,       \* get[p]: where the handler of p's fetch of the metrics is
  copy,      \* copy[p]: the snapshot it is making, or has made last
  expects,   \* history: expects[p] holds the events shown when that fetch began
  counted,   \* history: the events in the counters, in order
  offered    \* history: offered[p] holds the events offered to p's channel

locks == <<metricsMu, clientsMu>>
recorders == <<rec, todo, metrics, counted>>
streams == <<clients, chan, sse, taken, away, shown, offered>>
fetches == <<get, copy, expects>>
vars == <<locks, recorders, streams, fetches>>

Free == [writer |-> none, readers |-> {}]
NoCount == [requests |-> 0, denied |-> 0, allowed |-> 0, of |-> <<>>]

Init ==
  /\ metricsMu = Free
  /\ clientsMu = Free
  /\ metrics = [requests |-> 0, denied |-> 0, allowed |-> 0]
  /\ rec = [e \in Events |-> "new"]
  /\ todo = [e \in Events |-> {}]
  /\ clients = {}
  /\ chan = [p \in Pages |-> <<>>]
  /\ sse = [p \in Pages |-> "closed"]
  /\ taken = [p \in Pages |-> none]
  /\ away = {}
  /\ shown = [p \in Pages |-> <<>>]
  /\ get = [p \in Pages |-> "idle"]
  /\ copy = [p \in Pages |-> NoCount]
  /\ expects = [p \in Pages |-> {}]
  /\ counted = <<>>
  /\ offered = [p \in Pages |-> <<>>]

\* sync.RWMutex.
Announce(mu, x) == mu.writer = none /\ mu' = [mu EXCEPT !.writer = x]
Entered(mu, x) == mu.writer = x /\ mu.readers = {}
RLock(mu, x) == mu.writer = none /\ mu' = [mu EXCEPT !.readers = @ \cup {x}]
Unlocked(mu) == [mu EXCEPT !.writer = none]
RUnlocked(mu, x) == [mu EXCEPT !.readers = @ \ {x}]

-----------------------------------------------------------------------------
(* RecordEvent.                                                             *)

LockMetrics(e) ==
  /\ rec[e] = "new"
  /\ Announce(metricsMu, e)
  /\ rec' = [rec EXCEPT ![e] = "totals"]
  /\ UNCHANGED <<clientsMu, todo, metrics, counted, streams, fetches>>

CountTotals(e) ==
  /\ rec[e] = "totals" /\ Entered(metricsMu, e)
  /\ metrics' = [metrics EXCEPT !.requests = @ + 1]
  /\ counted' = Append(counted, e)
  /\ rec' = [rec EXCEPT ![e] = "decisions"]
  /\ UNCHANGED <<locks, todo, streams, fetches>>

\* Mutant of CountDecisions: the metrics are unlocked before the clients are
\* told, so that they need not wait for each other.
CountDecisionsUnlocking(e) ==
  /\ rec[e] = "decisions"
  /\ metrics' = IF e \in Denied THEN [metrics EXCEPT !.denied = @ + 1]
                                ELSE [metrics EXCEPT !.allowed = @ + 1]
  /\ rec' = [rec EXCEPT ![e] = "clients"]
  /\ metricsMu' = Unlocked(metricsMu)
  /\ UNCHANGED <<clientsMu, todo, counted, streams, fetches>>

CountDecisions(e) ==
  /\ rec[e] = "decisions"
  /\ metrics' = IF e \in Denied THEN [metrics EXCEPT !.denied = @ + 1]
                                ELSE [metrics EXCEPT !.allowed = @ + 1]
  /\ rec' = [rec EXCEPT ![e] = "clients"]
  /\ UNCHANGED <<locks, todo, counted, streams, fetches>>

LockClients(e) ==
  /\ rec[e] = "clients"
  /\ RLock(clientsMu, e)
  /\ todo' = [todo EXCEPT ![e] = clients]
  /\ rec' = [rec EXCEPT ![e] = "send"]
  /\ UNCHANGED <<metricsMu, metrics, counted, streams, fetches>>

\* Mutant of Send: `ch <- *event` without a default, on a channel without a buffer.
SendBlocking(e) ==
  /\ rec[e] = "send"
  /\ \E p \in todo[e] :
       /\ sse[p] = "select" /\ chan[p] = <<>>
       /\ chan' = [chan EXCEPT ![p] = Append(@, e)]
       /\ offered' = [offered EXCEPT ![p] = Append(@, e)]
       /\ todo' = [todo EXCEPT ![e] = @ \ {p}]
  /\ UNCHANGED <<locks, rec, metrics, counted, clients, sse, taken, away,
                 shown, fetches>>

\* One turn of the loop over d.clients, in any order: what does not fit is
\* dropped.
Send(e) ==
  /\ rec[e] = "send"
  /\ \E p \in todo[e] :
       /\ chan' = IF Len(chan[p]) < Capacity
                  THEN [chan EXCEPT ![p] = Append(@, e)] ELSE chan
       /\ offered' = [offered EXCEPT ![p] = Append(@, e)]
       /\ todo' = [todo EXCEPT ![e] = @ \ {p}]
  /\ UNCHANGED <<locks, rec, metrics, counted, clients, sse, taken, away,
                 shown, fetches>>

\* d.mu.RUnlock, and the deferred Unlock of the metrics.
Recorded(e) ==
  /\ rec[e] = "send" /\ todo[e] = {}
  /\ clientsMu' = RUnlocked(clientsMu, e)
  /\ metricsMu' = Unlocked(metricsMu)
  /\ rec' = [rec EXCEPT ![e] = "done"]
  /\ UNCHANGED <<todo, metrics, counted, streams, fetches>>

RecordEvent(e) ==
  \/ LockMetrics(e) \/ CountTotals(e) \/ CountDecisions(e)
  \/ LockClients(e) \/ Send(e) \/ Recorded(e)

-----------------------------------------------------------------------------
(* handleSSE.                                                               *)

\* A page is opened and its request for /events reaches the handler.
Open(p) ==
  /\ sse[p] = "closed" /\ p \notin away
  /\ sse' = [sse EXCEPT ![p] = "lock"]
  /\ UNCHANGED <<locks, recorders, clients, chan, taken, away, shown, offered,
                 fetches>>

\* d.mu.Lock, to be added or, in the deferred call, to be removed.
LockForUpdate(p) ==
  /\ sse[p] \in {"lock", "leave"}
  /\ Announce(clientsMu, p)
  /\ sse' = [sse EXCEPT ![p] = IF @ = "lock" THEN "add" ELSE "remove"]
  /\ UNCHANGED <<metricsMu, recorders, clients, chan, taken, away, shown,
                 offered, fetches>>

Add(p) ==
  /\ sse[p] = "add" /\ Entered(clientsMu, p)
  /\ clients' = clients \cup {p}
  /\ clientsMu' = Unlocked(clientsMu)
  /\ sse' = [sse EXCEPT ![p] = "select"]
  /\ UNCHANGED <<metricsMu, recorders, chan, taken, away, shown, offered,
                 fetches>>

\* event := <-eventCh.
Receive(p) ==
  /\ sse[p] = "select" /\ chan[p] # <<>>
  /\ sse' = [sse EXCEPT ![p] = "write"]
  /\ taken' = [taken EXCEPT ![p] = Head(chan[p])]
  /\ chan' = [chan EXCEPT ![p] = Tail(@)]
  /\ UNCHANGED <<locks, recorders, clients, away, shown, offered, fetches>>

\* Fprintf and Flush.  A write
\* to a page that has gone away fails, which nobody looks at.
Write(p) ==
  /\ sse[p] = "write"
  /\ sse' = [sse EXCEPT ![p] = "select"]
  /\ taken' = [taken EXCEPT ![p] = none]
  /\ IF p \in away
     THEN UNCHANGED shown
     ELSE shown' = [shown EXCEPT ![p] = Append(@, taken[p])]
  /\ UNCHANGED <<locks, recorders, clients, chan, away, offered, fetches>>

\* Mutant of Done: the handler returns without its deferred call.
DoneWithoutDelete(p) ==
  /\ sse[p] = "select" /\ p \in away
  /\ sse' = [sse EXCEPT ![p] = "closed"]
  /\ UNCHANGED <<locks, recorders, clients, chan, taken, away, shown, offered,
                 fetches>>

\* Mutant of Done: the handler takes its channel off the map without the lock.
DoneUnlocked(p) ==
  /\ sse[p] = "select" /\ p \in away
  /\ sse' = [sse EXCEPT ![p] = "closed"]
  /\ clients' = clients \ {p}
  /\ chan' = [chan EXCEPT ![p] = <<>>]
  /\ UNCHANGED <<locks, recorders, taken, away, shown, offered, fetches>>

\* <-ctx.Done().
Done(p) ==
  /\ sse[p] = "select" /\ p \in away
  /\ sse' = [sse EXCEPT ![p] = "leave"]
  /\ UNCHANGED <<locks, recorders, clients, chan, taken, away, shown, offered,
                 fetches>>

Delete(p) ==
  /\ sse[p] = "remove" /\ Entered(clientsMu, p)
  /\ clients' = clients \ {p}
  /\ clientsMu' = Unlocked(clientsMu)
  /\ sse' = [sse EXCEPT ![p] = "closed"]
  /\ chan' = [chan EXCEPT ![p] = <<>>]
  /\ UNCHANGED <<metricsMu, recorders, taken, away, shown, offered, fetches>>

\* The page is closed.
GoAway(p) ==
  /\ sse[p] # "closed" /\ p \notin away
  /\ away' = away \cup {p}
  /\ UNCHANGED <<locks, recorders, clients, chan, sse, taken, shown, offered,
                 fetches>>

Stream(p) == LockForUpdate(p) \/ Add(p) \/ Receive(p) \/ Done(p) \/ Delete(p)

-----------------------------------------------------------------------------
(* GetMetrics, for the page's fetch('/metrics').                            *)

\* The page fetches when it has loaded and whenever it is sent an event.
Fetch(p) ==
  /\ get[p] = "idle" /\ sse[p] # "closed" /\ p \notin away
  /\ get' = [get EXCEPT ![p] = "lock"]
  /\ expects' = [expects EXCEPT ![p] = ToSet(shown[p])]
  /\ UNCHANGED <<locks, recorders, streams, copy>>

\* Mutant of LockSnapshot: the counters are read without the lock.
LockSnapshotNot(p) ==
  /\ get[p] = "lock"
  /\ get' = [get EXCEPT ![p] = "maps"]
  /\ UNCHANGED <<locks, recorders, streams, copy, expects>>

LockSnapshot(p) ==
  /\ get[p] = "lock"
  /\ RLock(metricsMu, p)
  /\ get' = [get EXCEPT ![p] = "maps"]
  /\ UNCHANGED <<clientsMu, recorders, streams, copy, expects>>

CopyMaps(p) ==
  /\ get[p] = "maps"
  /\ copy' = [copy EXCEPT ![p].denied = metrics.denied,
                          ![p].allowed = metrics.allowed]
  /\ get' = [get EXCEPT ![p] = "totals"]
  /\ UNCHANGED <<locks, recorders, streams, expects>>

\* Mutant of CopyTotals: the totals are kept from the first snapshot on.
CopyTotalsCached(p) ==
  /\ get[p] = "totals"
  /\ copy' = IF copy[p].of # <<>> THEN copy
             ELSE [copy EXCEPT ![p].requests = metrics.requests, ![p].of = counted]
  /\ metricsMu' = RUnlocked(metricsMu, p)
  /\ get' = [get EXCEPT ![p] = "answered"]
  /\ UNCHANGED <<clientsMu, recorders, streams, expects>>

\* The rest of the snapshot, and the deferred RUnlock.
CopyTotals(p) ==
  /\ get[p] = "totals"
  /\ copy' = [copy EXCEPT ![p].requests = metrics.requests, ![p].of = counted]
  /\ metricsMu' = RUnlocked(metricsMu, p)
  /\ get' = [get EXCEPT ![p] = "answered"]
  /\ UNCHANGED <<clientsMu, recorders, streams, expects>>

\* updateMetrics shows the snapshot.
Update(p) ==
  /\ get[p] = "answered"
  /\ get' = [get EXCEPT ![p] = "idle"]
  /\ UNCHANGED <<locks, recorders, streams, copy, expects>>

GetMetrics(p) == LockSnapshot(p) \/ CopyMaps(p) \/ CopyTotals(p) \/ Update(p)

-----------------------------------------------------------------------------

Next ==
  \/ \E e \in Events : RecordEvent(e)
  \/ \E p \in Pages :
       Open(p) \/ Stream(p) \/ Write(p) \/ GoAway(p) \/ Fetch(p) \/ GetMetrics(p)

Spec == Init /\ [][Next]_vars

\* Goroutines that can run do.  A write returns when the page is gone; one that
\* stays may stop reading for as long as it likes, since the dashboard's server
\* has no write timeout.  Whether an event is ever recorded is up to the clients.
FairSpec ==
  /\ Spec
  /\ \A e \in Events : WF_vars(rec[e] # "new" /\ RecordEvent(e))
  /\ \A p \in Pages : WF_vars(Stream(p)) /\ WF_vars(p \in away /\ Write(p))
  /\ \A p \in Pages : WF_vars(GetMetrics(p))

-----------------------------------------------------------------------------
(* Properties.                                                              *)

TypeOK ==
  /\ metricsMu \in [writer : Events \cup {none}, readers : SUBSET Pages]
  /\ clientsMu \in [writer : Pages \cup {none}, readers : SUBSET Events]
  /\ metrics \in [requests : Nat, denied : Nat, allowed : Nat]
  /\ rec \in [Events -> {"new", "totals", "decisions", "clients", "send", "done"}]
  /\ todo \in [Events -> SUBSET clients]
  /\ clients \subseteq Pages /\ away \subseteq Pages
  /\ chan \in [Pages -> Seq(Events)] /\ shown \in [Pages -> Seq(Events)]
  /\ offered \in [Pages -> Seq(Events)] /\ counted \in Seq(Events)
  /\ taken \in [Pages -> Events \cup {none}]
  /\ sse \in [Pages -> {"closed", "lock", "add", "select", "write", "leave",
                        "remove"}]
  /\ get \in [Pages -> {"idle", "lock", "maps", "totals", "answered"}]
  /\ copy \in [Pages -> [requests : Nat, denied : Nat, allowed : Nat,
                         of : Seq(Events)]]
  /\ expects \in [Pages -> SUBSET Events]
  /\ \A p \in Pages : Len(chan[p]) <= Capacity
  /\ \A p \in Pages : chan[p] # <<>> => p \in clients

\* What a page shows adds up: the decisions of a snapshot are those of the
\* requests in it, however many handlers record meanwhile (dashboard.go:44-111).
SnapshotAddsUp ==
  \A p \in Pages : get[p] = "answered" =>
    copy[p].denied + copy[p].allowed = copy[p].requests

\* The page fetches the metrics because it was sent an event: that event, and
\* every one before it, is in the metrics it gets, although the event is sent
\* before RecordEvent is through (dashboard.go:67-73, 297).
ShownIsCounted ==
  \A p \in Pages : get[p] = "answered" => expects[p] \subseteq ToSet(copy[p].of)

\* Every page is sent events in the one order in which they are counted, each at
\* most once, and those it misses are only the ones its channel had no room for: of
\* the events offered to it since it was added, the first Capacity are waiting for
\* it, being sent or shown, unless it has gone away (dashboard.go:44-75, 192).
InOrder(p) ==
  \A i, j \in 1..Len(shown[p]) : i < j =>
    \E k, l \in 1..Len(counted) :
      k < l /\ counted[k] = shown[p][i] /\ counted[l] = shown[p][j]
FirstOnesKept(p) ==
  \A i \in 1..Len(offered[p]) : i <= Capacity =>
    offered[p][i] \in ToSet(shown[p]) \cup {taken[p]} \cup ToSet(chan[p])
FeedInOrder ==
  /\ \A p \in Pages : InOrder(p)
  /\ \A p \in Pages \ away : FirstOnesKept(p)

\* Recording an event never waits for a page: neither one that does not read its
\* stream nor one that comes, goes or fetches can hold a request up.
RecordsFinish == \A e \in Events : rec[e] = "totals" ~> rec[e] = "done"

\* A page that has gone away is taken off the map: channels do not pile up.
LeavesMap == \A p \in Pages : p \in away ~> p \notin clients /\ sse[p] = "closed"
=============================================================================
