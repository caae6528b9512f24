---------------------------- MODULE Interceptor -----------------------------
(***************************************************************************)
(* The request pipeline of internal/proxy/intercept.go: handleHTTP, which  *)
(* net/http runs in a goroutine of its own for every request, while the    *)
(* policy watcher swaps the engine's query under it.                       *)
(*                                                                         *)
(* Every call the handler makes on a shared component is one action: the   *)
(* rate limiter, the engine, the audit logger, the alert manager, the      *)
(* detector, the upstream and the dashboard each have their own lock, or   *)
(* none.  The handler waits for every one of them, so that pc[r] names the *)
(* call request r makes next.                                              *)
(*                                                                         *)
(* Left to other modules or to data: what makes a path or host an AI       *)
(* endpoint and which tool calls a body holds (both come with the          *)
(* request), the windows of the limiter (RateLimiter implements            *)
(* FixedWindow; here only the calls granted in the open window are left),  *)
(* and the anomalies that Analyze finds and reports to the sinks.          *)
(***************************************************************************)
EXTENDS PolicyEngine, Naturals, Sequences

CONSTANTS
  Requests,    \* the requests that may come in
  Hosts,       \* the hosts they are for
  CallLists,   \* the sequences of tool calls a request may hold
  Budget,      \* the calls a window of the limiter grants (FixedWindow)
  MaxReloads   \* bound: the policy files loaded while requests are served

ASSUME InterceptorAssumption ==
  /\ CallLists \subseteq Seq(Tools)
  /\ Budget \in Nat \ {0}
  /\ MaxReloads \in Nat

VARIABLES
  dryRun,     \* p.config.DryRun
  used,       \* used[h]: the calls granted to h in its open window
  pc,         \* pc[r]: what r's handler does next
  request,    \* request[r]: its host, whether it is an AI endpoint, its calls
  decisions,  \* event.Decisions: the action decided for each call so far
  broken,     \* the audit log's encoder has met an error: nothing more is written
  logged,     \* logged[r]: how many of r's decisions are in the audit log
  alerted,    \* history: the requests AlertDecision was called for
  known,      \* d.knownTools of the detector
  delivered,  \* history: the requests that have gone out to the upstream
  events,     \* the requests whose event is in the audit log
  metrics,    \* the dashboard's counters
  response,   \* response[r]: what the client is answered, "none" before
  inForce,    \* history: the queries prepared so far, the current one last
  arrived     \* history: arrived[r] is the query in force when r came in

requestVars == <<request, decisions, logged, alerted, delivered, events, response,
                 arrived>>
vars == <<engineVars, dryRun, used, pc, broken, requestVars, known, metrics, inForce>>

Stages == {"new", "body", "admit", "evaluate", "log", "alert", "refuse",
           "analyze", "forward", "await", "logEvent", "record", "respond", "done"}
Actions == {"deny", "log", "allow"}
Responses == {"none", "400", "403", "429", "500", "502", "aborted", "upstream"}

NoRequest == [host |-> "none", ai |-> FALSE, calls |-> <<>>]

Init ==
  /\ EngineInit
  /\ dryRun \in BOOLEAN
  /\ used = [h \in Hosts |-> 0]
  /\ pc = [r \in Requests |-> "new"]
  /\ request = [r \in Requests |-> NoRequest]
  /\ decisions = [r \in Requests |-> <<>>]
  /\ broken = FALSE
  /\ logged = [r \in Requests |-> 0]
  /\ alerted = {}
  /\ known = {}
  /\ delivered = {}
  /\ events = {}
  /\ metrics = [requests |-> 0, calls |-> 0, denied |-> 0, allowed |-> 0]
  /\ response = [r \in Requests |-> "none"]
  /\ inForce = <<NoModules>>
  /\ arrived = [r \in Requests |-> 0]

Goto(r, stage) == pc' = [pc EXCEPT ![r] = stage]
Answer(r, status) ==
  /\ response' = [response EXCEPT ![r] = status]
  /\ Goto(r, "done")

\* Whatever is written to the audit log may meet an error, and after the first one the
\* encoder writes nothing.  The handler goes on: LogMessage's error is not looked at, those
\* of LogDecision and LogEvent are only put into a further message.
WriteLog == broken' \in {broken, TRUE}

Calls(r) == request[r].calls
Judged(r) == Len(decisions[r])
LastAction(r) == decisions[r][Judged(r)]

\* Is the last decision a denial that is enforced?
Enforced(r) == LastAction(r) = "deny" /\ ~dryRun

\* Mutant of NextStage: the loop ends one call too early.
NextStageOffByOne(r) ==
  IF Judged(r) + 1 < Len(Calls(r)) THEN "evaluate" ELSE "forward"

\* The loop over the tool calls: on to the next one, or out of it.
NextStage(r) == IF Judged(r) < Len(Calls(r)) THEN "evaluate" ELSE "forward"

-----------------------------------------------------------------------------
(* The handler.                                                             *)

\* net/http has read the header and calls ServeHTTP.
Arrive(r) ==
  /\ pc[r] = "new"
  /\ \E h \in Hosts, ai \in BOOLEAN, s \in CallLists :
       request' = [request EXCEPT ![r] = [host |-> h, ai |-> ai,
                                          calls |-> IF ai THEN s ELSE <<>>]]
  /\ arrived' = [arrived EXCEPT ![r] = Len(inForce)]
  /\ Goto(r, "body")
  /\ UNCHANGED <<engineVars, dryRun, broken, used, decisions, logged, alerted, known,
                 delivered, events, metrics, response, inForce>>

\* io.ReadAll(r.Body): 400 when it fails.  What is not an AI endpoint is
\* forwarded as it is.
ReadBody(r) ==
  /\ pc[r] = "body"
  /\ \/ /\ Goto(r, IF request[r].ai THEN "admit" ELSE "forward")
        /\ UNCHANGED <<broken, response>>
     \/ Answer(r, "400") /\ WriteLog
  /\ UNCHANGED <<engineVars, dryRun, used, request, decisions, logged, alerted,
                 known, delivered, events, metrics, inForce, arrived>>

\* Mutant of Admit: the budget is compared one too late.
AdmitOffByOne(r) ==
  /\ pc[r] = "admit"
  /\ IF used[request[r].host] <= Budget
     THEN /\ used' = [used EXCEPT ![request[r].host] = @ + 1]
          /\ Goto(r, NextStage(r))
          /\ UNCHANGED <<broken, response>>
     ELSE /\ Answer(r, "429") /\ WriteLog
          /\ UNCHANGED used
  /\ UNCHANGED <<engineVars, dryRun, request, decisions, logged, alerted, known,
                 delivered, events, metrics, inForce, arrived>>

\* Mutant of Admit: the limiter waits for budget instead of refusing.
AdmitWaits(r) ==
  /\ pc[r] = "admit"
  /\ used[request[r].host] < Budget
  /\ used' = [used EXCEPT ![request[r].host] = @ + 1]
  /\ Goto(r, NextStage(r))
  /\ UNCHANGED <<engineVars, dryRun, broken, request, decisions, logged, alerted,
                 known, delivered, events, metrics, response, inForce, arrived>>

\* p.rateLimiter.Allow(r.Host): 429 when it refuses.
Admit(r) ==
  /\ pc[r] = "admit"
  /\ IF used[request[r].host] < Budget
     THEN /\ used' = [used EXCEPT ![request[r].host] = @ + 1]
          /\ Goto(r, NextStage(r))
          /\ UNCHANGED <<broken, response>>
     ELSE /\ Answer(r, "429") /\ WriteLog
          /\ UNCHANGED used
  /\ UNCHANGED <<engineVars, dryRun, request, decisions, logged, alerted, known,
                 delivered, events, metrics, inForce, arrived>>

\* Mutant of Evaluate: the query is the one the request found when it came in.
EvaluateSnapshot(r) ==
  /\ pc[r] = "evaluate"
  /\ IF Panics(inForce[arrived[r]])
     THEN /\ Answer(r, "aborted")
          /\ UNCHANGED decisions
     ELSE /\ decisions' = [decisions EXCEPT ![r] =
                  Append(@, Decide(inForce[arrived[r]], Calls(r)[Judged(r) + 1]))]
          /\ Goto(r, "log")
          /\ UNCHANGED response
  /\ UNCHANGED <<engineVars, dryRun, broken, used, request, logged, alerted, known,
                 delivered, events, metrics, inForce, arrived>>

\* p.engine.Evaluate(&tc): the method call copies e.prepared, and that copy
\* decides.  Without any prepared query it panics; net/http recovers and closes
\* the connection.
Evaluate(r) ==
  /\ pc[r] = "evaluate"
  /\ IF Panics(prepared)
     THEN /\ Answer(r, "aborted")
          /\ UNCHANGED decisions
     ELSE /\ decisions' = [decisions EXCEPT ![r] =
                             Append(@, Decide(prepared, Calls(r)[Judged(r) + 1]))]
          /\ Goto(r, "log")
          /\ UNCHANGED response
  /\ UNCHANGED <<engineVars, dryRun, broken, used, request, logged, alerted, known,
                 delivered, events, metrics, inForce, arrived>>

\* Mutant of LogDecision: the client is refused before the sinks are told.
LogDecisionSkipsAlert(r) ==
  /\ pc[r] = "log"
  /\ WriteLog
  /\ logged' = IF broken' THEN logged ELSE [logged EXCEPT ![r] = @ + 1]
  /\ Goto(r, IF Enforced(r) THEN "refuse" ELSE "analyze")
  /\ UNCHANGED <<engineVars, dryRun, used, request, decisions, alerted, known,
                 delivered, events, metrics, response, inForce, arrived>>

\* Mutant of LogDecision: the detector sees the call before the denial does.
LogDecisionLearnsFirst(r) ==
  /\ pc[r] = "log"
  /\ WriteLog
  /\ logged' = IF broken' THEN logged ELSE [logged EXCEPT ![r] = @ + 1]
  /\ known' = known \cup {Calls(r)[Judged(r)]}
  /\ Goto(r, IF Enforced(r) THEN "alert" ELSE NextStage(r))
  /\ UNCHANGED <<engineVars, dryRun, used, request, decisions, alerted,
                 delivered, events, metrics, response, inForce, arrived>>

\* p.logger.LogDecision, after whose error the handler goes on with nothing in the log;
\* then the denial is enforced, or passed over in a dry run.
LogDecision(r) ==
  /\ pc[r] = "log"
  /\ WriteLog
  /\ logged' = IF broken' THEN logged ELSE [logged EXCEPT ![r] = @ + 1]
  /\ Goto(r, IF Enforced(r) THEN "alert" ELSE "analyze")
  /\ UNCHANGED <<engineVars, dryRun, used, request, decisions, alerted, known,
                 delivered, events, metrics, response, inForce, arrived>>

\* p.alertMgr.AlertDecision: every sink is tried, every error ignored.
AlertDecision(r) ==
  /\ pc[r] = "alert"
  /\ alerted' = alerted \cup {r}
  /\ Goto(r, "refuse")
  /\ UNCHANGED <<engineVars, dryRun, broken, used, request, decisions, logged, known,
                 delivered, events, metrics, response, inForce, arrived>>

WriteDenyResponse(r) ==
  /\ pc[r] = "refuse"
  /\ Answer(r, "403")
  /\ UNCHANGED <<engineVars, dryRun, broken, used, request, decisions, logged, alerted,
                 known, delivered, events, metrics, inForce, arrived>>

\* The message about a denial that a dry run passes over, p.detector.Analyze(&tc), which
\* ends by recording the tool, and the alerts for what it found.
Analyze(r) ==
  /\ pc[r] = "analyze"
  /\ IF LastAction(r) = "deny" THEN WriteLog ELSE UNCHANGED broken
  /\ known' = known \cup {Calls(r)[Judged(r)]}
  /\ Goto(r, NextStage(r))
  /\ UNCHANGED <<engineVars, dryRun, used, request, decisions, logged, alerted,
                 delivered, events, metrics, response, inForce, arrived>>

\* client.Do in forwardToUpstream: the request goes out, or fails before that.
Forward(r) ==
  /\ pc[r] = "forward"
  /\ \/ /\ delivered' = delivered \cup {r}
        /\ Goto(r, "await")
        /\ UNCHANGED <<broken, response>>
     \/ /\ Answer(r, "502") /\ WriteLog
        /\ UNCHANGED delivered
  /\ UNCHANGED <<engineVars, dryRun, used, request, decisions, logged, alerted,
                 known, events, metrics, inForce, arrived>>

\* The rest of client.Do and io.ReadAll(resp.Body): the 120-second timeout, the
\* client going away or a broken connection end either of them.
Await(r) ==
  /\ pc[r] = "await"
  /\ \/ Goto(r, "logEvent") /\ UNCHANGED <<broken, response>>
     \/ Answer(r, "502") /\ WriteLog
     \/ Answer(r, "500") /\ WriteLog
  /\ UNCHANGED <<engineVars, dryRun, used, request, decisions, logged, alerted,
                 known, delivered, events, metrics, inForce, arrived>>

\* p.logger.LogEvent, after whose error the handler goes on to the counters and the answer.
LogEvent(r) ==
  /\ pc[r] = "logEvent"
  /\ WriteLog
  /\ events' = IF broken' THEN events ELSE events \cup {r}
  /\ Goto(r, "record")
  /\ UNCHANGED <<engineVars, dryRun, used, request, decisions, logged, alerted,
                 known, delivered, metrics, response, inForce, arrived>>

\* p.dash.RecordEvent: the counters.  Its clients are left to the dashboard.
Count(r, action) == Cardinality({i \in 1..Judged(r) : decisions[r][i] = action})
RecordEvent(r) ==
  /\ pc[r] = "record"
  /\ metrics' = [requests |-> metrics.requests + 1,
                 calls    |-> metrics.calls + Len(Calls(r)),
                 denied   |-> metrics.denied + Count(r, "deny"),
                 allowed  |-> metrics.allowed + Count(r, "allow")]
  /\ Goto(r, "respond")
  /\ UNCHANGED <<engineVars, dryRun, used, broken, requestVars, known, inForce>>

Respond(r) ==
  /\ pc[r] = "respond"
  /\ Answer(r, "upstream")
  /\ UNCHANGED <<engineVars, dryRun, broken, used, request, decisions, logged, alerted,
                 known, delivered, events, metrics, inForce, arrived>>

Step(r) ==
  \/ ReadBody(r) \/ Admit(r) \/ Evaluate(r) \/ LogDecision(r) \/ AlertDecision(r)
  \/ WriteDenyResponse(r) \/ Analyze(r) \/ Forward(r) \/ Await(r) \/ LogEvent(r)
  \/ RecordEvent(r) \/ Respond(r)

-----------------------------------------------------------------------------
(* What goes on around the handlers.                                        *)

\* The watcher, or the startup before it, loads a policy file (PolicyReload).
Reload ==
  /\ Len(inForce) <= MaxReloads
  /\ \E n \in Names, source \in Contents : LoadPolicy(n, source)
  /\ inForce' = IF prepared' = prepared THEN inForce ELSE Append(inForce, prepared')
  /\ WriteLog
  /\ UNCHANGED <<dryRun, used, pc, requestVars, known, metrics>>

\* A window of the limiter comes to its end.
WindowOver(h) ==
  /\ used[h] > 0
  /\ used' = [used EXCEPT ![h] = 0]
  /\ UNCHANGED <<engineVars, dryRun, pc, broken, requestVars, known, metrics, inForce>>

Next ==
  \/ \E r \in Requests : Arrive(r) \/ Step(r)
  \/ Reload
  \/ \E h \in Hosts : WindowOver(h)

Spec == Init /\ [][Next]_vars

\* Every call a handler waits for comes back: reading the body is bounded by the
\* server's 60-second ReadTimeout, a webhook by its 10-second timeout, the
\* upstream by the client's 120 seconds, and no lock is held across a wait.
FairSpec == Spec /\ \A r \in Requests : WF_vars(Step(r))

-----------------------------------------------------------------------------
(* Properties.                                                              *)

TypeOK ==
  /\ EngineTypeOK
  /\ dryRun \in BOOLEAN
  /\ used \in [Hosts -> 0..Budget]
  /\ pc \in [Requests -> Stages]
  /\ request \in [Requests -> {NoRequest} \cup
                   [host : Hosts, ai : BOOLEAN, calls : Seq(Tools)]]
  /\ decisions \in [Requests -> Seq(Actions)]
  /\ broken \in BOOLEAN
  /\ logged \in [Requests -> Nat]
  /\ alerted \subseteq Requests /\ delivered \subseteq Requests
  /\ events \subseteq Requests
  /\ known \subseteq Tools
  /\ metrics \in [requests : Nat, calls : Nat, denied : Nat, allowed : Nat]
  /\ response \in [Requests -> Responses]
  /\ inForce \in Seq([Names -> Contents \cup {NoModule}])
  /\ arrived \in [Requests -> 0..Len(inForce)]

\* The queries that were in force at some moment since r came in.
Since(r) == {inForce[e] : e \in arrived[r]..Len(inForce)}

\* Unless this is a dry run, nothing goes out to the model provider that holds a
\* call which every policy in force since the request came in denies: a call
\* revoked before the request came is never delivered, however reloads and other
\* requests interleave (intercept.go:64-91).
ClearedByPolicy ==
  ~dryRun =>
    \A r \in delivered : \A i \in 1..Len(Calls(r)) :
      \E query \in Since(r) : Decide(query, Calls(r)[i]) # "deny"

\* A client is refused with 403 only for a call that some policy in force during
\* its request denies, never in a dry run, and never once the request has gone
\* out (intercept.go:72-76).
RefusedByPolicy ==
  \A r \in Requests : response[r] = "403" =>
    /\ ~dryRun
    /\ r \notin delivered
    /\ \E i \in 1..Len(Calls(r)) : \E query \in Since(r) :
         Decide(query, Calls(r)[i]) = "deny"

\* Nothing happens to a request before it is on record, as long as the log can be
\* written: every one of its calls is in it before the request goes out, the denial is
\* in it and the sinks have been told before the client learns of it, and the event is
\* in it before the client has its answer.  The log is given up only for all requests
\* and for good: a handler that cannot write does not stop, so that from then on calls
\* go out unlogged, but denials are alerted as before (intercept.go:68-76, 91, 113-121).
RecordedBeforeOutcome ==
  \A r \in Requests :
    /\ r \in delivered => logged[r] = Len(Calls(r)) \/ broken
    /\ response[r] = "403" => r \in alerted /\ (logged[r] = Judged(r) \/ broken)
    /\ response[r] = "upstream" => r \in events \/ broken

\* The detector learns a tool only from a call that was let through: an enforced
\* denial leaves the tool unknown (intercept.go:72-82, detector.go:131-137).
LearnsOnlyCleared ==
  ~dryRun =>
    \A t \in known : \E r \in Requests : \E i \in 1..Judged(r) :
      Calls(r)[i] = t /\ decisions[r][i] # "deny"

\* Every request that comes in is answered, or its connection is closed: none stays
\* between its arrival, which cannot be undone, and its answer, which nothing takes back.
Answered == \A r \in Requests : []<>(pc[r] = "new" \/ response[r] # "none")

\* The pipeline implements the gate: taking the copy of e.prepared is the moment
\* at which a call is judged.
Blocked(r) == Judged(r) > 0 /\ Enforced(r)
Outcome(r) ==
  IF pc[r] = "new" THEN "none"
  ELSE IF r \in delivered THEN "passed"
  ELSE IF Blocked(r) THEN "blocked"
  ELSE IF pc[r] = "done" THEN "dropped"
  ELSE "open"
G == INSTANCE Gate WITH
       enforcing <- ~dryRun,
       permitted <- {t \in Tools : Decide(prepared, t) # "deny"},
       calls     <- [r \in Requests |-> Calls(r)],
       cleared   <- [r \in Requests |-> IF Blocked(r) THEN Judged(r) - 1 ELSE Judged(r)],
       outcome   <- [r \in Requests |-> Outcome(r)]
ImplementsGate == G!GateSpec

\* README.md:140: the dashboard shows "denied/allowed counts".  Every request
\* refused with 403 has had a denied call counted.
DeniedCounted ==
  metrics.denied >= Cardinality({r \in Requests : response[r] = "403"})
=============================================================================
