------------------------- MODULE Interceptor_proofs -------------------------
(***************************************************************************)
(* Proofs about the request pipeline, for every set of requests, policy    *)
(* files and tools: its type invariant, the safety properties that decide  *)
(* what may be delivered and what may be refused, and that it implements   *)
(* the gate.                                                               *)
(*                                                                         *)
(* The properties speak of outcomes; the inductive invariant says, for     *)
(* every stage a handler can be at, how far the judging of its calls has   *)
(* come (StageOf) and, while the log can be written, what of it is in the  *)
(* log (LogOf), and that every decision it holds was taken by a query in   *)
(* force since the request came in (JudgedOf).                             *)
(***************************************************************************)
EXTENDS Interceptor, FiniteSetTheorems, TLAPS

\* The first k decisions of r let its calls through.
Passing(r, k) == ~dryRun => \A i \in 1..k : decisions[r][i] # "deny"

Sent == {"await", "logEvent", "record", "respond"}

StageOf(r) ==
  /\ Judged(r) <= Len(Calls(r))
  /\ Passing(r, Judged(r) - 1)
  /\ ~request[r].ai => Calls(r) = <<>>
  /\ pc[r] = "new" => request[r] = NoRequest
  /\ pc[r] # "new" => arrived[r] > 0
  /\ pc[r] \in {"new", "body", "admit"} => Judged(r) = 0
  /\ pc[r] = "evaluate" => Judged(r) < Len(Calls(r))
  /\ pc[r] \in {"log", "alert", "refuse", "analyze"} => Judged(r) > 0
  /\ pc[r] \in {"alert", "refuse"} => Enforced(r)
  /\ pc[r] = "refuse" => r \in alerted
  /\ pc[r] \in {"evaluate", "analyze", "forward"} => Passing(r, Judged(r))
  /\ pc[r] = "forward" => Judged(r) = Len(Calls(r))
  /\ pc[r] \in Sent => r \in delivered
  /\ r \in delivered => /\ pc[r] \in Sent \cup {"done"}
                       /\ Judged(r) = Len(Calls(r))
                       /\ Passing(r, Judged(r))
  /\ response[r] # "none" => pc[r] = "done"
  /\ response[r] = "403" => /\ Judged(r) > 0
                            /\ Enforced(r)
                            /\ r \in alerted
                            /\ r \notin delivered
  /\ pc[r] = "done" /\ Judged(r) > 0 /\ Enforced(r) => response[r] = "403"

\* While the log can be written, it holds the decisions of r made so far, but for the
\* one about to be logged, and the event of r once that was logged.
LogOf(r) ==
  ~broken =>
    /\ pc[r] \in {"new", "body", "admit"} => logged[r] = 0
    /\ pc[r] = "log" => logged[r] = Judged(r) - 1
    /\ pc[r] \in {"evaluate", "alert", "refuse", "analyze", "forward"} =>
         logged[r] = Judged(r)
    /\ r \in delivered => logged[r] = Judged(r)
    /\ pc[r] \in {"record", "respond"} => r \in events
    /\ response[r] = "403" => logged[r] = Judged(r)
    /\ response[r] = "upstream" => r \in events

\* Every decision of r was taken by a query in force since r came in.
JudgedOf(r) ==
  \A i \in 1..Judged(r) : \E query \in Since(r) :
    decisions[r][i] = Decide(query, Calls(r)[i])

CurrentQuery == Len(inForce) > 0 /\ prepared = inForce[Len(inForce)]

IInv ==
  /\ TypeOK
  /\ CurrentQuery
  /\ \A r \in Requests : StageOf(r) /\ JudgedOf(r) /\ LogOf(r)
  /\ LearnsOnlyCleared

Mods == [Names -> Contents \cup {NoModule}]
RequestType == {NoRequest} \cup [host : Hosts, ai : BOOLEAN, calls : Seq(Tools)]

\* The calls of a request are a sequence of tools.
LEMMA CallsType ==
  ASSUME request \in [Requests -> RequestType], NEW r \in Requests
  PROVE  Calls(r) \in Seq(Tools)
<1>1. CASE request[r] = NoRequest
  BY <1>1 DEF Calls, NoRequest
<1>2. CASE request[r] \in [host : Hosts, ai : BOOLEAN, calls : Seq(Tools)]
  BY <1>2 DEF Calls
<1> QED
  BY <1>1, <1>2 DEF RequestType

\* A decision is an action.
LEMMA DecideType ==
  ASSUME NEW mods, NEW tool PROVE Decide(mods, tool) \in Actions
BY DEF Decide, Actions

\* Where the loop over the calls goes next is a stage.
LEMMA NextStageType ==
  ASSUME NEW r PROVE NextStage(r) \in {"evaluate", "forward"}
BY DEF NextStage

\* The two ways a step of a handler ends keep the types of what they change.
LEMMA GotoType ==
  ASSUME TypeOK, NEW r \in Requests, NEW stage \in Stages, Goto(r, stage)
  PROVE  pc' \in [Requests -> Stages]
BY DEF TypeOK, Goto

\* An answer keeps them too.
LEMMA AnswerType ==
  ASSUME TypeOK, NEW r \in Requests, NEW status \in Responses, Answer(r, status)
  PROVE  pc' \in [Requests -> Stages] /\ response' \in [Requests -> Responses]
<1>1. "done" \in Stages
  BY DEF Stages
<1> QED
  BY <1>1, GotoType DEF TypeOK, Answer

\* The stages and the responses there are.
LEMMA StagesAndResponses ==
  /\ {"evaluate", "forward", "admit", "log", "await", "logEvent", "respond"} \subseteq Stages
  /\ {"400", "429", "500", "502", "aborted"} \subseteq Responses
BY DEF Stages, Responses

\* What LoadPolicy leaves behind has the engine's type.
LEMMA LoadPolicyType ==
  ASSUME EngineTypeOK, NEW n \in Names, NEW source \in Contents, LoadPolicy(n, source)
  PROVE  EngineTypeOK'
<1>1. [modules EXCEPT ![n] = source] \in Mods
  BY DEF EngineTypeOK, Mods
<1>2. modules' \in Mods
  BY <1>1 DEF LoadPolicy, EngineTypeOK, Mods
<1>3. prepared' \in Mods
  BY <1>1 DEF LoadPolicy, EngineTypeOK, Mods
<1> QED
  BY <1>2, <1>3 DEF EngineTypeOK, Mods

-----------------------------------------------------------------------------
(* The type invariant.  That Analyze records a tool rests on StageOf.       *)

\* The initial state has its type.
LEMMA TypeInit == Init => TypeOK
<1> USE InterceptorAssumption
<1> SUFFICES ASSUME Init PROVE TypeOK
  OBVIOUS
<1>1. NoModules \in Mods
  BY DEF NoModules, Mods
<1>2. EngineTypeOK
  BY <1>1 DEF Init, EngineInit, EngineTypeOK, Mods
<1>3. inForce \in Seq(Mods) /\ Len(inForce) = 1
  BY <1>1 DEF Init
<1>4. arrived \in [Requests -> 0..Len(inForce)]
  BY <1>3 DEF Init
<1>5. request \in [Requests -> {NoRequest} \cup
                   [host : Hosts, ai : BOOLEAN, calls : Seq(Tools)]]
  BY DEF Init
<1>6. decisions \in [Requests -> Seq(Actions)] /\ logged \in [Requests -> Nat]
  BY DEF Init
<1>7. pc \in [Requests -> Stages] /\ response \in [Requests -> Responses]
  BY DEF Init, Stages, Responses
<1>8. used \in [Hosts -> 0..Budget]
  BY DEF Init
<1>9. metrics \in [requests : Nat, calls : Nat, denied : Nat, allowed : Nat]
  BY DEF Init
<1> QED
  BY <1>2, <1>3, <1>4, <1>5, <1>6, <1>7, <1>8, <1>9 DEF Init, TypeOK, Mods

\* Every step writes to the log, and it may break, or leaves it alone.
LEMMA BrokenType ==
  ASSUME TypeOK, [Next]_vars
  PROVE  broken' \in BOOLEAN /\ (broken => broken')
<1>1. ASSUME NEW r \in Requests, Arrive(r) \/ Step(r)
      PROVE  WriteLog \/ broken' = broken
  BY <1>1 DEF Step, Arrive, ReadBody, Admit, Evaluate, LogDecision, AlertDecision,
     WriteDenyResponse, Analyze, Forward, Await, LogEvent, RecordEvent, Respond
<1>2. WriteLog \/ broken' = broken
  BY <1>1 DEF Next, Reload, WindowOver, vars
<1> QED BY <1>2 DEF WriteLog, TypeOK

\* Every step keeps the types.
LEMMA TypeStep ==
  ASSUME TypeOK, \A r \in Requests : StageOf(r), [Next]_vars
  PROVE  TypeOK'
<1> USE InterceptorAssumption
<1>0. ASSUME NEW r \in Requests, NEW stage \in Stages, NEW status \in Responses
      PROVE  /\ [pc EXCEPT ![r] = stage] \in [Requests -> Stages]
             /\ [response EXCEPT ![r] = status] \in [Requests -> Responses]
             /\ [logged EXCEPT ![r] = @ + 1] \in [Requests -> Nat]
  BY DEF TypeOK
<1>0a. broken' \in BOOLEAN
  BY BrokenType
<1>1. ASSUME NEW r \in Requests, Arrive(r) PROVE TypeOK'
  <2>1. request' \in [Requests -> {NoRequest} \cup
                      [host : Hosts, ai : BOOLEAN, calls : Seq(Tools)]]
    <3>1. PICK h \in Hosts, ai \in BOOLEAN, s \in CallLists :
            request' = [request EXCEPT ![r] = [host |-> h, ai |-> ai,
                                               calls |-> IF ai THEN s ELSE <<>>]]
      BY <1>1 DEF Arrive
    <3>2. (IF ai THEN s ELSE <<>>) \in Seq(Tools)
      OBVIOUS
    <3> QED
      BY <3>1, <3>2 DEF TypeOK
  <2>2. arrived' \in [Requests -> 0..Len(inForce)]
    BY <1>1 DEF Arrive, TypeOK
  <2>3. pc' \in [Requests -> Stages]
    BY <1>1 DEF Arrive, Goto, Stages, TypeOK
  <2> QED
    BY <1>1, <2>1, <2>2, <2>3 DEF Arrive, TypeOK, EngineTypeOK, engineVars
<1>2. ASSUME NEW r \in Requests, ReadBody(r) PROVE TypeOK'
  <2>1. pc' \in [Requests -> Stages] /\ response' \in [Requests -> Responses]
    <3>1. CASE Goto(r, IF request[r].ai THEN "admit" ELSE "forward") /\ UNCHANGED response
      BY <3>1, GotoType, StagesAndResponses DEF TypeOK
    <3>2. CASE Answer(r, "400")
      BY <3>2, AnswerType, StagesAndResponses
    <3> QED
      BY <1>2, <3>1, <3>2 DEF ReadBody
  <2> QED
    BY <1>0a, <1>2, <2>1 DEF ReadBody, TypeOK, EngineTypeOK, engineVars
<1>3. ASSUME NEW r \in Requests, Admit(r) PROVE TypeOK'
  <2>1. pc' \in [Requests -> Stages] /\ response' \in [Requests -> Responses]
    <3>1. CASE Goto(r, NextStage(r)) /\ UNCHANGED response
      <4>1. NextStage(r) \in Stages
        BY NextStageType, StagesAndResponses
      <4> QED
        BY <3>1, <4>1, GotoType DEF TypeOK
    <3>2. CASE Answer(r, "429")
      BY <3>2, AnswerType, StagesAndResponses
    <3> QED
      BY <1>3, <3>1, <3>2 DEF Admit
  <2>2. used' \in [Hosts -> 0..Budget]
    <3>1. ASSUME NEW h \in Hosts, used[h] < Budget
          PROVE  [used EXCEPT ![h] = @ + 1] \in [Hosts -> 0..Budget]
      BY <3>1 DEF TypeOK
    <3> QED
      BY ZenonT(60), <1>3, <3>1 DEF Admit, TypeOK
  <2> QED
    BY <1>0a, <1>3, <2>1, <2>2 DEF Admit, TypeOK, EngineTypeOK, engineVars
<1>4. ASSUME NEW r \in Requests, Evaluate(r) PROVE TypeOK'
  <2>1. pc' \in [Requests -> Stages] /\ response' \in [Requests -> Responses]
    <3>1. CASE Goto(r, "log") /\ UNCHANGED response
      BY <3>1, GotoType, StagesAndResponses DEF TypeOK
    <3>2. CASE Answer(r, "aborted")
      BY <3>2, AnswerType, StagesAndResponses
    <3> QED
      BY <1>4, <3>1, <3>2 DEF Evaluate
  <2>2. decisions' \in [Requests -> Seq(Actions)]
    <3>1. ASSUME NEW d \in Actions
          PROVE  [decisions EXCEPT ![r] = Append(@, d)] \in [Requests -> Seq(Actions)]
      BY DEF TypeOK
    <3>2. CASE UNCHANGED decisions
      BY <3>2 DEF TypeOK
    <3>3. CASE decisions' = [decisions EXCEPT ![r] =
                               Append(@, Decide(prepared, Calls(r)[Judged(r) + 1]))]
      <4>1. PICK d \in Actions : d = Decide(prepared, Calls(r)[Judged(r) + 1])
        BY DecideType
      <4> QED
        BY <3>1, <3>3, <4>1
    <3> QED
      BY <1>4, <3>2, <3>3 DEF Evaluate
  <2> QED
    BY <1>4, <2>1, <2>2 DEF Evaluate, TypeOK, EngineTypeOK, engineVars
<1>5. ASSUME NEW r \in Requests, LogDecision(r) PROVE TypeOK'
  <2>1. pc' \in [Requests -> Stages] /\ logged' \in [Requests -> Nat]
    BY <1>0, <1>5 DEF LogDecision, Goto, Stages, TypeOK
  <2> QED
    BY <1>0a, <1>5, <2>1 DEF LogDecision, TypeOK, EngineTypeOK, engineVars
<1>6. ASSUME NEW r \in Requests, AlertDecision(r) PROVE TypeOK'
  BY <1>0, <1>6 DEF AlertDecision, Goto, Stages, TypeOK, EngineTypeOK, engineVars
<1>7. ASSUME NEW r \in Requests, WriteDenyResponse(r) PROVE TypeOK'
  <2>1. pc' \in [Requests -> Stages] /\ response' \in [Requests -> Responses]
    BY <1>0, <1>7 DEF WriteDenyResponse, Goto, Answer, Stages, Responses, TypeOK
  <2> QED
    BY <1>7, <2>1 DEF WriteDenyResponse, TypeOK, EngineTypeOK, engineVars
<1>8. ASSUME NEW r \in Requests, Analyze(r) PROVE TypeOK'
  <2>1. pc' \in [Requests -> Stages]
    BY <1>0, <1>8, NextStageType DEF Analyze, Goto, Stages, TypeOK
  <2>2. Calls(r)[Judged(r)] \in Tools
    <3>1. Judged(r) \in 1..Len(Calls(r))
      <4>1. Judged(r) \in Nat
        BY DEF Judged, TypeOK
      <4> QED
        BY <1>8, <4>1 DEF Analyze, StageOf
    <3> QED
      BY <3>1, CallsType DEF TypeOK, RequestType
  <2> QED
    BY <1>0a, <1>8, <2>1, <2>2 DEF Analyze, TypeOK, EngineTypeOK, engineVars
<1>9. ASSUME NEW r \in Requests, Forward(r) PROVE TypeOK'
  <2>1. pc' \in [Requests -> Stages] /\ response' \in [Requests -> Responses]
    <3>1. CASE Goto(r, "await") /\ UNCHANGED response
      BY <3>1, GotoType, StagesAndResponses DEF TypeOK
    <3>2. CASE Answer(r, "502")
      BY <3>2, AnswerType, StagesAndResponses
    <3> QED
      BY <1>9, <3>1, <3>2 DEF Forward
  <2>2. delivered' \subseteq Requests
    BY <1>9 DEF Forward, TypeOK
  <2> QED
    BY <1>0a, <1>9, <2>1, <2>2 DEF Forward, TypeOK, EngineTypeOK, engineVars
<1>10. ASSUME NEW r \in Requests, Await(r) PROVE TypeOK'
  <2>1. pc' \in [Requests -> Stages] /\ response' \in [Requests -> Responses]
    <3>1. CASE Goto(r, "logEvent") /\ UNCHANGED response
      BY <3>1, GotoType, StagesAndResponses DEF TypeOK
    <3>2. CASE Answer(r, "502") \/ Answer(r, "500")
      BY <3>2, AnswerType, StagesAndResponses
    <3> QED
      BY <1>10, <3>1, <3>2 DEF Await
  <2> QED
    BY <1>0a, <1>10, <2>1 DEF Await, TypeOK, EngineTypeOK, engineVars
<1>11. ASSUME NEW r \in Requests, LogEvent(r) PROVE TypeOK'
  BY <1>0a, <1>0, <1>11 DEF LogEvent, Goto, Stages, TypeOK, EngineTypeOK, engineVars
<1>12. ASSUME NEW r \in Requests, RecordEvent(r) PROVE TypeOK'
  <2>1. ASSUME NEW action PROVE Count(r, action) \in Nat
    <3>1. Judged(r) \in Nat
      BY DEF Judged, TypeOK
    <3>2. IsFiniteSet(1..Judged(r))
      BY <3>1, FS_Interval
    <3>3. {i \in 1..Judged(r) : decisions[r][i] = action} \subseteq 1..Judged(r)
      OBVIOUS
    <3>4. IsFiniteSet({i \in 1..Judged(r) : decisions[r][i] = action})
      BY <3>2, <3>3, FS_Subset
    <3> QED
      BY <3>4, FS_CardinalityType DEF Count
  <2>2. Len(Calls(r)) \in Nat
    BY CallsType DEF TypeOK, RequestType
  <2>3. metrics' \in [requests : Nat, calls : Nat, denied : Nat, allowed : Nat]
    BY <1>12, <2>1, <2>2 DEF RecordEvent, TypeOK
  <2>4. pc' \in [Requests -> Stages]
    BY <1>12, GotoType, StagesAndResponses DEF RecordEvent
  <2> QED
    BY <1>12, <2>3, <2>4 DEF RecordEvent, TypeOK, EngineTypeOK, engineVars, requestVars
<1>13. ASSUME NEW r \in Requests, Respond(r) PROVE TypeOK'
  <2>1. pc' \in [Requests -> Stages] /\ response' \in [Requests -> Responses]
    BY <1>0, <1>13 DEF Respond, Goto, Answer, Stages, Responses, TypeOK
  <2> QED
    BY <1>13, <2>1 DEF Respond, TypeOK, EngineTypeOK, engineVars
<1>14. CASE Reload
  <2>1. EngineTypeOK'
    BY <1>14, LoadPolicyType DEF Reload, TypeOK
  <2>2. inForce' \in Seq(Mods) /\ Len(inForce) <= Len(inForce')
    BY <1>14, <2>1 DEF Reload, TypeOK, EngineTypeOK, Mods
  <2>3. arrived \in [Requests -> 0..Len(inForce')]
    BY <2>2 DEF TypeOK
  <2> QED
    BY <1>0a, <1>14, <2>1, <2>2, <2>3 DEF Reload, TypeOK, requestVars, Mods
<1>15. ASSUME NEW h \in Hosts, WindowOver(h) PROVE TypeOK'
  <2>1. used' \in [Hosts -> 0..Budget]
    BY <1>15 DEF WindowOver, TypeOK
  <2> QED
    BY <1>15, <2>1 DEF WindowOver, TypeOK, EngineTypeOK, engineVars, requestVars
<1>16. CASE UNCHANGED vars
  BY <1>16 DEF vars, TypeOK, EngineTypeOK, engineVars, requestVars
<1> QED
  BY <1>1, <1>2, <1>3, <1>4, <1>5, <1>6, <1>7, <1>8, <1>9, <1>10, <1>11, <1>12,
     <1>13, <1>14, <1>15, <1>16 DEF Next, Step

-----------------------------------------------------------------------------
(* The stages.                                                              *)

\* The queries in force are only ever added to.
Extends == /\ Len(inForce) \in Nat /\ Len(inForce)' \in Nat
           /\ Len(inForce) <= Len(inForce)'
           /\ \A e \in 1..Len(inForce) : inForce'[e] = inForce[e]

\* What was judged stays judged, whatever queries are added.
LEMMA JudgedFrame ==
  ASSUME TypeOK, NEW r \in Requests, StageOf(r), JudgedOf(r), Extends,
         request'[r] = request[r], decisions'[r] = decisions[r],
         arrived'[r] = arrived[r]
  PROVE  JudgedOf(r)'
<1>1. Judged(r)' = Judged(r) /\ Calls(r)' = Calls(r)
  BY DEF Judged, Calls
<1>2. SUFFICES ASSUME NEW i \in 1..Judged(r)
               PROVE  \E query \in Since(r)' : decisions[r][i] = Decide(query, Calls(r)[i])
  BY <1>1 DEF JudgedOf
<1>3. PICK query \in Since(r) : decisions[r][i] = Decide(query, Calls(r)[i])
  BY DEF JudgedOf
<1>4. PICK e \in arrived[r]..Len(inForce) : query = inForce[e]
  BY DEF Since
<1>5. Judged(r) \in Nat /\ Judged(r) > 0
  BY DEF Judged, TypeOK
<1>6. arrived[r] > 0 /\ arrived[r] \in Nat
  BY <1>5 DEF StageOf, TypeOK
<1>7. e \in arrived'[r]..Len(inForce)' /\ inForce'[e] = inForce[e]
  BY <1>4, <1>6 DEF Extends
<1> QED
  BY <1>3, <1>4, <1>7 DEF Since

\* What a step does not touch of a request keeps its stage.
LEMMA Frame ==
  ASSUME TypeOK, NEW r \in Requests, StageOf(r), JudgedOf(r), Extends,
         pc'[r] = pc[r], request'[r] = request[r], decisions'[r] = decisions[r],
         response'[r] = response[r], arrived'[r] = arrived[r], dryRun' = dryRun,
         (r \in alerted') <=> (r \in alerted),
         (r \in delivered') <=> (r \in delivered)
  PROVE  StageOf(r)' /\ JudgedOf(r)'
<1>1. Judged(r)' = Judged(r) /\ Calls(r)' = Calls(r) /\ Enforced(r)' = Enforced(r)
  BY DEF Judged, Calls, Enforced, LastAction
<1>2. \A k : Passing(r, k)' <=> Passing(r, k)
  BY DEF Passing
<1>3. Passing(r, Judged(r) - 1)' /\ (Passing(r, Judged(r))' <=> Passing(r, Judged(r)))
  BY <1>1, <1>2 DEF StageOf
<1>4. StageOf(r)'
  BY <1>1, <1>3 DEF StageOf
<1> QED
  BY <1>4, JudgedFrame

\* What the type invariant says of one request.
LEMMA Typed ==
  ASSUME TypeOK, NEW r \in Requests
  PROVE  /\ Judged(r) \in Nat /\ Len(Calls(r)) \in Nat /\ logged[r] \in Nat
         /\ decisions[r] \in Seq(Actions) /\ inForce \in Seq(Mods)
         /\ arrived[r] \in Nat /\ arrived[r] <= Len(inForce)
BY CallsType DEF TypeOK, Judged, RequestType, Mods

\* Nothing but a reload adds a query, so most steps extend the list trivially.
LEMMA ExtendsSame ==
  ASSUME TypeOK, inForce' = inForce
  PROVE  Extends
BY DEF TypeOK, Extends

\* The step each handler is at takes it to the next stage with what that stage
\* asks for.  First the steps that leave the decisions alone.
LEMMA ArriveStage ==
  ASSUME TypeOK, CurrentQuery, NEW r \in Requests, StageOf(r), Arrive(r)
  PROVE  StageOf(r)' /\ JudgedOf(r)'
<1>1. /\ Judged(r) = 0 /\ r \notin delivered
      /\ response[r] = "none" /\ pc[r] = "new"
  BY DEF Arrive, StageOf, Sent
<1>2. /\ pc'[r] = "body" /\ arrived'[r] = Len(inForce) /\ decisions' = decisions
      /\ delivered' = delivered /\ response' = response
      /\ dryRun' = dryRun
  BY DEF Arrive, Goto, TypeOK
<1>3. /\ Judged(r)' = 0
      /\ Passing(r, Judged(r) - 1)'
  BY <1>1, <1>2 DEF Judged, Passing
<1>4. ~request'[r].ai => Calls(r)' = <<>>
  BY DEF Arrive, TypeOK, Calls
<1>5. Len(Calls(r)') \in Nat
  <2>1. PICK h \in Hosts, ai \in BOOLEAN, t \in CallLists :
          request'[r] = [host |-> h, ai |-> ai, calls |-> IF ai THEN t ELSE <<>>]
    BY DEF Arrive, TypeOK
  <2>2. Calls(r)' \in Seq(Tools)
    BY <2>1, InterceptorAssumption DEF Calls
  <2> QED
    BY <2>2
<1>6. StageOf(r)'
  BY <1>1, <1>2, <1>3, <1>4, <1>5 DEF StageOf, CurrentQuery, Sent
<1> QED
  BY <1>3, <1>6 DEF JudgedOf

\* The stage in which the body is read.
LEMMA ReadBodyStage ==
  ASSUME TypeOK, NEW r \in Requests, StageOf(r), JudgedOf(r), ReadBody(r)
  PROVE  StageOf(r)' /\ JudgedOf(r)'
<1>1. /\ Judged(r)' = Judged(r) /\ Calls(r)' = Calls(r) /\ Judged(r) = 0
      /\ Passing(r, Judged(r))' /\ Passing(r, Judged(r) - 1)'
  BY DEF ReadBody, StageOf, Judged, Calls, Passing
<1>2. JudgedOf(r)'
  BY ExtendsSame, JudgedFrame DEF ReadBody
<1>3. /\ r \notin delivered /\ response[r] = "none"
      /\ arrived[r] > 0
  BY DEF ReadBody, StageOf, Sent
<1>4. /\ r \notin delivered' /\ arrived'[r] > 0
      /\ request'[r] = request[r]
  BY <1>3 DEF ReadBody
<1>5. CASE Goto(r, IF request[r].ai THEN "admit" ELSE "forward") /\ UNCHANGED response
  <2>1. pc'[r] = (IF request[r].ai THEN "admit" ELSE "forward") /\ response'[r] = "none"
    BY <1>3, <1>5 DEF Goto, TypeOK
  <2> QED
    BY <1>1, <1>2, <1>3, <1>4, <2>1 DEF StageOf, Sent
<1>6. CASE Answer(r, "400")
  <2>1. pc'[r] = "done" /\ response'[r] = "400"
    BY <1>6 DEF Answer, Goto, TypeOK
  <2> QED
    BY <1>1, <1>2, <1>3, <1>4, <2>1 DEF StageOf, Sent
<1> QED
  BY <1>2, <1>5, <1>6 DEF ReadBody

\* The stage of the rate limiter.
LEMMA AdmitStage ==
  ASSUME TypeOK, NEW r \in Requests, StageOf(r), JudgedOf(r), Admit(r)
  PROVE  StageOf(r)' /\ JudgedOf(r)'
<1>1. /\ Judged(r)' = Judged(r) /\ Calls(r)' = Calls(r) /\ Judged(r) = 0
      /\ Passing(r, Judged(r))' /\ Passing(r, Judged(r) - 1)'
  BY DEF Admit, StageOf, Judged, Calls, Passing
<1>2. JudgedOf(r)'
  BY ExtendsSame, JudgedFrame DEF Admit
<1>3. /\ r \notin delivered /\ response[r] = "none"
      /\ arrived[r] > 0
  BY DEF Admit, StageOf, Sent
<1>4. /\ r \notin delivered' /\ arrived'[r] > 0
      /\ request'[r] = request[r]
  BY <1>3 DEF Admit
<1>5. CASE Goto(r, NextStage(r)) /\ UNCHANGED response
  <2>1. pc'[r] = NextStage(r) /\ response'[r] = "none"
    BY <1>3, <1>5 DEF Goto, TypeOK
  <2> QED
    BY <1>1, <1>2, <1>3, <1>4, <2>1, Typed DEF StageOf, Sent, NextStage
<1>6. CASE Answer(r, "429")
  <2>1. pc'[r] = "done" /\ response'[r] = "429"
    BY <1>6 DEF Answer, Goto, TypeOK
  <2> QED
    BY <1>1, <1>2, <1>3, <1>4, <2>1 DEF StageOf, Sent
<1> QED
  BY <1>2, <1>5, <1>6 DEF Admit

\* The stage in which a decision is logged.
LEMMA LogDecisionStage ==
  ASSUME TypeOK, NEW r \in Requests, StageOf(r), JudgedOf(r), LogDecision(r)
  PROVE  StageOf(r)' /\ JudgedOf(r)'
<1>1. /\ Judged(r)' = Judged(r) /\ Calls(r)' = Calls(r) /\ Judged(r) > 0
      /\ Enforced(r)' = Enforced(r)
      /\ \A k : Passing(r, k)' <=> Passing(r, k)
  BY DEF LogDecision, StageOf, Judged, Calls, Passing, Enforced, LastAction
<1>2. JudgedOf(r)'
  BY ExtendsSame, JudgedFrame DEF LogDecision
<1>3. /\ r \notin delivered /\ response[r] = "none"
      /\ pc'[r] = IF Enforced(r) THEN "alert" ELSE "analyze"
  BY Typed DEF LogDecision, Goto, StageOf, Sent, TypeOK
<1>4. ~Enforced(r) => Passing(r, Judged(r))
  BY <1>1, Typed DEF Enforced, LastAction, Passing, StageOf
<1>5. Passing(r, Judged(r) - 1)' /\ (Passing(r, Judged(r))' <=> Passing(r, Judged(r)))
  BY <1>1 DEF StageOf
<1>6. StageOf(r)'
  BY <1>1, <1>3, <1>4, <1>5 DEF LogDecision, StageOf, Sent
<1> QED
  BY <1>2, <1>6

\* The stage in which a decision is alerted.
LEMMA AlertDecisionStage ==
  ASSUME TypeOK, NEW r \in Requests, StageOf(r), JudgedOf(r), AlertDecision(r)
  PROVE  StageOf(r)' /\ JudgedOf(r)'
<1>1. /\ Judged(r)' = Judged(r) /\ Calls(r)' = Calls(r)
      /\ Enforced(r)' = Enforced(r) /\ Passing(r, Judged(r) - 1)'
  BY DEF AlertDecision, StageOf, Judged, Calls, Passing, Enforced, LastAction
<1>2. JudgedOf(r)'
  BY ExtendsSame, JudgedFrame DEF AlertDecision
<1>3. pc'[r] = "refuse" /\ r \in alerted' /\ pc[r] = "alert"
  BY DEF AlertDecision, Goto, TypeOK
<1>4. StageOf(r)'
  BY <1>1, <1>3 DEF AlertDecision, StageOf, Sent
<1> QED
  BY <1>2, <1>4

\* The stage in which a denial is answered.
LEMMA WriteDenyStage ==
  ASSUME TypeOK, NEW r \in Requests, StageOf(r), JudgedOf(r), WriteDenyResponse(r)
  PROVE  StageOf(r)' /\ JudgedOf(r)'
<1>1. /\ Judged(r)' = Judged(r) /\ Calls(r)' = Calls(r)
      /\ Enforced(r)' = Enforced(r) /\ Passing(r, Judged(r) - 1)'
  BY DEF WriteDenyResponse, StageOf, Judged, Calls, Passing, Enforced, LastAction
<1>2. JudgedOf(r)'
  BY ExtendsSame, JudgedFrame DEF WriteDenyResponse
<1>3. pc'[r] = "done" /\ response'[r] = "403" /\ pc[r] = "refuse"
  BY DEF WriteDenyResponse, Answer, Goto, TypeOK
<1>4. StageOf(r)'
  BY <1>1, <1>3 DEF WriteDenyResponse, StageOf, Sent
<1> QED
  BY <1>2, <1>4

\* The stage of the detector.
LEMMA AnalyzeStage ==
  ASSUME TypeOK, NEW r \in Requests, StageOf(r), JudgedOf(r), Analyze(r)
  PROVE  StageOf(r)' /\ JudgedOf(r)'
<1>1. /\ Judged(r)' = Judged(r) /\ Calls(r)' = Calls(r)
      /\ Passing(r, Judged(r) - 1)' /\ Passing(r, Judged(r))'
  BY DEF Analyze, StageOf, Judged, Calls, Passing
<1>2. JudgedOf(r)'
  BY ExtendsSame, JudgedFrame DEF Analyze
<1>3. pc'[r] = NextStage(r) /\ pc[r] = "analyze"
  BY DEF Analyze, Goto, TypeOK
<1>4. /\ r \notin delivered' /\ response'[r] = "none"
      /\ arrived'[r] > 0 /\ request'[r] = request[r]
  BY <1>3 DEF Analyze, StageOf, Sent
<1>5. Judged(r) < Len(Calls(r)) \/ Judged(r) = Len(Calls(r))
  BY Typed DEF StageOf
<1>6. \/ pc'[r] = "evaluate" /\ Judged(r) < Len(Calls(r))
      \/ pc'[r] = "forward" /\ Judged(r) = Len(Calls(r))
  <2>1. CASE Judged(r) < Len(Calls(r))
    <3>1. NextStage(r) = "evaluate"
      BY <2>1 DEF NextStage
    <3> QED
      BY <1>3, <2>1, <3>1
  <2>2. CASE Judged(r) = Len(Calls(r))
    <3>1. ~(Judged(r) < Len(Calls(r)))
      BY <2>2, Typed
    <3>2. NextStage(r) = "forward"
      BY <3>1 DEF NextStage
    <3> QED
      BY <1>3, <2>2, <3>2
  <2> QED
    BY <1>5, <2>1, <2>2
<1>7. StageOf(r)'
  <2>1. request[r].ai \/ Calls(r) = <<>>
    BY DEF StageOf
  <2> QED
    BY <1>1, <1>4, <1>5, <1>6, <2>1, Typed DEF StageOf, Sent
<1> QED
  BY <1>2, <1>7

\* The stage in which the request goes out.
LEMMA ForwardStage ==
  ASSUME TypeOK, NEW r \in Requests, StageOf(r), JudgedOf(r), Forward(r)
  PROVE  StageOf(r)' /\ JudgedOf(r)'
<1>1. /\ Judged(r)' = Judged(r) /\ Calls(r)' = Calls(r)
      /\ Passing(r, Judged(r) - 1)' /\ Passing(r, Judged(r))'
      /\ Enforced(r)' = Enforced(r)
  BY DEF Forward, StageOf, Judged, Calls, Passing, Enforced, LastAction
<1>2. JudgedOf(r)'
  BY ExtendsSame, JudgedFrame DEF Forward
<1>3. /\ pc[r] = "forward" /\ response[r] = "none" /\ r \notin delivered
      /\ Judged(r) = Len(Calls(r)) /\ arrived[r] > 0
      /\ Passing(r, Judged(r))
  BY DEF Forward, StageOf, Sent
<1>4. Judged(r) > 0 => ~Enforced(r)
  BY <1>3, Typed DEF Passing, Enforced, LastAction
<1>5. /\ arrived'[r] > 0 /\ request'[r] = request[r]
  BY <1>3 DEF Forward
<1>6. request[r].ai \/ Calls(r) = <<>>
  BY DEF StageOf
<1>7. CASE delivered' = delivered \cup {r} /\ Goto(r, "await") /\ UNCHANGED response
  <2>1. pc'[r] = "await" /\ r \in delivered' /\ response'[r] = "none"
    BY <1>3, <1>7 DEF Goto, TypeOK
  <2>2. StageOf(r)'
    BY <1>1, <1>3, <1>5, <1>6, <2>1, Typed DEF StageOf, Sent
  <2> QED
    BY <1>2, <2>2
<1>8. CASE Answer(r, "502") /\ UNCHANGED delivered
  <2>1. pc'[r] = "done" /\ r \notin delivered' /\ response'[r] = "502"
    BY <1>3, <1>8 DEF Answer, Goto, TypeOK
  <2>2. StageOf(r)'
    BY <1>1, <1>3, <1>4, <1>5, <1>6, <2>1, Typed DEF StageOf, Sent
  <2> QED
    BY <1>2, <2>2
<1> QED
  BY <1>7, <1>8 DEF Forward

\* Once it has gone out, a request only moves on, with nothing judged any more.
LEMMA SentStage ==
  ASSUME TypeOK, NEW r \in Requests, StageOf(r), JudgedOf(r), pc[r] \in Sent,
         UNCHANGED <<dryRun, request, decisions, alerted, delivered, inForce, arrived>>,
         \/ pc'[r] \in {"logEvent", "record", "respond"} /\ response'[r] = response[r]
         \/ pc'[r] = "done" /\ response'[r] \in {"500", "502", "upstream"}
  PROVE  StageOf(r)' /\ JudgedOf(r)'
<1>1. /\ Judged(r)' = Judged(r) /\ Calls(r)' = Calls(r)
      /\ Passing(r, Judged(r) - 1)' /\ Passing(r, Judged(r))'
      /\ Enforced(r)' = Enforced(r)
  BY DEF StageOf, Judged, Calls, Passing, Enforced, LastAction, Sent
<1>2. JudgedOf(r)'
  BY ExtendsSame, JudgedFrame
<1>3. /\ response[r] = "none" /\ r \in delivered
      /\ Judged(r) = Len(Calls(r)) /\ arrived[r] > 0
      /\ Passing(r, Judged(r))
  BY DEF StageOf, Sent
<1>4. Judged(r) > 0 => ~Enforced(r)
  BY <1>3, Typed DEF Passing, Enforced, LastAction
<1>5. /\ arrived'[r] > 0 /\ request'[r] = request[r]
      /\ r \in delivered'
  BY <1>3
<1>6. request[r].ai \/ Calls(r) = <<>>
  BY DEF StageOf
<1>7. StageOf(r)'
  BY <1>1, <1>3, <1>4, <1>5, <1>6, Typed DEF StageOf, Sent
<1> QED
  BY <1>2, <1>7

\* The stage in which the upstream answers.
LEMMA AwaitStage ==
  ASSUME TypeOK, NEW r \in Requests, StageOf(r), JudgedOf(r), Await(r)
  PROVE  StageOf(r)' /\ JudgedOf(r)'
<1>1. pc[r] \in Sent
  BY DEF Await, Sent
<1>2. \/ pc'[r] = "logEvent" /\ response'[r] = response[r]
      \/ pc'[r] = "done" /\ response'[r] \in {"500", "502"}
  BY DEF Await, Answer, Goto, TypeOK
<1> QED
  BY <1>1, <1>2, SentStage DEF Await

\* The stage in which the event is logged.
LEMMA LogEventStage ==
  ASSUME TypeOK, NEW r \in Requests, StageOf(r), JudgedOf(r), LogEvent(r)
  PROVE  StageOf(r)' /\ JudgedOf(r)'
<1>1. pc[r] \in Sent
  BY DEF LogEvent, Sent
<1>2. pc'[r] = "record" /\ response'[r] = response[r]
  BY DEF LogEvent, Goto, TypeOK
<1> QED
  BY <1>1, <1>2, SentStage DEF LogEvent

\* The stage in which the event is recorded.
LEMMA RecordEventStage ==
  ASSUME TypeOK, NEW r \in Requests, StageOf(r), JudgedOf(r), RecordEvent(r)
  PROVE  StageOf(r)' /\ JudgedOf(r)'
<1>1. pc[r] \in Sent
  BY DEF RecordEvent, Sent
<1>2. pc'[r] = "respond" /\ UNCHANGED response
  BY DEF RecordEvent, Goto, TypeOK, requestVars
<1> QED
  BY <1>1, <1>2, SentStage DEF RecordEvent, requestVars

\* The stage in which the client gets its answer.
LEMMA RespondStage ==
  ASSUME TypeOK, NEW r \in Requests, StageOf(r), JudgedOf(r), Respond(r)
  PROVE  StageOf(r)' /\ JudgedOf(r)'
<1>1. pc[r] \in Sent
  BY DEF Respond, Sent
<1>2. pc'[r] = "done" /\ response'[r] = "upstream"
  BY <1>1 DEF Respond, Answer, Goto, TypeOK
<1> QED
  BY <1>1, <1>2, SentStage DEF Respond

\* Evaluate adds a decision of the query in force, which came into force after
\* the request came in or was already there.
LEMMA EvaluateStage ==
  ASSUME TypeOK, CurrentQuery, NEW r \in Requests, StageOf(r), JudgedOf(r), Evaluate(r)
  PROVE  StageOf(r)' /\ JudgedOf(r)'
<1>1. /\ pc[r] = "evaluate" /\ response[r] = "none" /\ r \notin delivered
      /\ Judged(r) < Len(Calls(r)) /\ arrived[r] > 0
      /\ Passing(r, Judged(r))
  BY DEF Evaluate, StageOf, Sent
<1>2. /\ arrived'[r] = arrived[r] /\ request'[r] = request[r]
      /\ r \notin delivered' /\ Calls(r)' = Calls(r) /\ dryRun' = dryRun
      /\ Since(r)' = Since(r)
  BY <1>1 DEF Evaluate, Calls, Since
<1>3. request[r].ai \/ Calls(r) = <<>>
  BY DEF StageOf
<1>4. CASE Answer(r, "aborted") /\ UNCHANGED decisions
  <2>1. pc'[r] = "done" /\ response'[r] = "aborted"
    BY <1>4 DEF Answer, Goto, TypeOK
  <2>2. /\ Judged(r)' = Judged(r) /\ Enforced(r)' = Enforced(r)
        /\ Passing(r, Judged(r) - 1)' /\ Passing(r, Judged(r))'
    BY <1>1, <1>2, <1>4 DEF StageOf, Judged, Passing, Enforced, LastAction
  <2>3. Judged(r) > 0 => ~Enforced(r)
    BY <1>1, Typed DEF Passing, Enforced, LastAction
  <2>4. JudgedOf(r)'
    BY <1>4, ExtendsSame, JudgedFrame DEF Evaluate
  <2>5. StageOf(r)'
    BY <1>1, <1>2, <1>3, <2>1, <2>2, <2>3, Typed DEF StageOf, Sent
  <2> QED
    BY <2>4, <2>5
<1>5. ASSUME decisions' = [decisions EXCEPT ![r] =
                  Append(@, Decide(prepared, Calls(r)[Judged(r) + 1]))],
             Goto(r, "log"), UNCHANGED response
      PROVE  StageOf(r)' /\ JudgedOf(r)'
  <2> DEFINE d == Decide(prepared, Calls(r)[Judged(r) + 1])
  <2>1. pc'[r] = "log" /\ response'[r] = "none"
    BY <1>1, <1>5 DEF Goto, TypeOK
  <2>2. decisions'[r] = Append(decisions[r], d)
    BY <1>5 DEF TypeOK
  <2>3. d \in Actions
    BY DecideType
  <2> HIDE DEF d
  <2>4. Judged(r)' = Judged(r) + 1
    BY <2>2, <2>3, Typed DEF Judged
  <2>5. \A i \in 1..Judged(r) : decisions'[r][i] = decisions[r][i]
    BY <2>2, <2>3, Typed DEF Judged
  <2>6. decisions'[r][Judged(r) + 1] = d
    BY <2>2, <2>3, Typed DEF Judged
  <2>7. Passing(r, Judged(r) - 1)'
    <3>1. (Judged(r) - 1)' = Judged(r)
      BY <2>4, Typed
    <3> QED
      BY <1>1, <1>2, <2>5, <3>1 DEF Passing
  <2>8. StageOf(r)'
    BY <1>1, <1>2, <1>3, <2>1, <2>4, <2>7, Typed DEF StageOf, Sent
  <2>9. JudgedOf(r)'
    <3>1. SUFFICES ASSUME NEW i \in 1..(Judged(r) + 1)
                   PROVE  \E query \in Since(r) :
                            decisions'[r][i] = Decide(query, Calls(r)[i])
      BY <1>2, <2>4 DEF JudgedOf
    <3>2. CASE i \in 1..Judged(r)
      BY <2>5, <3>2 DEF JudgedOf
    <3>3. CASE i = Judged(r) + 1
      <4>1. Len(inForce) \in arrived[r]..Len(inForce)
        BY <1>1, Typed DEF CurrentQuery
      <4>2. prepared \in Since(r)
        BY <4>1 DEF Since, CurrentQuery
      <4> QED
        BY <2>6, <3>3, <4>2 DEF d
    <3> QED
      BY <3>2, <3>3, Typed
  <2> QED
    BY <2>8, <2>9
<1> QED
  BY <1>4, <1>5 DEF Evaluate

-----------------------------------------------------------------------------
(* The inductive invariant.                                                 *)

\* What another request's step, a reload or the end of a window leaves of r.
Untouched(r) ==
  /\ pc'[r] = pc[r] /\ request'[r] = request[r] /\ decisions'[r] = decisions[r]
  /\ logged'[r] = logged[r] /\ response'[r] = response[r]
  /\ arrived'[r] = arrived[r] /\ dryRun' = dryRun
  /\ (r \in alerted') <=> (r \in alerted)
  /\ (r \in delivered') <=> (r \in delivered)
  /\ (r \in events') <=> (r \in events)

\* A step of one request leaves the others as they were.
LEMMA OthersUntouched ==
  ASSUME TypeOK, NEW q \in Requests, NEW r \in Requests, r # q,
         Arrive(q) \/ Step(q)
  PROVE  Untouched(r)
<1>1. CASE Arrive(q)
  BY <1>1 DEF Arrive, Goto, Untouched, TypeOK
<1>2. CASE ReadBody(q)
  BY <1>2 DEF ReadBody, Answer, Goto, Untouched, TypeOK
<1>3. CASE Admit(q)
  BY <1>3 DEF Admit, Answer, Goto, Untouched, TypeOK
<1>4. CASE Evaluate(q)
  BY <1>4 DEF Evaluate, Answer, Goto, Untouched, TypeOK
<1>5. CASE LogDecision(q)
  BY <1>5 DEF LogDecision, Goto, Untouched, TypeOK
<1>6. CASE AlertDecision(q)
  BY <1>6 DEF AlertDecision, Goto, Untouched, TypeOK
<1>7. CASE WriteDenyResponse(q)
  BY <1>7 DEF WriteDenyResponse, Answer, Goto, Untouched, TypeOK
<1>8. CASE Analyze(q)
  BY <1>8 DEF Analyze, Goto, Untouched, TypeOK
<1>9. CASE Forward(q)
  BY <1>9 DEF Forward, Answer, Goto, Untouched, TypeOK
<1>10. CASE Await(q)
  BY <1>10 DEF Await, Answer, Goto, Untouched, TypeOK
<1>11. CASE LogEvent(q)
  BY <1>11 DEF LogEvent, Goto, Untouched, TypeOK
<1>12. CASE RecordEvent(q)
  BY <1>12 DEF RecordEvent, requestVars, Goto, Untouched, TypeOK
<1>13. CASE Respond(q)
  BY <1>13 DEF Respond, Answer, Goto, Untouched, TypeOK
<1> QED
  BY <1>1, <1>2, <1>3, <1>4, <1>5, <1>6, <1>7, <1>8, <1>9, <1>10, <1>11, <1>12,
     <1>13 DEF Step

\* No handler changes the query, so the queries in force stay what they are.
LEMMA HandlersKeepTheQuery ==
  ASSUME NEW q \in Requests, Arrive(q) \/ Step(q)
  PROVE  UNCHANGED <<modules, prepared, inForce, dryRun>>
BY DEF Step, Arrive, ReadBody, Admit, Evaluate, LogDecision, AlertDecision,
       WriteDenyResponse, Analyze, Forward, Await, LogEvent, RecordEvent, Respond,
       engineVars

\* The query in force stays the prepared one, and the list of them only grows.
LEMMA QueryStep ==
  ASSUME TypeOK, TypeOK', CurrentQuery, [Next]_vars
  PROVE  CurrentQuery' /\ Extends
<1>0. inForce \in Seq(Mods) /\ prepared \in Mods /\ prepared' \in Mods
  BY DEF TypeOK, EngineTypeOK, Mods
<1>1. CASE UNCHANGED <<prepared, inForce>>
  BY <1>1, ExtendsSame DEF CurrentQuery
<1>2. CASE Reload
  <2>1. CASE prepared' = prepared
    BY <1>2, <2>1, ExtendsSame DEF Reload, CurrentQuery
  <2>2. CASE inForce' = Append(inForce, prepared')
    BY <1>0, <2>2 DEF CurrentQuery, Extends
  <2> QED
    BY <1>2, <2>1, <2>2 DEF Reload
<1>3. ASSUME NEW q \in Requests, Arrive(q) \/ Step(q)
      PROVE  UNCHANGED <<prepared, inForce>>
  BY <1>3, HandlersKeepTheQuery
<1>4. ASSUME NEW h \in Hosts, WindowOver(h) PROVE UNCHANGED <<prepared, inForce>>
  BY <1>4 DEF WindowOver, engineVars
<1>5. UNCHANGED vars => UNCHANGED <<prepared, inForce>>
  BY DEF vars, engineVars
<1> QED
  BY <1>1, <1>2, <1>3, <1>4, <1>5 DEF Next

\* Every step keeps what is said of each request.
LEMMA StageStep ==
  ASSUME TypeOK, TypeOK', CurrentQuery, [Next]_vars,
         \A r \in Requests : StageOf(r) /\ JudgedOf(r)
  PROVE  \A r \in Requests : StageOf(r)' /\ JudgedOf(r)'
<1> TAKE r \in Requests
<1>1. Extends
  BY QueryStep
<1>2. CASE Untouched(r)
  BY <1>1, <1>2, Frame DEF Untouched
<1>3. CASE Arrive(r) \/ Step(r)
  BY <1>3, ArriveStage, ReadBodyStage, AdmitStage, EvaluateStage, LogDecisionStage,
     AlertDecisionStage, WriteDenyStage, AnalyzeStage, ForwardStage, AwaitStage,
     LogEventStage, RecordEventStage, RespondStage DEF Step
<1>4. ASSUME NEW q \in Requests, Arrive(q) \/ Step(q), q # r PROVE Untouched(r)
  BY <1>4, OthersUntouched
<1>5. Reload => Untouched(r)
  BY DEF Reload, Untouched, requestVars
<1>6. ASSUME NEW h \in Hosts, WindowOver(h) PROVE Untouched(r)
  BY <1>6 DEF WindowOver, Untouched, requestVars
<1>7. UNCHANGED vars => Untouched(r)
  BY DEF vars, Untouched, requestVars
<1> QED
  BY <1>2, <1>3, <1>4, <1>5, <1>6, <1>7 DEF Next

-----------------------------------------------------------------------------
(* What is in the log.                                                      *)

\* A request that no step touches keeps its entries.
LEMMA LogFrame ==
  ASSUME NEW r \in Requests, LogOf(r), Untouched(r), ~broken
  PROVE  LogOf(r)'
<1>1. Judged(r)' = Judged(r)
  BY DEF Untouched, Judged
<1> QED BY <1>1 DEF LogOf, Untouched

\* A step that is no write leaves behind what the stage before it had, if it goes where
\* the same is asked for.
LEMMA LogKept ==
  ASSUME NEW r \in Requests, LogOf(r), ~broken, logged'[r] = logged[r],
         decisions'[r] = decisions[r], r \in events => r \in events',
         logged[r] = Judged(r), pc'[r] # "log",
         Judged(r) = 0 \/ pc'[r] \notin {"new", "body", "admit"},
         pc'[r] \in {"record", "respond"} \/ response'[r] = "upstream" => r \in events'
  PROVE  LogOf(r)'
<1>1. Judged(r)' = Judged(r)
  BY DEF Judged
<1> QED BY <1>1 DEF LogOf

\* Each step of the handler leaves the log as the next stage expects it, if it leaves one.
LEMMA LogMoves ==
  ASSUME TypeOK, NEW r \in Requests, StageOf(r), LogOf(r), ~broken, ~broken',
         Arrive(r) \/ Step(r)
  PROVE  LogOf(r)'
<1>1. response[r] = "none" /\ Judged(r) \in Nat
  <2>1. pc[r] # "done"
    BY DEF Step, Arrive, ReadBody, Admit, Evaluate, LogDecision, AlertDecision,
       WriteDenyResponse, Analyze, Forward, Await, LogEvent, RecordEvent, Respond
  <2> QED BY <2>1, Typed DEF StageOf
<1>2. CASE Arrive(r)
  <2>1. pc[r] = "new" /\ pc'[r] = "body" /\ logged[r] = 0 /\ Judged(r) = 0
    BY <1>2 DEF Arrive, Goto, StageOf, LogOf, TypeOK
  <2> QED BY <1>1, <1>2, <2>1, LogKept DEF Arrive
<1>3. CASE ReadBody(r)
  <2>1. logged[r] = 0 /\ Judged(r) = 0
    BY <1>3 DEF ReadBody, StageOf, LogOf
  <2>2. /\ pc'[r] \in {"admit", "forward", "done"} /\ response'[r] \in {"none", "400"}
        /\ UNCHANGED <<logged, decisions, events>>
    BY <1>1, <1>3 DEF ReadBody, Answer, Goto, TypeOK
  <2> QED BY <2>1, <2>2, LogKept
<1>4. CASE Admit(r)
  <2>1. logged[r] = 0 /\ Judged(r) = 0
    BY <1>4 DEF Admit, StageOf, LogOf
  <2>2. /\ pc'[r] \in {"evaluate", "forward", "done"} /\ response'[r] \in {"none", "429"}
        /\ UNCHANGED <<logged, decisions, events>>
    BY <1>1, <1>4, NextStageType DEF Admit, Answer, Goto, TypeOK
  <2> QED BY <2>1, <2>2, LogKept
<1>5. CASE Evaluate(r)
  <2>1. pc[r] = "evaluate" /\ logged[r] = Judged(r) /\ logged' = logged /\ r \notin delivered
    BY <1>5 DEF Evaluate, StageOf, LogOf, Sent
  <2>2. CASE Answer(r, "aborted") /\ UNCHANGED decisions
    <3>1. pc'[r] = "done" /\ response'[r] = "aborted"
      BY <2>2 DEF Answer, Goto, TypeOK
    <3> QED BY <1>5, <2>1, <2>2, <3>1, LogKept DEF Evaluate
  <2>3. CASE /\ decisions' = [decisions EXCEPT ![r] =
                               Append(@, Decide(prepared, Calls(r)[Judged(r) + 1]))]
             /\ Goto(r, "log") /\ UNCHANGED response
    <3>1. pc'[r] = "log" /\ response'[r] = "none" /\ delivered' = delivered
      BY <1>1, <1>5, <2>3 DEF Evaluate, Goto, TypeOK
    <3>2. decisions'[r] = Append(decisions[r], Decide(prepared, Calls(r)[Judged(r) + 1]))
      BY <2>3 DEF TypeOK
    <3>3. Judged(r)' = Judged(r) + 1
      BY <3>2, Typed, DecideType DEF Judged
    <3> QED BY <1>1, <2>1, <3>1, <3>3 DEF LogOf
  <2> QED BY <1>5, <2>2, <2>3 DEF Evaluate
<1>6. CASE LogDecision(r)
  <2>1. logged[r] = Judged(r) - 1 /\ r \notin delivered
    BY <1>6 DEF LogDecision, StageOf, LogOf, Sent
  <2>2. /\ logged'[r] = logged[r] + 1 /\ pc'[r] \in {"alert", "analyze"}
        /\ UNCHANGED <<response, decisions, delivered>>
    BY <1>6 DEF LogDecision, Goto, TypeOK
  <2>3. Judged(r)' = Judged(r)
    BY <2>2 DEF Judged
  <2> QED BY <1>1, <2>1, <2>2, <2>3 DEF LogOf
<1>7. CASE AlertDecision(r)
  <2>1. logged[r] = Judged(r)
    BY <1>7 DEF AlertDecision, LogOf
  <2>2. pc'[r] = "refuse" /\ UNCHANGED <<response, logged, decisions, events>>
    BY <1>7 DEF AlertDecision, Goto, TypeOK
  <2> QED BY <1>1, <2>1, <2>2, LogKept
<1>8. CASE WriteDenyResponse(r)
  <2>1. logged[r] = Judged(r)
    BY <1>8 DEF WriteDenyResponse, LogOf
  <2>2. /\ pc'[r] = "done" /\ response'[r] = "403"
        /\ UNCHANGED <<logged, decisions, events>>
    BY <1>8 DEF WriteDenyResponse, Answer, Goto, TypeOK
  <2> QED BY <2>1, <2>2, LogKept
<1>9. CASE Analyze(r)
  <2>1. logged[r] = Judged(r)
    BY <1>9 DEF Analyze, LogOf
  <2>2. /\ pc'[r] \in {"evaluate", "forward"}
        /\ UNCHANGED <<response, logged, decisions, events>>
    BY <1>9, NextStageType DEF Analyze, Goto, TypeOK
  <2> QED BY <1>1, <2>1, <2>2, LogKept
<1>10. CASE Forward(r)
  <2>1. logged[r] = Judged(r)
    BY <1>10 DEF Forward, LogOf
  <2>2. /\ pc'[r] \in {"await", "done"} /\ response'[r] \in {"none", "502"}
        /\ UNCHANGED <<logged, decisions, events>>
    BY <1>1, <1>10 DEF Forward, Answer, Goto, TypeOK
  <2> QED BY <2>1, <2>2, LogKept
<1>11. CASE Await(r) \/ LogEvent(r) \/ RecordEvent(r) \/ Respond(r)
  <2>1. logged[r] = Judged(r)
    BY <1>11 DEF Await, LogEvent, RecordEvent, Respond, StageOf, LogOf, Sent
  <2>2. CASE Await(r)
    <3>1. /\ pc'[r] \in {"logEvent", "done"} /\ response'[r] \in {"none", "500", "502"}
          /\ UNCHANGED <<logged, decisions, events>>
      BY <1>1, <2>2 DEF Await, Answer, Goto, TypeOK
    <3> QED BY <2>1, <3>1, LogKept
  <2>3. CASE LogEvent(r)
    <3>1. /\ pc'[r] = "record" /\ r \in events'
          /\ UNCHANGED <<response, logged, decisions>>
      BY <2>3 DEF LogEvent, Goto, TypeOK
    <3> QED BY <2>1, <3>1, LogKept
  <2>4. CASE RecordEvent(r)
    <3>1. /\ pc[r] = "record" /\ pc'[r] = "respond"
          /\ UNCHANGED <<response, logged, decisions, events>>
      BY <2>4 DEF RecordEvent, requestVars, Goto, TypeOK
    <3>2. r \in events
      BY <3>1 DEF LogOf
    <3> QED BY <2>1, <3>1, <3>2, LogKept
  <2>5. CASE Respond(r)
    <3>1. /\ pc[r] = "respond" /\ pc'[r] = "done"
          /\ UNCHANGED <<logged, decisions, events>>
      BY <2>5 DEF Respond, Answer, Goto, TypeOK
    <3>2. r \in events
      BY <3>1 DEF LogOf
    <3> QED BY <2>1, <3>1, <3>2, LogKept
  <2> QED BY <1>11, <2>2, <2>3, <2>4, <2>5
<1> QED
  BY <1>2, <1>3, <1>4, <1>5, <1>6, <1>7, <1>8, <1>9, <1>10, <1>11 DEF Step

\* Every step keeps what is in the log.
LEMMA LogStep ==
  ASSUME TypeOK, \A q \in Requests : StageOf(q) /\ LogOf(q), [Next]_vars, NEW r \in Requests
  PROVE  LogOf(r)'
<1>1. CASE broken'
  BY <1>1 DEF LogOf
<1>2. CASE ~broken'
  <2>1. ~broken
    BY <1>2, BrokenType
  <2>2. CASE Untouched(r)
    BY <2>1, <2>2, LogFrame
  <2>3. CASE Arrive(r) \/ Step(r)
    BY <1>2, <2>1, <2>3, LogMoves
  <2>4. ASSUME NEW q \in Requests, Arrive(q) \/ Step(q), q # r PROVE Untouched(r)
    BY <2>4, OthersUntouched
  <2>5. Reload => Untouched(r)
    BY DEF Reload, Untouched, requestVars
  <2>6. ASSUME NEW h \in Hosts, WindowOver(h) PROVE Untouched(r)
    BY <2>6 DEF WindowOver, Untouched, requestVars
  <2>7. UNCHANGED vars => Untouched(r)
    BY DEF vars, Untouched, requestVars
  <2> QED BY <2>2, <2>3, <2>4, <2>5, <2>6, <2>7 DEF Next
<1> QED BY <1>1, <1>2

\* A judged call and its decision are never taken back.
LEMMA DecisionsStay ==
  ASSUME TypeOK, TypeOK', NEW r \in Requests, StageOf(r),
         Untouched(r) \/ Arrive(r) \/ Step(r),
         NEW i \in 1..Judged(r)
  PROVE  /\ i \in 1..Judged(r)' /\ Calls(r)'[i] = Calls(r)[i]
         /\ decisions'[r][i] = decisions[r][i]
<1>1. ~Arrive(r)
  BY Typed DEF Arrive, StageOf
<1>2. CASE decisions'[r] = decisions[r] /\ request'[r] = request[r]
  BY <1>2 DEF Judged, Calls
<1>3. CASE Evaluate(r) /\ decisions' # decisions
  <2>1. decisions'[r] = Append(decisions[r], Decide(prepared, Calls(r)[Judged(r) + 1]))
    BY <1>3 DEF Evaluate, TypeOK
  <2>2. Judged(r)' = Judged(r) + 1 /\ decisions'[r][i] = decisions[r][i]
    BY <2>1, Typed, DecideType DEF Judged
  <2>3. Calls(r)' = Calls(r)
    BY <1>3 DEF Evaluate, Calls
  <2> QED
    BY <2>2, <2>3, Typed
<1>4. Evaluate(r) => request' = request
  BY DEF Evaluate
<1>5. ASSUME Step(r), ~Evaluate(r)
      PROVE  decisions' = decisions /\ request' = request
  BY <1>5 DEF Step, ReadBody, Admit, LogDecision, AlertDecision, WriteDenyResponse,
     Analyze, Forward, Await, LogEvent, RecordEvent, Respond, requestVars
<1> QED
  BY <1>1, <1>2, <1>3, <1>4, <1>5 DEF Untouched

\* Only Analyze adds a tool, of a call that has just been let through.
LEMMA LearnsStep ==
  ASSUME TypeOK, TypeOK', [Next]_vars, \A r \in Requests : StageOf(r),
         LearnsOnlyCleared
  PROVE  LearnsOnlyCleared'
<1> SUFFICES ASSUME ~dryRun', NEW t \in known'
             PROVE  \E r \in Requests : \E i \in 1..Judged(r)' :
                      Calls(r)'[i] = t /\ decisions'[r][i] # "deny"
  BY DEF LearnsOnlyCleared
<1>0. ~dryRun
  BY HandlersKeepTheQuery DEF Next, Reload, WindowOver, vars
<1>1. ASSUME NEW r \in Requests PROVE Untouched(r) \/ Arrive(r) \/ Step(r)
  <2>1. ASSUME NEW q \in Requests, Arrive(q) \/ Step(q), q # r PROVE Untouched(r)
    BY <2>1, OthersUntouched
  <2>2. Reload => Untouched(r)
    BY DEF Reload, Untouched, requestVars
  <2>3. ASSUME NEW h \in Hosts, WindowOver(h) PROVE Untouched(r)
    BY <2>3 DEF WindowOver, Untouched, requestVars
  <2>4. UNCHANGED vars => Untouched(r)
    BY DEF vars, Untouched, requestVars
  <2> QED
    BY <2>1, <2>2, <2>3, <2>4 DEF Next
<1>2. \E r \in Requests : \E i \in 1..Judged(r) :
        Calls(r)[i] = t /\ decisions[r][i] # "deny"
  <2>1. CASE t \in known
    BY <1>0, <2>1 DEF LearnsOnlyCleared
  <2>2. CASE t \notin known
    <3>1. PICK q \in Requests : Analyze(q)
      BY <2>2 DEF Next, Step, Arrive, ReadBody, Admit, Evaluate, LogDecision,
         AlertDecision, WriteDenyResponse, Forward, Await, LogEvent, RecordEvent,
         Respond, Reload, WindowOver, vars
    <3>2. t = Calls(q)[Judged(q)] /\ pc[q] = "analyze"
      BY <2>2, <3>1 DEF Analyze
    <3>3. Judged(q) \in 1..Judged(q) /\ Passing(q, Judged(q))
      BY <3>2, Typed DEF StageOf
    <3> QED
      BY <1>0, <3>2, <3>3 DEF Passing
  <2> QED
    BY <2>1, <2>2
<1>3. PICK r \in Requests : \E i \in 1..Judged(r) :
        Calls(r)[i] = t /\ decisions[r][i] # "deny"
  BY <1>2
<1> QED
  BY <1>1, <1>3, DecisionsStay

\* The invariant holds at first.
LEMMA IInvInit == Init => IInv
<1> SUFFICES ASSUME Init PROVE IInv
  OBVIOUS
<1>1. TypeOK
  BY TypeInit
<1>2. CurrentQuery
  BY DEF Init, EngineInit, CurrentQuery
<1>3. ASSUME NEW r \in Requests PROVE StageOf(r) /\ JudgedOf(r) /\ LogOf(r)
  <2>1. Judged(r) = 0 /\ Calls(r) = <<>> /\ request[r] = NoRequest
    BY DEF Init, Judged, Calls, NoRequest
  <2>2. Passing(r, Judged(r) - 1)
    BY <2>1 DEF Passing
  <2>3. Len(Calls(r)) = 0
    BY <2>1
  <2> QED
    BY <2>1, <2>2, <2>3 DEF Init, StageOf, JudgedOf, LogOf, Sent
<1>4. LearnsOnlyCleared
  BY DEF Init, LearnsOnlyCleared
<1> QED
  BY <1>1, <1>2, <1>3, <1>4 DEF IInv

\* Every step keeps the invariant.
LEMMA IInvStep == IInv /\ [Next]_vars => IInv'
<1> SUFFICES ASSUME IInv, [Next]_vars PROVE IInv'
  OBVIOUS
<1>1. TypeOK'
  BY TypeStep DEF IInv
<1>2. CurrentQuery'
  BY <1>1, QueryStep DEF IInv
<1>3. \A r \in Requests : StageOf(r)' /\ JudgedOf(r)' /\ LogOf(r)'
  BY <1>1, StageStep, LogStep DEF IInv
<1>4. LearnsOnlyCleared'
  BY <1>1, LearnsStep DEF IInv
<1> QED
  BY <1>1, <1>2, <1>3, <1>4 DEF IInv

\* The inductive invariant holds in every reachable state of the pipeline
\* (intercept.go:27-122).
THEOREM Inductive == Spec => []IInv
BY IInvInit, IInvStep, PTL DEF Spec

-----------------------------------------------------------------------------
(* What follows from it.                                                    *)

\* Every variable of the pipeline keeps its type, whatever the requests do.
THEOREM TypeCorrect == Spec => []TypeOK
<1>1. IInv => TypeOK
  BY DEF IInv
<1> QED
  BY <1>1, Inductive, PTL

\* Outside a dry run, every call of a request that has gone out was let through
\* by a policy in force since the request came in (intercept.go:64-91).
THEOREM NothingDeniedIsDelivered == Spec => []ClearedByPolicy
<1>1. IInv => ClearedByPolicy
  <2> SUFFICES ASSUME IInv, ~dryRun, NEW r \in delivered, NEW i \in 1..Len(Calls(r))
               PROVE  \E query \in Since(r) : Decide(query, Calls(r)[i]) # "deny"
    BY DEF ClearedByPolicy
  <2>1. r \in Requests
    BY DEF IInv, TypeOK
  <2>2. Judged(r) = Len(Calls(r)) /\ Passing(r, Judged(r)) /\ JudgedOf(r)
    BY <2>1 DEF IInv, StageOf
  <2> QED
    BY <2>2 DEF Passing, JudgedOf
<1> QED
  BY <1>1, Inductive, PTL

\* A 403 is backed by a policy in force during the request that denies one of
\* its calls; it is never given in a dry run, nor to a request that has gone out
\* (intercept.go:72-76).
THEOREM RefusalsAreJustified == Spec => []RefusedByPolicy
<1>1. IInv => RefusedByPolicy
  <2> SUFFICES ASSUME IInv, NEW r \in Requests, response[r] = "403"
               PROVE  /\ ~dryRun /\ r \notin delivered
                      /\ \E i \in 1..Len(Calls(r)) : \E query \in Since(r) :
                           Decide(query, Calls(r)[i]) = "deny"
    BY DEF RefusedByPolicy
  <2>1. /\ Judged(r) > 0 /\ Enforced(r) /\ r \notin delivered
        /\ Judged(r) <= Len(Calls(r)) /\ JudgedOf(r)
    BY DEF IInv, StageOf
  <2>2. Judged(r) \in 1..Judged(r) /\ Judged(r) \in 1..Len(Calls(r))
    BY <2>1, Typed DEF IInv
  <2> QED
    BY <2>1, <2>2 DEF Enforced, LastAction, JudgedOf
<1> QED
  BY <1>1, Inductive, PTL

\* As long as it can be written, the audit log holds a call, a denial or an event before
\* the upstream or the client learns of it, and the sinks are told of a denial before the
\* client is, whatever has become of the log (intercept.go:68-76, 91, 113-121).
THEOREM RecordComesFirst == Spec => []RecordedBeforeOutcome
<1>1. IInv => RecordedBeforeOutcome
  <2> SUFFICES ASSUME IInv, NEW r \in Requests
               PROVE  /\ r \in delivered => logged[r] = Len(Calls(r)) \/ broken
                      /\ response[r] = "403" =>
                           r \in alerted /\ (logged[r] = Judged(r) \/ broken)
                      /\ response[r] = "upstream" => r \in events \/ broken
    BY DEF RecordedBeforeOutcome
  <2>1. StageOf(r) /\ LogOf(r)
    BY DEF IInv
  <2> QED
    BY <2>1 DEF StageOf, LogOf
<1> QED
  BY <1>1, Inductive, PTL

\* An enforced denial teaches the detector nothing (intercept.go:72-82).
THEOREM LearningIsSafe == Spec => []LearnsOnlyCleared
<1>1. IInv => LearnsOnlyCleared
  BY DEF IInv
<1> QED
  BY <1>1, Inductive, PTL

-----------------------------------------------------------------------------
(* The pipeline implements the gate.                                        *)

\* cleared[r] of the gate, as Interceptor maps it.
Cleared(r) == IF Blocked(r) THEN Judged(r) - 1 ELSE Judged(r)

\* The gate sees nothing of a request that a step leaves untouched.
LEMMA SameView ==
  ASSUME NEW r \in Requests, Untouched(r)
  PROVE  Calls(r)' = Calls(r) /\ Cleared(r)' = Cleared(r) /\ Outcome(r)' = Outcome(r)
BY DEF Untouched, Calls, Cleared, Outcome, Blocked, Judged, Enforced, LastAction

\* A request whose decisions all let it through is not blocked.
LEMMA PassingIsNotBlocked ==
  ASSUME TypeOK, NEW r \in Requests, Passing(r, Judged(r))
  PROVE  ~Blocked(r) /\ Cleared(r) = Judged(r)
<1>1. ~Blocked(r)
  BY Typed DEF Passing, Blocked, Enforced, LastAction
<1> QED
  BY <1>1 DEF Cleared

\* What the gate sees of the step of a request that is being handled.
GateStep(r) ==
  \/ Outcome(r)' = Outcome(r) /\ Cleared(r)' = Cleared(r)
  \/ /\ Outcome(r) = "open" /\ Outcome(r)' = "open"
     /\ Cleared(r) < Len(Calls(r)) /\ Cleared(r)' = Cleared(r) + 1
     /\ ~dryRun => Decide(prepared, Calls(r)[Cleared(r) + 1]) # "deny"
  \/ /\ Outcome(r) = "open" /\ Outcome(r)' = "blocked"
     /\ Cleared(r) < Len(Calls(r)) /\ Cleared(r)' = Cleared(r)
     /\ ~dryRun /\ Decide(prepared, Calls(r)[Cleared(r) + 1]) = "deny"
  \/ /\ Outcome(r) = "open" /\ Outcome(r)' = "passed"
     /\ ~(Cleared(r) < Len(Calls(r))) /\ Cleared(r)' = Cleared(r)
  \/ /\ Outcome(r) = "open" /\ Outcome(r)' = "dropped"
     /\ Cleared(r)' = Cleared(r)

\* A verdict is a step of the abstract gate.
LEMMA EvaluateAtTheGate ==
  ASSUME TypeOK, NEW r \in Requests, StageOf(r), Evaluate(r)
  PROVE  GateStep(r)
<1>1. /\ pc[r] = "evaluate" /\ r \notin delivered /\ r \notin delivered'
      /\ Judged(r) < Len(Calls(r)) /\ Passing(r, Judged(r)) /\ dryRun' = dryRun
  BY DEF Evaluate, StageOf, Sent
<1>2. ~Blocked(r) /\ Cleared(r) = Judged(r) /\ Outcome(r) = "open"
  BY <1>1, PassingIsNotBlocked DEF Outcome
<1>3. CASE Answer(r, "aborted") /\ UNCHANGED decisions
  <2>1. pc'[r] = "done"
    BY <1>3 DEF Answer, Goto, TypeOK
  <2>2. ~Blocked(r)' /\ Cleared(r)' = Cleared(r)
    BY <1>1, <1>2, <1>3 DEF Blocked, Cleared, Judged, Enforced, LastAction
  <2> QED
    BY <1>1, <1>2, <2>1, <2>2 DEF GateStep, Outcome
<1>4. ASSUME decisions' = [decisions EXCEPT ![r] =
                  Append(@, Decide(prepared, Calls(r)[Judged(r) + 1]))],
             Goto(r, "log")
      PROVE  GateStep(r)
  <2> DEFINE d == Decide(prepared, Calls(r)[Judged(r) + 1])
  <2>1. pc'[r] = "log"
    BY <1>4 DEF Goto, TypeOK
  <2>2. decisions'[r] = Append(decisions[r], d)
    BY <1>4 DEF TypeOK
  <2>3. d \in Actions
    BY DecideType
  <2>4. d = Decide(prepared, Calls(r)[Cleared(r) + 1])
    BY <1>2
  <2> HIDE DEF d
  <2>5. Judged(r)' = Judged(r) + 1 /\ LastAction(r)' = d
    BY <2>2, <2>3, Typed DEF Judged, LastAction
  <2>6. Blocked(r)' <=> d = "deny" /\ ~dryRun
    BY <1>1, <2>5, Typed DEF Blocked, Enforced
  <2>7. CASE d = "deny" /\ ~dryRun
    <3>1. Cleared(r)' = Cleared(r) /\ Outcome(r)' = "blocked"
      BY <1>1, <1>2, <2>1, <2>5, <2>6, <2>7, Typed DEF Cleared, Outcome
    <3> QED
      BY <1>1, <1>2, <2>4, <2>7, <3>1 DEF GateStep
  <2>8. CASE ~(d = "deny" /\ ~dryRun)
    <3>1. Cleared(r)' = Cleared(r) + 1 /\ Outcome(r)' = "open"
      BY <1>1, <1>2, <2>1, <2>5, <2>6, <2>8 DEF Cleared, Outcome
    <3> QED
      BY <1>1, <1>2, <2>4, <2>8, <3>1 DEF GateStep
  <2> QED
    BY <2>7, <2>8
<1> QED
  BY <1>3, <1>4 DEF Evaluate

\* Every step of a request's handler is one of the gate, or changes nothing there.
LEMMA StepAtTheGate ==
  ASSUME TypeOK, NEW r \in Requests, StageOf(r), Step(r)
  PROVE  GateStep(r) /\ Calls(r)' = Calls(r)
<1>1. CASE Evaluate(r)
  BY <1>1, EvaluateAtTheGate DEF Evaluate, Calls
<1>2. ASSUME decisions' = decisions, request' = request, dryRun' = dryRun
      PROVE  /\ Calls(r)' = Calls(r) /\ Cleared(r)' = Cleared(r)
             /\ Blocked(r)' = Blocked(r)
  BY <1>2 DEF Calls, Cleared, Blocked, Judged, Enforced, LastAction
<1>3. ASSUME Judged(r) = 0 PROVE ~Blocked(r)
  BY <1>3 DEF Blocked
<1>4. CASE ReadBody(r)
  <2>1. pc[r] = "body" /\ pc'[r] \in {"admit", "forward", "done"} /\ ~Blocked(r)
    BY <1>3, <1>4 DEF ReadBody, StageOf, Answer, Goto, TypeOK
  <2>2. r \notin delivered /\ delivered' = delivered
    BY <1>4 DEF ReadBody, StageOf, Sent
  <2> QED
    BY <1>2, <1>4, <2>1, <2>2 DEF ReadBody, GateStep, Outcome
<1>5. CASE Admit(r)
  <2>1. pc[r] = "admit" /\ pc'[r] \in {"evaluate", "forward", "done"} /\ ~Blocked(r)
    BY <1>3, <1>5, NextStageType DEF Admit, StageOf, Answer, Goto, TypeOK
  <2>2. r \notin delivered /\ delivered' = delivered
    BY <1>5 DEF Admit, StageOf, Sent
  <2> QED
    BY <1>2, <1>5, <2>1, <2>2 DEF Admit, GateStep, Outcome
<1>6. CASE LogDecision(r)
  <2>1. pc[r] = "log" /\ pc'[r] \in {"alert", "analyze"} /\ r \notin delivered
    BY <1>6 DEF LogDecision, StageOf, Sent, Goto, TypeOK
  <2> QED
    BY <1>2, <1>6, <2>1 DEF LogDecision, GateStep, Outcome
<1>7. CASE AlertDecision(r)
  <2>1. pc[r] = "alert" /\ pc'[r] = "refuse" /\ r \notin delivered
    BY <1>7 DEF AlertDecision, StageOf, Sent, Goto, TypeOK
  <2> QED
    BY <1>2, <1>7, <2>1 DEF AlertDecision, GateStep, Outcome
<1>8. CASE WriteDenyResponse(r)
  <2>1. pc[r] = "refuse" /\ pc'[r] = "done" /\ r \notin delivered /\ Blocked(r)
    BY <1>8 DEF WriteDenyResponse, StageOf, Sent, Answer, Goto, Blocked, TypeOK
  <2> QED
    BY <1>2, <1>8, <2>1 DEF WriteDenyResponse, GateStep, Outcome
<1>9. CASE Analyze(r)
  <2>1. pc[r] = "analyze" /\ pc'[r] \in {"evaluate", "forward"} /\ r \notin delivered
    BY <1>9, NextStageType DEF Analyze, StageOf, Sent, Goto, TypeOK
  <2> QED
    BY <1>2, <1>9, <2>1 DEF Analyze, GateStep, Outcome
<1>10. CASE Forward(r)
  <2>1. /\ pc[r] = "forward" /\ r \notin delivered /\ Judged(r) = Len(Calls(r))
        /\ ~Blocked(r) /\ Cleared(r) = Judged(r)
    BY <1>10, PassingIsNotBlocked DEF Forward, StageOf, Sent
  <2>2. ~(Cleared(r) < Len(Calls(r)))
    BY <2>1, Typed
  <2>3. \/ pc'[r] = "await" /\ r \in delivered'
        \/ pc'[r] = "done" /\ r \notin delivered'
    BY <1>10, <2>1 DEF Forward, Answer, Goto, TypeOK
  <2> QED
    BY <1>2, <1>10, <2>1, <2>2, <2>3 DEF Forward, GateStep, Outcome
<1>11. CASE Await(r) \/ LogEvent(r) \/ RecordEvent(r) \/ Respond(r)
  <2>1. pc[r] \in Sent /\ r \in delivered /\ pc'[r] # "new"
    BY <1>11 DEF Await, LogEvent, RecordEvent, Respond, StageOf, Sent, Answer, Goto,
       TypeOK
  <2>2. UNCHANGED <<decisions, request, dryRun, delivered>>
    BY <1>11 DEF Await, LogEvent, RecordEvent, Respond, requestVars
  <2> QED
    BY <1>2, <2>1, <2>2 DEF GateStep, Outcome, Sent
<1> QED
  BY <1>1, <1>4, <1>5, <1>6, <1>7, <1>8, <1>9, <1>10, <1>11 DEF Step

\* Every behaviour of the pipeline is one of the gate: each call is judged by the
\* policy in force at one moment between the request's arrival and its outcome,
\* and nothing passes before all its calls are cleared (intercept.go:27-122).
THEOREM RefinesGate == Spec => ImplementsGate
<1> DEFINE P == {t \in Tools : Decide(prepared, t) # "deny"}
           K == [r \in Requests |-> Calls(r)]
           L == [r \in Requests |-> IF Blocked(r) THEN Judged(r) - 1 ELSE Judged(r)]
           O == [r \in Requests |-> Outcome(r)]
<1>0. \A r \in Requests : L[r] = Cleared(r)
  BY DEF Cleared
<1>1. Init => G!GateInit
  <2> SUFFICES ASSUME Init PROVE G!GateInit
    OBVIOUS
  <2>1. P = {}
    BY DEF Init, EngineInit, NoModules, NoModule, Decide, Denied, Logged, Allowed
  <2>2. \A r \in Requests : Calls(r) = <<>> /\ Judged(r) = 0 /\ pc[r] = "new"
    BY DEF Init, Calls, Judged, NoRequest
  <2>3. \A r \in Requests : L[r] = 0 /\ Outcome(r) = "none"
    BY <2>2 DEF Blocked, Outcome
  <2> QED
    BY <2>1, <2>2, <2>3 DEF Init, G!GateInit
<1>2. IInv /\ [Next]_vars => [G!GateNext]_(G!gateVars)
  <2> SUFFICES ASSUME IInv, [Next]_vars
               PROVE  \/ G!GateNext
                      \/ P' = P /\ K' = K /\ L' = L /\ O' = O /\ dryRun' = dryRun
    BY DEF G!gateVars
  <2>0. TypeOK
    BY DEF IInv
  <2>1. ASSUME \A q \in Requests : Untouched(q) PROVE K' = K /\ L' = L /\ O' = O
    BY <2>1, SameView DEF Cleared
  <2>2. ASSUME NEW r \in Requests, Arrive(r) PROVE G!Ask(r)
    <3>1. \A q \in Requests \ {r} :
            Calls(q)' = Calls(q) /\ Cleared(q)' = Cleared(q) /\ Outcome(q)' = Outcome(q)
      BY <2>0, <2>2, OthersUntouched, SameView
    <3>2. /\ Judged(r) = 0 /\ Judged(r)' = 0 /\ pc[r] = "new" /\ pc'[r] = "body"
          /\ r \notin delivered' /\ decisions' = decisions
      BY <2>0, <2>2 DEF IInv, StageOf, Sent, Arrive, Goto, Judged, TypeOK
    <3>3. Outcome(r) = "none" /\ Outcome(r)' = "open" /\ Cleared(r)' = Cleared(r)
      BY <3>2 DEF Outcome, Blocked, Cleared
    <3>4. Calls(r)' \in Seq(Tools)
      <4>1. PICK h \in Hosts, ai \in BOOLEAN, s \in CallLists :
              request'[r] = [host |-> h, ai |-> ai, calls |-> IF ai THEN s ELSE <<>>]
        BY <2>0, <2>2 DEF Arrive, TypeOK
      <4> QED
        BY <4>1, InterceptorAssumption DEF Calls
    <3>5. O' = [O EXCEPT ![r] = "open"] /\ K' = [K EXCEPT ![r] = K'[r]]
      BY <3>1, <3>3
    <3>6. L' = L
      BY <3>1, <3>3 DEF Cleared
    <3>7. P' = P /\ dryRun' = dryRun
      BY <2>2, HandlersKeepTheQuery
    <3> QED
      BY <3>3, <3>4, <3>5, <3>6, <3>7 DEF G!Ask
  <2>3. ASSUME NEW r \in Requests, Step(r)
        PROVE  \/ G!Clear(r) \/ G!Block(r) \/ G!Pass(r) \/ G!Drop(r)
               \/ P' = P /\ K' = K /\ L' = L /\ O' = O /\ dryRun' = dryRun
    <3>1. \A q \in Requests \ {r} :
            Calls(q)' = Calls(q) /\ Cleared(q)' = Cleared(q) /\ Outcome(q)' = Outcome(q)
      BY <2>0, <2>3, OthersUntouched, SameView
    <3>2. GateStep(r) /\ Calls(r)' = Calls(r)
      BY <2>0, <2>3, StepAtTheGate DEF IInv
    <3>3. P' = P /\ dryRun' = dryRun /\ K' = K
      BY <2>3, <3>1, <3>2, HandlersKeepTheQuery
    <3>4. /\ Outcome(r)' = Outcome(r) => O' = O
          /\ Cleared(r)' = Cleared(r) => L' = L
          /\ \A out : Outcome(r)' = out => O' = [O EXCEPT ![r] = out]
          /\ Cleared(r)' = Cleared(r) + 1 => L' = [L EXCEPT ![r] = @ + 1]
      BY <3>1 DEF Cleared
    <3>5. O[r] = Outcome(r) /\ L[r] = Cleared(r) /\ K[r] = Calls(r)
      BY <1>0
    <3>6. ASSUME Cleared(r) < Len(Calls(r))
          PROVE  Calls(r)[Cleared(r) + 1] \in Tools
      <4>1. Cleared(r) \in Nat
        BY <2>0, Typed DEF Cleared, Blocked
      <4>2. Calls(r) \in Seq(Tools)
        BY <2>0, CallsType DEF TypeOK, RequestType
      <4> QED
        BY <3>6, <4>1, <4>2
    <3> HIDE DEF O, L, K
    <3>7. CASE Outcome(r)' = Outcome(r) /\ Cleared(r)' = Cleared(r)
      BY <3>3, <3>4, <3>7
    <3>8. CASE /\ Outcome(r) = "open" /\ Outcome(r)' = "open"
               /\ Cleared(r) < Len(Calls(r)) /\ Cleared(r)' = Cleared(r) + 1
               /\ ~dryRun => Decide(prepared, Calls(r)[Cleared(r) + 1]) # "deny"
      <4>1. O' = O
        BY <3>4, <3>8
      <4> QED
        BY <3>3, <3>4, <3>5, <3>6, <3>8, <4>1
        DEF G!Clear, G!Unjudged, G!NextCall, O, L, K
    <3>9. CASE /\ Outcome(r) = "open" /\ Outcome(r)' = "blocked"
               /\ Cleared(r) < Len(Calls(r)) /\ Cleared(r)' = Cleared(r)
               /\ ~dryRun /\ Decide(prepared, Calls(r)[Cleared(r) + 1]) = "deny"
      BY <3>3, <3>4, <3>5, <3>6, <3>9 DEF G!Block, G!Unjudged, G!NextCall, O, L, K
    <3>10. CASE /\ Outcome(r) = "open" /\ Outcome(r)' = "passed"
                /\ ~(Cleared(r) < Len(Calls(r))) /\ Cleared(r)' = Cleared(r)
      BY <3>3, <3>4, <3>5, <3>10 DEF G!Pass, G!Unjudged, O, L, K
    <3>11. CASE /\ Outcome(r) = "open" /\ Outcome(r)' = "dropped"
                /\ Cleared(r)' = Cleared(r)
      BY <3>3, <3>4, <3>5, <3>11 DEF G!Drop, O, L, K
    <3> QED
      BY <3>2, <3>7, <3>8, <3>9, <3>10, <3>11 DEF GateStep
  <2>4. CASE Reload
    <3>1. \A q \in Requests : Untouched(q)
      BY <2>4 DEF Reload, Untouched, requestVars
    <3>2. P' \in SUBSET Tools /\ dryRun' = dryRun
      BY <2>4 DEF Reload
    <3>3. K' = K /\ L' = L /\ O' = O
      BY <2>1, <3>1
    <3> QED
      BY <3>2, <3>3 DEF G!GateNext, G!ChangePolicy
  <2>5. ASSUME NEW h \in Hosts, WindowOver(h)
        PROVE  P' = P /\ K' = K /\ L' = L /\ O' = O /\ dryRun' = dryRun
    <3>1. \A q \in Requests : Untouched(q)
      BY <2>5 DEF WindowOver, Untouched, requestVars
    <3>2. P' = P /\ dryRun' = dryRun
      BY <2>5 DEF WindowOver, engineVars
    <3> QED
      BY <2>1, <3>1, <3>2
  <2>6. CASE UNCHANGED vars
    <3>1. \A q \in Requests : Untouched(q)
      BY <2>6 DEF vars, Untouched, requestVars
    <3>2. P' = P /\ dryRun' = dryRun
      BY <2>6 DEF vars, engineVars
    <3> QED
      BY <2>1, <3>1, <3>2
  <2> HIDE DEF P, K, L, O
  <2> QED
    BY <2>2, <2>3, <2>4, <2>5, <2>6 DEF Next, G!GateNext
<1> QED
  BY <1>1, <1>2, Inductive, PTL DEF Spec, ImplementsGate, G!GateSpec

==============================================================================
