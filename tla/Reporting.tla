----------------------------- MODULE Reporting ------------------------------
(***************************************************************************)
(* Where decisions and events go: the audit log of internal/audit and the  *)
(* alerts of internal/alert, as the handlers of internal/proxy use them.   *)
(*                                                                         *)
(* The log is a file that New opens for appending, behind one              *)
(* json.Encoder and one mutex.  Its disk may be full for a while: a write  *)
(* may fail, it may leave half a line, and an Encoder that has met an      *)
(* error returns it for ever after, without writing anything.  An          *)
(* alert goes to all sinks in turn; each of them may fail or time out.     *)
(* The process may be killed and started again, with the same file.        *)
(***************************************************************************)
EXTENDS Naturals, Sequences, SequencesExt

CONSTANTS
  Requests,  \* the requests that may come in
  none,      \* no request
  Outcomes,  \* how the policies may decide a request's calls, call by call
  MaxRuns    \* bound: how often the process is started

ASSUME ReportingAssumption ==
  /\ none \notin Requests
  /\ Outcomes \subseteq Seq({"allow", "deny"})
  /\ MaxRuns \in Nat \ {0}

VARIABLES
  sinks,     \* p.alertMgr.sinks
  dryRun,    \* p.config.DryRun
  run,       \* which run of the process this is
  serving,   \* is it listening?
  dead,      \* has the encoder met an error?
  file,      \* the log, in chunks, each a whole line or the first part of one
  start,     \* start[n]: how many chunks run n found in the file
  asked,     \* history: asked[n] is what the n-th run gave to the encoder, in order
  pc,        \* pc[r]: where the handler of r is
  verdicts,  \* verdicts[r]: how the policies will decide its calls
  judged,    \* judged[r]: how many of them have been decided
  told,      \* told[r]: the sinks that have had the alert r is at, in order
  born       \* history: born[r] is the run that r came in

setup == <<sinks, dryRun>>
log == <<run, dead, file, start, asked>>
handlers == <<pc, verdicts, judged, told, born>>
vars == <<setup, serving, log, handlers>>

\* Where a handler is in the middle of a request, and where it is done with one.
Active == {"log", "remark", "alert", "refuse", "warn", "forward", "event", "answer"}
Done == {"refused", "answered", "failed"}
Stages == Active \cup Done \cup {"new", "killed"}

\* The lines of the log: decision i of a request, its event as entry 0, and the
\* messages, which name no request.
Entries == (Requests \cup {none}) \X Nat
Message == <<none, 0>>

\* The alerts' sinks, in the order New puts them.
SinkLists ==
  { <<"stdout">> \o webhook \o slack :
      webhook \in {<<>>, <<"webhook">>}, slack \in {<<>>, <<"slack">>} }

Init ==
  /\ sinks \in SinkLists /\ dryRun \in BOOLEAN
  /\ run = 1 /\ serving = FALSE /\ dead = FALSE
  /\ file = <<>>
  /\ start = [n \in 1..MaxRuns |-> 0]
  /\ asked = [n \in 1..MaxRuns |-> <<>>]
  /\ pc = [r \in Requests |-> "new"]
  /\ verdicts = [r \in Requests |-> <<>>]
  /\ judged = [r \in Requests |-> 0]
  /\ told = [r \in Requests |-> <<>>]
  /\ born = [r \in Requests |-> 0]

Goto(r, from, to) == pc[r] = from /\ pc' = [pc EXCEPT ![r] = to]

-----------------------------------------------------------------------------
(* The logger.  One call has the mutex from the beginning to the end.       *)

\* A chunk goes to the end of the file.
Write(entry, whole) == file' = Append(file, [entry |-> entry, whole |-> whole])

\* The disk is full, and nothing is written, or half the line.
Fail(entry) == dead' = TRUE /\ (Write(entry, FALSE) \/ UNCHANGED file)

\* Mutant of Encode: an encoder that has failed tries again.
EncodeAgain(entry) ==
  /\ asked' = [asked EXCEPT ![run] = Append(@, entry)]
  /\ \/ Write(entry, TRUE) /\ UNCHANGED dead
     \/ Fail(entry)
  /\ UNCHANGED <<run, start>>

\* l.encoder.Encode(entry).  Its error makes the handler log another entry, the error,
\* which meets the same encoder and changes nothing.
Encode(entry) ==
  /\ asked' = [asked EXCEPT ![run] = Append(@, entry)]
  /\ \/ dead /\ UNCHANGED <<dead, file>>
     \/ ~dead /\ Write(entry, TRUE) /\ UNCHANGED dead
     \/ ~dead /\ Fail(entry)
  /\ UNCHANGED <<run, start>>

\* LoadPolicies and StartContext, up to the listener: there are several messages, one
\* of which is modelled.
Startup ==
  /\ ~serving /\ serving' = TRUE
  /\ Encode(Message)
  /\ UNCHANGED <<setup, handlers>>

-----------------------------------------------------------------------------
(* The handlers: what handleHTTP does about the log and the alerts.         *)

\* Where the handler of r goes after n of its calls.
After(r, n) == IF n < Len(verdicts[r]) THEN "log" ELSE "forward"

Arrive(r) ==
  /\ pc[r] = "new" /\ serving
  /\ verdicts' \in {[verdicts EXCEPT ![r] = v] : v \in Outcomes}
  /\ pc' = [pc EXCEPT ![r] = IF verdicts'[r] = <<>> THEN "forward" ELSE "log"]
  /\ born' = [born EXCEPT ![r] = run]
  /\ UNCHANGED <<setup, serving, log, judged, told>>

\* 400 for a body that cannot be read, or 429.
Reject(r) ==
  /\ serving
  /\ Goto(r, "new", "failed")
  /\ Encode(Message)
  /\ born' = [born EXCEPT ![r] = run]
  /\ UNCHANGED <<setup, serving, verdicts, judged, told>>

\* Evaluate panics: the server drops the connection, and nothing is logged.
Abort(r) ==
  /\ Goto(r, "log", "failed")
  /\ UNCHANGED <<setup, serving, log, verdicts, judged, told, born>>

\* p.logger.LogDecision.  Then a denial is made known or, in a dry run, remarked upon,
\* or the detector looks at the call and may find an anomaly (the code may find up to
\* four, one after the other).
LogDecision(r) ==
  /\ pc[r] = "log"
  /\ Encode(<<r, judged[r] + 1>>)
  /\ judged' = [judged EXCEPT ![r] = @ + 1]
  /\ LET verdict == verdicts[r][judged[r] + 1] IN
       pc' \in {[pc EXCEPT ![r] = to] :
                  to \in IF verdict = "allow" THEN {"warn", After(r, judged[r] + 1)}
                         ELSE IF dryRun THEN {"remark"} ELSE {"alert"}}
  /\ told' = [told EXCEPT ![r] = <<>>]
  /\ UNCHANGED <<setup, serving, verdicts, born>>

\* "would deny", of a dry run; then the detector looks at the call all the same.
Remark(r) ==
  /\ pc[r] = "remark"
  /\ Encode(Message)
  /\ pc' \in {[pc EXCEPT ![r] = to] : to \in {"warn", After(r, judged[r])}}
  /\ UNCHANGED <<setup, serving, verdicts, judged, told, born>>

\* Mutant of Tell: the first sink that fails ends the loop.
TellUntilError(r) ==
  /\ pc[r] \in {"alert", "warn"}
  /\ told' = [told EXCEPT ![r] = Append(@, sinks[Len(@) + 1])]
  /\ \E ok \in BOOLEAN :
       pc' = [pc EXCEPT ![r] = IF ok /\ told'[r] # sinks THEN @
                               ELSE IF @ = "alert" THEN "refuse" ELSE After(r, judged[r])]
  /\ UNCHANGED <<setup, serving, log, verdicts, judged, born>>

\* Mutant of Tell: the loop goes one sink too far.
TellTooFar(r) ==
  /\ pc[r] \in {"alert", "warn"}
  /\ told' = [told EXCEPT ![r] = Append(@, IF @ = sinks THEN "none" ELSE sinks[Len(@) + 1])]
  /\ pc' = [pc EXCEPT ![r] = IF Len(told'[r]) <= Len(sinks) THEN @
                             ELSE IF @ = "alert" THEN "refuse" ELSE After(r, judged[r])]
  /\ UNCHANGED <<setup, serving, log, verdicts, judged, born>>

\* sink.Send, in AlertDecision or AlertAnomaly: whatever comes of it, the next sink
\* has its turn, and the handler goes on when all of them had theirs.
Tell(r) ==
  /\ pc[r] \in {"alert", "warn"}
  /\ told' = [told EXCEPT ![r] = Append(@, sinks[Len(@) + 1])]
  /\ pc' = [pc EXCEPT ![r] = IF told'[r] # sinks THEN @
                             ELSE IF @ = "alert" THEN "refuse" ELSE After(r, judged[r])]
  /\ UNCHANGED <<setup, serving, log, verdicts, judged, born>>

WriteDenyResponse(r) ==
  /\ Goto(r, "refuse", "refused")
  /\ UNCHANGED <<setup, serving, log, verdicts, judged, told, born>>

\* forwardToUpstream has an answer, and it is read to the end.
Forward(r) ==
  /\ Goto(r, "forward", "event")
  /\ UNCHANGED <<setup, serving, log, verdicts, judged, told, born>>

\* There is none (502), or reading it fails (500): a message, and no event.
UpstreamFails(r) ==
  /\ Goto(r, "forward", "failed")
  /\ Encode(Message)
  /\ UNCHANGED <<setup, serving, verdicts, judged, told, born>>

\* p.logger.LogEvent, entry 0 of the request.
LogEvent(r) ==
  /\ Goto(r, "event", "answer")
  /\ Encode(<<r, 0>>)
  /\ UNCHANGED <<setup, serving, verdicts, judged, told, born>>

Respond(r) ==
  /\ Goto(r, "answer", "answered")
  /\ UNCHANGED <<setup, serving, log, verdicts, judged, told, born>>

Handle(r) ==
  \/ Arrive(r) \/ Reject(r) \/ Abort(r) \/ LogDecision(r) \/ Remark(r) \/ Tell(r)
  \/ WriteDenyResponse(r) \/ Forward(r) \/ UpstreamFails(r) \/ LogEvent(r) \/ Respond(r)

-----------------------------------------------------------------------------
(* The machine.                                                             *)

\* The process is killed, with its handlers, and New opens the same file again,
\* behind a new encoder.
Restart ==
  /\ run < MaxRuns
  /\ run' = run + 1 /\ serving' = FALSE /\ dead' = FALSE
  /\ start' = [start EXCEPT ![run'] = Len(file)]
  /\ pc' = [r \in Requests |-> IF pc[r] \in Active THEN "killed" ELSE pc[r]]
  /\ UNCHANGED <<setup, file, asked, verdicts, judged, told, born>>

Next == (\E r \in Requests : Handle(r)) \/ Startup \/ Restart

Spec == Init /\ [][Next]_vars

-----------------------------------------------------------------------------
(* Properties.                                                              *)

TypeOK ==
  /\ sinks \in SinkLists /\ dryRun \in BOOLEAN
  /\ run \in 1..MaxRuns
  /\ serving \in BOOLEAN /\ dead \in BOOLEAN
  /\ file \in Seq([entry : Entries, whole : BOOLEAN])
  /\ start \in [1..MaxRuns -> 0..Len(file)]
  /\ asked \in [1..MaxRuns -> Seq(Entries)]
  /\ pc \in [Requests -> Stages]
  /\ verdicts \in [Requests -> Seq({"allow", "deny"})]
  /\ \A r \in Requests : judged[r] \in 0..Len(verdicts[r])
  /\ \A r \in Requests : IsPrefix(told[r], sinks)
  /\ born \in [Requests -> 0..run]

\* Where the part of run n ends in the file.
End(n) == IF n = run THEN Len(file) ELSE start[n + 1]

\* Can chunk k be read?  It is whole, and does not go on with half a line.
OnItsOwnLine(k) == file[k].whole /\ (k > 1 => file[k - 1].whole)

\* Can a reader of the file find entry i of request r?
OnRecord(r, i) == \E k \in 1..Len(file) : file[k].entry = <<r, i>> /\ OnItsOwnLine(k)

\* What a run has written to the log is a beginning of what it was to write, in the
\* order of its calls and without a hole, and all of it as long as the encoder lives.
RunIsABeginning(n) ==
  LET written == End(n) - start[n] IN
    /\ written <= Len(asked[n])
    /\ \A i \in 1..written : file[start[n] + i].entry = asked[n][i]
    /\ n = run /\ ~dead => written = Len(asked[n])

\* Each entry of a run has a line of its own but for two: the last one may be cut off,
\* and then the run's encoder is dead, and the first one, a message of the start,
\* goes on with the line that the run before has left cut off.
RunIsReadable(n) ==
  LET written == End(n) - start[n] IN
    /\ asked[n] # <<>> => asked[n][1] = Message
    /\ \A i \in 2..written : i < written \/ (n = run /\ ~dead) => OnItsOwnLine(start[n] + i)

\* However the disk fills up and empties, and whatever the runs before have left in the
\* file: the log has no hole; as long as the encoder lives, whoever reads the file
\* finds every decision of this run, and the event of every request that has its
\* answer; and there is no event of a request that was refused or that failed
\* (logger.go:28-41, 43-91, proxy.go:189-199, intercept.go:68-70, 91-105, 113-115).
LogHasNoHoles ==
  /\ \A n \in 1..run : RunIsABeginning(n) /\ RunIsReadable(n)
  /\ \A r \in Requests : born[r] = run /\ ~dead =>
       /\ \A i \in 1..judged[r] : OnRecord(r, i)
       /\ pc[r] = "answered" => OnRecord(r, 0)
  /\ \A r \in Requests : pc[r] \in {"refused", "failed"} =>
       \A k \in 1..Len(file) : file[k].entry # <<r, 0>>

\* Nobody is refused, and no call that is out of the ordinary goes on, before every
\* sink has been given the alert, once each, though any of them may fail
\* (manager.go:22-30, intercept.go:73-75, 85-87).
EverySinkTold ==
  /\ \A r \in Requests : pc[r] \in {"refuse", "refused"} => told[r] = sinks
  /\ \A r \in Requests : told[r] # <<>> /\ told[r] # sinks =>
       pc[r] \in {"alert", "warn", "killed"}
=============================================================================
