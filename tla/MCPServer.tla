----------------------------- MODULE MCPServer -----------------------------
(***************************************************************************)
(* The MCP server of internal/mcp/server.go, `ghostguard mcp`: policies    *)
(* are loaded once, and then every line of standard input that is a        *)
(* JSON-RPC request is handled by a goroutine of its own.                  *)
(*                                                                         *)
(* A line is what the server can tell of it:                               *)
(*   "blank"     nothing, which is skipped;                                *)
(*   "broken"    no JSON, answered by the reading loop itself;             *)
(*   "long"      more than the scanner's buffer holds;                     *)
(*   "foreign"   a request for a method nobody handles, which is what a    *)
(*               client's notifications are;                               *)
(*   "unknown"   tools/call of a tool the server does not have;            *)
(*   "status"    tools/call of ghostguard_status; a method with a fixed    *)
(*               answer (initialize, tools/list, ping) is handled alike;   *)
(*   "test"      tools/call of ghostguard_test_tool.                       *)
(* os.Stdout writes one line at a time, whoever writes.  The answers are   *)
(* read by a client that takes all it is sent.                             *)
(***************************************************************************)
EXTENDS PolicyEngine, Naturals, Sequences, SequencesExt

CONSTANTS
  Lines,      \* the lines the client may send, those with an id each with its own
  Anonymous,  \* the requests without an id
  KindOf,     \* KindOf[l]: what l is, see above
  ToolOf      \* ToolOf[l]: the tool a "test" asks about

Kinds == {"blank", "broken", "long", "foreign", "unknown", "status", "test"}

\* The id of an answer to a line without one, or whose id could not be read.
NoId == "null"

\* The id a request is answered with; the field is written even if it is null.
IdOf(l) == IF l \in Anonymous THEN NoId ELSE l

ASSUME MCPServerAssumption ==
  /\ NoId \notin Lines /\ Anonymous \subseteq Lines
  /\ KindOf \in [Lines -> Kinds]
  /\ ToolOf \in [Lines -> Tools]

VARIABLES
  dir,       \* what LoadPoliciesFromDir returned; no file if it failed
  toLoad,    \* the files the loop has still to load
  server,    \* "loading", "reading"; then "eof", "error" or "panic"
  pipe,      \* standard input: the lines sent and not yet scanned
  sent,      \* the lines the client has sent
  closed,    \* has it closed its end?
  handler,   \* handler[l]: where the goroutine of l is
  answer,    \* answer[l]: what it has computed
  out        \* standard output: the answers, as <<id, answer>>

mcpVars == <<dir, toLoad, server, pipe, sent, closed, handler, answer, out>>
vars == <<engineVars, mcpVars>>

\* What an answer can say.
Errors == {"parse error", "method not found", "internal error"}
Decisions == {"deny", "log", "allow"}
NoAnswer == "none"

Running == server \in {"loading", "reading"}

Init ==
  /\ EngineInit
  /\ dir \in [Names -> Contents \cup {NoModule}]
  /\ toLoad = {n \in Names : dir[n] # NoModule}
  /\ server = "loading"
  /\ pipe = <<>>
  /\ sent = {}
  /\ closed = FALSE
  /\ handler = [l \in Lines |-> "none"]
  /\ answer = [l \in Lines |-> NoAnswer]
  /\ out = <<>>

-----------------------------------------------------------------------------
(* RunMCPFromMain.                                                          *)

\* Mutant of LoadNext: an engine for every policy, of which the last one is kept.
LoadNextAnew(n) ==
  /\ server = "loading" /\ n \in toLoad
  /\ modules' = [NoModules EXCEPT ![n] = dir[n]]
  /\ prepared' = IF dir[n].health = "ok" THEN [NoModules EXCEPT ![n] = dir[n]]
                                         ELSE prepared
  /\ toLoad' = toLoad \ {n}
  /\ UNCHANGED <<dir, server, pipe, sent, closed, handler, answer, out>>

\* The loop over the map, in any order; what does not load is passed over.
LoadNext(n) ==
  /\ server = "loading" /\ n \in toLoad
  /\ LoadPolicy(n, dir[n])
  /\ toLoad' = toLoad \ {n}
  /\ UNCHANGED <<dir, server, pipe, sent, closed, handler, answer, out>>

\* Mutant of StartServing: policies are loaded in the background.
StartServingAtOnce ==
  /\ server = "loading"
  /\ server' = "reading"
  /\ UNCHANGED <<engineVars, dir, toLoad, pipe, sent, closed, handler, answer, out>>

StartServing ==
  /\ server = "loading" /\ toLoad = {}
  /\ server' = "reading"
  /\ UNCHANGED <<engineVars, dir, toLoad, pipe, sent, closed, handler, answer, out>>

-----------------------------------------------------------------------------
(* Serve, the reading loop.                                                 *)

\* Scan returns the next line: it is skipped, answered or handed to a goroutine.
ScanLine ==
  /\ server = "reading" /\ pipe # <<>>
  /\ KindOf[Head(pipe)] # "long"
  /\ pipe' = Tail(pipe)
  /\ out' = IF KindOf[Head(pipe)] = "broken"
            THEN Append(out, <<NoId, "parse error">>) ELSE out
  /\ handler' = IF KindOf[Head(pipe)] \in {"blank", "broken"} THEN handler
                ELSE [handler EXCEPT ![Head(pipe)] = "started"]
  /\ UNCHANGED <<engineVars, dir, toLoad, server, sent, closed, answer>>

\* Scan returns false: the line is too long, or standard input has ended.  Either
\* way Serve returns, and main after it, which ends the process.
ScanEnds ==
  /\ server = "reading"
  /\ \/ pipe # <<>> /\ KindOf[Head(pipe)] = "long" /\ server' = "error"
     \/ pipe = <<>> /\ closed /\ server' = "eof"
  /\ UNCHANGED <<engineVars, dir, toLoad, pipe, sent, closed, handler, answer, out>>

-----------------------------------------------------------------------------
(* handleRequest, the goroutine of line l.                                  *)

\* handleTestTool on the engine, whose zero query panics: nobody recovers.
TestTool(l) ==
  IF Panics(prepared)
  THEN server' = "panic" /\ UNCHANGED <<handler, answer>>
  ELSE /\ answer' = [answer EXCEPT ![l] = Decide(prepared, ToolOf[l])]
       /\ handler' = [handler EXCEPT ![l] = "handled"]
       /\ UNCHANGED server

\* The handler is looked up and called.
Handle(l) ==
  /\ Running /\ handler[l] = "started"
  /\ \/ KindOf[l] = "test" /\ TestTool(l)
     \/ /\ KindOf[l] # "test"
        /\ answer' = [answer EXCEPT ![l] =
             CASE KindOf[l] = "foreign" -> "method not found"
               [] KindOf[l] = "unknown" -> "internal error"
               [] KindOf[l] = "status"  -> "status"]
        /\ handler' = [handler EXCEPT ![l] = "handled"]
        /\ UNCHANGED server
  /\ UNCHANGED <<engineVars, dir, toLoad, pipe, sent, closed, out>>

\* Mutant of Respond: an error is sent without returning after it.
RespondTwice(l) ==
  /\ Running /\ handler[l] = "handled"
  /\ out' = IF answer[l] \in Errors
            THEN out \o << <<IdOf(l), answer[l]>>, <<IdOf(l), "status">> >>
            ELSE Append(out, <<IdOf(l), answer[l]>>)
  /\ handler' = [handler EXCEPT ![l] = "done"]
  /\ UNCHANGED <<engineVars, dir, toLoad, server, pipe, sent, closed, answer>>

\* Mutant of Respond: an error is returned, and nobody sends it.
RespondNoError(l) ==
  /\ Running /\ handler[l] = "handled" /\ answer[l] \notin Errors
  /\ out' = Append(out, <<IdOf(l), answer[l]>>)
  /\ handler' = [handler EXCEPT ![l] = "done"]
  /\ UNCHANGED <<engineVars, dir, toLoad, server, pipe, sent, closed, answer>>

\* sendError or sendResponse.
Respond(l) ==
  /\ Running /\ handler[l] = "handled"
  /\ out' = Append(out, <<IdOf(l), answer[l]>>)
  /\ handler' = [handler EXCEPT ![l] = "done"]
  /\ UNCHANGED <<engineVars, dir, toLoad, server, pipe, sent, closed, answer>>

-----------------------------------------------------------------------------
(* The client.                                                              *)

SendLine(l) ==
  /\ Running /\ ~closed /\ l \notin sent
  /\ pipe' = Append(pipe, l)
  /\ sent' = sent \cup {l}
  /\ UNCHANGED <<engineVars, dir, toLoad, server, closed, handler, answer, out>>

CloseInput ==
  /\ Running /\ ~closed
  /\ closed' = TRUE
  /\ UNCHANGED <<engineVars, dir, toLoad, server, pipe, sent, handler, answer, out>>

Serve == ScanLine \/ ScanEnds
HandleRequest(l) == Handle(l) \/ Respond(l)

Next ==
  \/ \E n \in Names : LoadNext(n)
  \/ StartServing \/ Serve
  \/ \E l \in Lines : HandleRequest(l) \/ SendLine(l)
  \/ CloseInput

Spec == Init /\ [][Next]_vars

\* The process runs; what the client does is up to it.
FairSpec ==
  /\ Spec
  /\ \A n \in Names : WF_vars(LoadNext(n))
  /\ WF_vars(StartServing) /\ WF_vars(Serve)
  /\ \A l \in Lines : WF_vars(HandleRequest(l))

-----------------------------------------------------------------------------
(* Properties.                                                              *)

TypeOK ==
  /\ EngineTypeOK
  /\ dir \in [Names -> Contents \cup {NoModule}]
  /\ toLoad \subseteq Names
  /\ server \in {"loading", "reading", "eof", "error", "panic"}
  /\ pipe \in Seq(Lines) /\ sent \subseteq Lines /\ closed \in BOOLEAN
  /\ handler \in [Lines -> {"none", "started", "handled", "done"}]
  /\ answer \in [Lines -> Errors \cup Decisions \cup {"status", NoAnswer}]
  /\ out \in Seq((Lines \cup {NoId}) \X (Errors \cup Decisions \cup {"status"}))
  /\ server # "loading" => toLoad = {}

\* The policies of the directory that can be parsed.
Parsed == [n \in Names |-> IF dir[n].health = "syntax" THEN NoModule ELSE dir[n]]

\* What ghostguard_test_tool answers is what the policies of the directory decide
\* together, in whatever order the map gave them and however many of its files do
\* not parse, provided those that do compile together: the errors of the others are
\* thrown away.  And it does answer: a test of an engine without a prepared query
\* would take the whole process down (server.go:262-267, engine.go:24-46, 70).
VerdictsMatchDirectory ==
  Compiles(Parsed) =>
    /\ \A i \in 1..Len(out) :
         out[i][2] \in Decisions =>
           \E l \in Lines : /\ IdOf(l) = out[i][1] /\ KindOf[l] = "test"
                            /\ out[i][2] = Decide(Parsed, ToolOf[l])
    /\ Parsed # NoModules => server # "panic"

\* The lines that have been answered without an id: those that could not be parsed
\* and the requests that have none.
Unnamed ==
  {l \in sent \ ToSet(pipe) :
     KindOf[l] = "broken" \/ (l \in Anonymous /\ handler[l] = "done")}

\* Every request is answered at most once and only if it was sent, in any order;
\* there is one answer without an id for every line that could not be parsed and for
\* every request without one that has been handled (server.go:80-98, 102-119).
OneAnswerEach ==
  /\ \A i, j \in 1..Len(out) : i # j /\ out[i][1] = out[j][1] => out[i][1] = NoId
  /\ \A i \in 1..Len(out) : out[i][1] # NoId => out[i][1] \in sent \ ToSet(pipe)
  /\ Cardinality({i \in 1..Len(out) : out[i][1] = NoId})
       = Cardinality(Unnamed)

Answered(l) ==
  \/ KindOf[l] \in {"blank", "broken"}
  \/ l \in Anonymous /\ handler[l] = "done"
  \/ \E i \in 1..Len(out) : out[i][1] = l

\* A client that leaves standard input open until it has its answers gets all of
\* them, unless a test panics or a line is too long.  One that closes it sooner may
\* lose any of them, since Serve returns without waiting for its goroutines
\* (server.go:80-85, 98).
AnswersCome ==
  \A l \in Lines : l \in sent ~> Answered(l) \/ closed \/ ~Running
=============================================================================
