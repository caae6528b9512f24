----------------------------- MODULE FrontDoor ------------------------------
(***************************************************************************)
(* What the proxy does with a request before and after its pipeline:       *)
(* cmdServe's start, ServeHTTP with its routes, the tool calls that        *)
(* handleHTTP finds, and forwardToUpstream (main.go, proxy.go,             *)
(* intercept.go).  Interceptor has the pipeline in between, with its       *)
(* limiter, policies and records; here a fixed set of tools is denied.     *)
(*                                                                         *)
(* The client is an agent in conversation with a model: each request       *)
(* carries the whole conversation, an answer may ask for tools, the agent  *)
(* runs them at once and goes on.  It is configured with a base URL or     *)
(* with a proxy; other clients ask for a page or for a tunnel.             *)
(***************************************************************************)
EXTENDS Config, ToolCalls, Tunnel

CONSTANTS
  Setups,    \* a configuration file, flags and a client
  Denied,    \* the tools that policy denies
  Answers,   \* the sequences of tools an answer of the model may ask for
  Serves,    \* the pairs of a host and a path where a model answers
  OwnNames,  \* the host names under which the proxy's machine is reached
  MaxHops,   \* bound: how often a request may come back to the proxy
  MaxMessages  \* bound: how long a conversation gets

\* A client uses one of the two forms of a URL, flags are those cmdServe defines,
\* parsed by the flag package, and an answer is a sequence.
ASSUME FrontDoorAssumption ==
  /\ \A s \in Setups :
       /\ s.client.form \in {"absolute", "origin"}
       /\ s.client.resumed \in Seq(ToSet(s.client.resumed))
       /\ DOMAIN s.flags \subseteq FlagSettings
       /\ \A n \in Numbers \cap DOMAIN s.flags : s.flags[n] \in Int
       /\ "dry_run" \in DOMAIN s.flags => s.flags["dry_run"] \in BOOLEAN
       /\ "dry_run" \in DOMAIN s.file.keys => s.file.keys["dry_run"] \in BOOLEAN
  /\ \A calls \in Answers : calls \in Seq(ToSet(calls))

VARIABLES
  setup,     \* constant: one of Setups
  process,   \* "new", "up", or how it ended: "fatal", "panic"
  cfg,       \* p.config
  history,   \* the conversation: messages of the user and answers of the model
  at,        \* where the request is
  form,      \* its URL: "absolute", with scheme and host, or "origin"
  hops,      \* how often it has come back to the proxy
  seen,      \* the tool calls the proxy found in it
  passed,    \* history: the number of tool calls in the last request that passed
  reply      \* the answer to the last request

doorVars == <<setup, process, cfg, history, at, form, hops, seen, passed, reply>>
vars == <<doorVars, tunnelVars>>

file == setup.file
flags == setup.flags
client == setup.client

\* The tools the agent has run, those of a conversation it resumes included.
Run == FlattenSeq([i \in 1..Len(history) |-> history[i].calls])

Init ==
  /\ setup \in Setups
  /\ process = "new"
  /\ cfg = DefaultConfig
  /\ history = <<[plain |-> client.plain, calls |-> <<>>],
                 [plain |-> FALSE, calls |-> client.resumed]>>
  /\ at = "idle" /\ form = "origin" /\ hops = 0
  /\ seen = <<>> /\ passed = 0
  /\ reply = "none"
  /\ TunnelInit
  /\ client.method # "CONNECT" => buffered = 0

-----------------------------------------------------------------------------
(* cmdServe.                                                                *)

\* The configuration is read and merged, and New builds the proxy.
Start ==
  /\ process = "new"
  /\ cfg' = MergeConfig(LoadConfig(file), Overrides(flags))
  /\ process' = IF LoadFails(file) \/ NewFails(cfg') THEN "fatal" ELSE "up"
  /\ UNCHANGED <<setup, history, at, form, hops, seen, passed, reply, tunnelVars>>

\* One of the goroutines that New has started comes to its ticker.
Panic ==
  /\ process = "up" /\ TickerPanics(cfg)
  /\ process' = "panic"
  /\ UNCHANGED <<setup, cfg, history, at, form, hops, seen, passed, reply, tunnelVars>>

-----------------------------------------------------------------------------
(* The client.                                                              *)

\* What the three APIs make of a conversation.
MessageOf(h) ==
  [calls  |-> IF client.api = "openai" THEN h.calls ELSE <<>>,
   plain  |-> h.plain,
   blocks |-> IF client.api = "anthropic"
              THEN <<[type |-> "text"]>> \o
                     [i \in 1..Len(h.calls) |-> [type |-> "tool_use", name |-> h.calls[i]]]
              ELSE <<>>]
ContentOf(h) ==
  <<[type |-> "text"]>> \o
    [i \in 1..Len(h.calls) |-> [type |-> "functionCall", name |-> h.calls[i]]]
Body ==
  IF client.encoded THEN NotJSON
  ELSE [json     |-> TRUE,
        calls    |-> <<>>,
        messages |-> IF client.api \in {"openai", "anthropic"}
                     THEN [i \in 1..Len(history) |-> MessageOf(history[i])] ELSE <<>>,
        contents |-> IF client.api = "gemini"
                     THEN [i \in 1..Len(history) |-> ContentOf(history[i])] ELSE <<>>]

\* The next request of the conversation, or the same again after a failure.
Ask ==
  /\ process = "up" /\ at = "idle"
  /\ client.door = "dash" => HasDash(cfg)
  /\ Len(history) < MaxMessages
  /\ at' = "arrived" /\ form' = client.form /\ hops' = 0 /\ reply' = "none"
  /\ UNCHANGED <<setup, process, cfg, history, seen, passed, tunnelVars>>

Reply(what) == reply' = what /\ at' = "idle"

-----------------------------------------------------------------------------
(* ServeHTTP of the proxy and of the dashboard.                             *)

Pages == {"/metrics", "/prometheus", "/events", "/health", "/", "/index.html"}
ForDashboard ==
  \/ client.door = "dash"
  \/ client.name \in {"localhost", "127.0.0.1"} /\ client.path \in {"/ghostguard", "/ghostguard/health"}

\* The dashboard looks the path up as it is, with the prefix that brought it here.
ServePage ==
  /\ process = "up" /\ at = "arrived" /\ ForDashboard
  /\ Reply(IF client.path \in Pages THEN "page" ELSE "404")
  /\ UNCHANGED <<setup, process, cfg, history, form, hops, seen, passed, tunnelVars>>

Connect ==
  /\ process = "up" /\ at = "arrived" /\ ~ForDashboard /\ client.method = "CONNECT"
  /\ at' = "tunnel"
  /\ StartTunnel
  /\ UNCHANGED <<setup, process, cfg, history, form, hops, seen, passed, reply>>

\* handleHTTP looks for tool calls in what goes to an AI endpoint.
AI == IsAIEndpoint(cfg["target_hosts"], client.name, client.path)
Extract ==
  /\ process = "up" /\ at = "arrived" /\ ~ForDashboard /\ client.method # "CONNECT"
  /\ seen' = IF AI THEN ExtractToolCalls(client.name, client.path, client.header, Body)
             ELSE <<>>
  /\ at' = "judge"
  /\ UNCHANGED <<setup, process, cfg, history, form, hops, passed, reply, tunnelVars>>

\* Mutant of Judge: only the last of the calls is judged.
JudgeLastOnly ==
  /\ process = "up" /\ at = "judge"
  /\ \/ AI /\ Reply("429")
     \/ IF seen # <<>> /\ seen[Len(seen)] \in Denied /\ ~cfg["dry_run"]
        THEN Reply("403")
        ELSE at' = "forward" /\ UNCHANGED reply
  /\ UNCHANGED <<setup, process, cfg, history, form, hops, seen, passed, tunnelVars>>

\* The limiter, which the code asks before it looks for tool calls, and the policies
\* (Interceptor).
Judge ==
  /\ process = "up" /\ at = "judge"
  /\ \/ AI /\ Reply("429")
     \/ IF ToSet(seen) \cap Denied # {} /\ ~cfg["dry_run"]
        THEN Reply("403")
        ELSE at' = "forward" /\ UNCHANGED reply
  /\ UNCHANGED <<setup, process, cfg, history, form, hops, seen, passed, tunnelVars>>

-----------------------------------------------------------------------------
(* forwardToUpstream.                                                       *)

\* r.Host names this machine, or contains the address the proxy listens on.
Local ==
  \/ client.name \in {"localhost", "127.0.0.1"}
  \/ /\ client.port = cfg["listen_addr"].port
     /\ cfg["listen_addr"].ip \in {"", client.name}

Rewritten == form = "origin" /\ Local /\ cfg["target_hosts"] # <<>>

\* Mutant of UpstreamURL: the scheme is the one the client used.
UpstreamURLSameScheme ==
  [scheme |-> "http",
   name   |-> IF Rewritten THEN cfg["target_hosts"][1] ELSE client.name,
   port   |-> IF Rewritten THEN "" ELSE client.port]

\* An absolute URL is kept; otherwise the scheme is https, and the first of the
\* target hosts takes the place of a local one.
UpstreamURL ==
  [scheme |-> IF form = "absolute" THEN "http" ELSE "https",
   name   |-> IF Rewritten THEN cfg["target_hosts"][1] ELSE client.name,
   port   |-> IF Rewritten THEN "" ELSE client.port]

PortOf(url) == IF url.port # "" THEN url.port
               ELSE IF url.scheme = "https" THEN "443" ELSE "80"
ToItself(url) == url.name \in OwnNames /\ PortOf(url) = cfg["listen_addr"].port

\* The request goes back to the proxy, which it reaches without scheme and host; a
\* TLS handshake with the proxy fails.
Return ==
  /\ process = "up" /\ at = "forward"
  /\ ToItself(UpstreamURL) /\ UpstreamURL.scheme = "http" /\ hops < MaxHops
  /\ at' = "arrived" /\ form' = "origin" /\ hops' = hops + 1
  /\ UNCHANGED <<setup, process, cfg, history, seen, passed, reply, tunnelVars>>

\* It comes to a model, whose answer asks for tools or not, and the agent runs them;
\* or to somebody who knows nothing of it.
Deliver ==
  /\ process = "up" /\ at = "forward" /\ ~ToItself(UpstreamURL)
  /\ passed' = Len(Run)
  /\ IF <<UpstreamURL.name, client.path>> \in Serves
     THEN \E calls \in Answers :
            /\ Reply("answer")
            /\ history' = Append(history, [plain |-> FALSE, calls |-> calls])
     ELSE Reply("error") /\ UNCHANGED history
  /\ UNCHANGED <<setup, process, cfg, form, hops, seen, tunnelVars>>

Fail ==
  /\ process = "up" /\ at = "forward"
  /\ Reply("502")
  /\ UNCHANGED <<setup, process, cfg, history, form, hops, seen, passed, tunnelVars>>

Forward == Return \/ Deliver \/ Fail

Door ==
  \/ Start \/ Panic \/ Ask
  \/ ServePage \/ Connect \/ Extract \/ Judge \/ Forward

Next == Door \/ (process = "up" /\ TunnelNext /\ UNCHANGED doorVars)

Spec == Init /\ [][Next]_vars

\* The goroutines of the tunnel run when they can.  Nobody has to send, read or
\* close anything.
Tunneling(A) == process = "up" /\ A /\ UNCHANGED doorVars
FairSpec ==
  /\ Spec
  /\ WF_vars(Tunneling(Dial \/ Hijack)) /\ WF_vars(Tunneling(CloseBoth))
  /\ \A e \in Ends : WF_vars(Tunneling(Read(e) \/ Write(e)))

-----------------------------------------------------------------------------
(* Properties.                                                              *)

\* A request that names the proxy itself comes back to it once at most.
TypeOK ==
  /\ TunnelTypeOK
  /\ setup \in Setups
  /\ process \in {"new", "up", "fatal", "panic"}
  /\ DOMAIN cfg = Settings
  /\ at \in {"idle", "arrived", "judge", "forward", "tunnel"}
  /\ form \in {"absolute", "origin"}
  /\ hops \in 0..1
  /\ ToSet(seen) \subseteq ToSet(Run)
  /\ passed \in 0..Len(Run)
  /\ reply \in {"none", "page", "404", "429", "403", "502", "answer", "error"}

\* A flag says more than the file, and the file more than the defaults, but a flag
\* cannot take anything back: one of value zero is no flag.  So a dry run that the
\* file asks for stays one, a dashboard stays, and only the file can leave the
\* limiter without a positive window, which ends the process (main.go:90-130,
\* proxy.go:53-120, ratelimit.go:76).
StartsAsTold ==
  process # "new" =>
    LET InFile(s) == file.kind = "yaml" /\ s \in DOMAIN file.keys
        Flag(s) == s \in DOMAIN flags /\ Overriding(s, flags[s]) # Zero(s) IN
    /\ \A s \in Settings :
         /\ Flag(s) => cfg[s] = Overriding(s, flags[s])
         /\ ~Flag(s) /\ InFile(s) => cfg[s] = file.keys[s]
         /\ ~Flag(s) /\ ~InFile(s) => cfg[s] = DefaultConfig[s]
    /\ cfg["dry_run"] <=> \/ Flag("dry_run")
                          \/ InFile("dry_run") /\ file.keys["dry_run"]
    /\ ~HasDash(cfg) => InFile("dash_addr")
    /\ process = "panic" => InFile("rate_window") \/ InFile("detector.window_interval")
    /\ process = "fatal" => file.kind \in {"unreadable", "malformed"} \/ NewFails(cfg)

\* The proxy sees all the tool calls of a conversation, in their order, or none: all
\* if the request can be told for one of its API (by the path of an OpenAI client,
\* the path and version header of an Anthropic one, the host of a Gemini one if it is
\* an AI endpoint, where a target host makes up for OpenAI's "/v1"), is not encoded,
\* and has no Anthropic message in plain text (intercept.go:175-320).
Watched ==
  /\ ~client.encoded
  /\ CASE client.api = "openai" ->
            \/ client.path = "/v1/chat/completions"
            \/ /\ client.path = "/chat/completions"
               /\ client.name \in ToSet(cfg["target_hosts"])
       [] client.api = "anthropic" ->
            client.path = "/v1/messages" /\ client.header /\ ~client.plain
       [] client.api = "gemini" ->
            client.name = Google /\ AI
       [] OTHER -> FALSE
EveryCallSeen ==
  at \in {"judge", "forward"} => seen = IF Watched THEN Run ELSE <<>>

\* A call is run before the proxy sees it, when the answer that asks for it comes; but
\* a conversation that is watched runs ahead of its policies by one answer only:
\* whatever was asked for before the last one is permitted, and after a denied call
\* nothing is let through any more (intercept.go:61-91).
OneAnswerAhead ==
  Watched /\ ~cfg["dry_run"] =>
    /\ \A i \in 1..Len(history) - 1 : ToSet(history[i].calls) \cap Denied = {}
    /\ \A i \in 1..passed : Run[i] \notin Denied

\* A tunnel whose peers have both stopped sending, gone away or broken off is
\* closed, whatever was still under way, unless one of them goes on holding its end
\* without reading what waits for it (intercept.go:156-173).  While one peer is open
\* and silent the tunnel stays, though the other has gone: nothing else ends it.
TunnelEnds ==
  BothEnded ~> stage = "closed" \/ process # "up" \/ \E e \in Ends : Stalled(e)

\* README.md:31 and README.md:42-48: a client whose base URL is the proxy has its tool
\* calls judged.
BaseURLIsJudged ==
  at = "forward" /\ client.name = "localhost" /\ client.api = "openai" => seen = Run
=============================================================================
