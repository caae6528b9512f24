# GhostGuard in TLA+

GhostGuard (Go) is a proxy between AI agents and the services they call. It
reads the tool calls in a request, has a policy decide each of them, limits and
watches their rate, refuses or forwards the request, and shows what happened on
a dashboard. This directory holds TLA+ modules of its stateful parts, the TLC
configurations that check them on small instances, and theorems about them that
TLAPS proves for every value of the constants.

    tlc -workers 2 -config Lifecycle.cfg Lifecycle    # check one run
    tlapm Lifecycle_proofs.tla                        # check one module's proofs

`PROJECT.json` lists the runs, the source lines behind each definition (`map`),
the hazards with the properties that watch them, the findings, the theorems,
and for every property a plausible bug (`mutants`) that makes TLC refute it.
Definitions named `...OffByOne`, `...Twice`, `...AtOnce` and so on, which stand
beside the action they distort, are those bugs; no `Next` uses them.

## 1. Inventory

Paths are relative to `src/`.

| Component | Source | State | Operations | Status |
|---|---|---|---|---|
| Rate limiter | `internal/detector/ratelimit.go` | a bucket (count, end of window) per host | `Allow`, `Remaining`, `Reset`, cleanup goroutine | modelled |
| Policy engine | `internal/policy/engine.go` | parsed modules, prepared query | `LoadPolicy`, `Evaluate` | modelled |
| Policy loading, hot reload | `internal/proxy/proxy.go`, `internal/policy/loader.go` | recorded modification times | `LoadPolicies`, `LoadPoliciesFromDir`, `watchPolicies` | modelled |
| Request pipeline | `internal/proxy/intercept.go` | one `AuditEvent` per request | `handleHTTP`, `writeDenyResponse`, `forwardToUpstream` | modelled |
| Lifecycle | `cmd/ghostguard/main.go`, `internal/proxy/proxy.go` | `stopCh`, context, `errCh`, two servers | `cmdServe`, `StartContext`, `Shutdown` | modelled |
| Dashboard | `internal/dashboard/dashboard.go` | counters, one channel per open page, two locks | `RecordEvent`, `GetMetrics`, `handleSSE`, the page's script | partly |
| Configuration, routing | `proxy.go`, `main.go`, `dashboard.go` | the configuration | `LoadConfig`, `MergeConfig`, `New`, `ServeHTTP`, `forwardToUpstream` | modelled |
| Tool call extraction | `intercept.go` | none | `isAIEndpoint`, `extractToolCalls`, parsers | partly |
| CONNECT tunnel | `intercept.go` | two copying goroutines | `handleConnect`, `tunnel` | modelled |
| Audit log | `internal/audit/logger.go` | an encoder on a file, behind a mutex | `LogDecision`, `LogEvent`, `LogMessage` | modelled |
| Alerting | `internal/alert/*.go` | list of sinks | `AlertDecision`, `AlertAnomaly` | partly |
| Anomaly detector | `internal/detector/{detector,window,baseline,entropy}.go` | window of calls, rate baseline, known and previous tools | `Analyze` | partly |
| MCP server | `internal/mcp/server.go` | an engine, stdin and stdout | `RunMCPFromMain`, `Serve`, `handleRequest` | partly |
| Baseline persistence | `internal/detector/persist.go` | a file | `load` (at start), `Save` (no caller) | partly |
| Certificates, TLS interception | `internal/proxy/tls.go` | certificate cache | serve `mitmHTTPS`, which has no caller | not modelled |
| Policy commands | `main.go` | none | `policy test`, `policy lint`, `config init` | not modelled |
| Data model | `internal/model/event.go` | none | constructors | not modelled |

**How they interact.** `net/http` runs `handleHTTP` in a goroutine for every
request. It calls, in this order and waiting for each: the limiter, for every
tool call the engine, the audit log, the alerts, and the detector, then the
upstream, the audit log and the dashboard. Each of them has its own lock or
none, and nothing spans two of them. Meanwhile the watcher goroutine polls the
policy directory and replaces the engine's query under the handlers, the
limiter's cleanup goroutine removes buckets, event-stream handlers and metrics
handlers serve the dashboard's pages, and the signal goroutine shuts all of it
down while main does the same. The MCP server is a separate program mode: a
loop over stdin that starts a goroutine per request, all writing to stdout. A
`CONNECT` leaves `net/http`: its handler takes the connection over and starts two
goroutines that copy. An agent meets the proxy once per answer of its model: it
runs the tools an answer asks for, and the calls come to the proxy inside the
next request, which carries the whole conversation.

**What is hard here.** Interleavings of handlers with reloads, cleanup,
dashboard pages and shutdown; a value read in one locked step and used in a
later one (detector, watcher); partial failure of a load that leaves the module
but not the query; time windows; locks taken one inside the other; a shutdown
that waits for connections; a program that ends while goroutines are at work;
half-closed connections and bytes that arrive while one changes hands; a disk
that fills up, a restart on the same log file; settings that have three sources.

**What makes each part correct.**

* *Limiter*: a bounded number of calls in any interval; `Remaining` promises
  nothing `Allow` would refuse; when cleanup runs makes no difference.
* *Engine and reload*: a file counted as up to date is the one enforced; a bad
  edit takes nothing out of force; a directory that loads is enforced in the end.
* *Pipeline*: nothing denied is delivered, no refusal without a policy behind
  it, everything on record before it has an effect as long as the log can be
  written, every request answered.
* *Lifecycle*: status 0 cuts nobody off, an orderly stop is not an error, the
  process ends.
* *Dashboard*: snapshots are consistent, pages see events in order and never
  ahead of the counters, recording never waits for a page, channels are freed.
* *Detector*: no tool becomes known in silence, sequences are matched against
  exactly the tools recorded last, rates are judged by a real baseline.
* *MCP server*: verdicts are those of the directory, one answer per request.
* *Configuration*: a flag outranks the file and the file the defaults; nothing
  else decides, and what cannot run ends the process.
* *Extraction*: all calls of a conversation are seen, or none, and which of the
  two can be told from the client; a watched conversation never gets more than
  one answer ahead of its policies.
* *Tunnel*: each direction is a stream without holes, nothing under way is cut
  off by the other direction's end, and it is closed when both have ended.
* *Audit log, alerts*: the log has no holes, whatever the disk and earlier runs have
  left in the file, and every sink is told.

## 2. Modules

| Module | What it is |
|---|---|
| `FixedWindow` | abstract limiter: a budget per window, windows forgotten when they end |
| `RateLimiter` | `ratelimit.go`; implements `FixedWindow` (`ImplementsFixedWindow`) |
| `PolicyEngine` | `engine.go`: loading a module, deciding a call; extended by the next four |
| `PolicyReload`, `MCPolicyReload` | startup loading and the watcher, over an edited directory |
| `PolicyReload_proofs` | theorems about it |
| `Gate` | abstract pipeline: each call judged at one moment, then passed, blocked or dropped |
| `Interceptor`, `MCInterceptor` | `handleHTTP` under reloads; implements `Gate` (`ImplementsGate`) |
| `Interceptor_proofs` | theorems about it |
| `Lifecycle`, `Lifecycle_proofs` | start, serve, signal, shutdown, and theorems |
| `Config` | what the process makes of its file and its flags: operators |
| `ToolCalls` | which calls are found in which body: operators |
| `Tunnel` | `handleConnect` and `tunnel`, with `net/http`'s buffer and the two peers |
| `FrontDoor`, `MCFrontDoor` | start, routing, extraction, forwarding, with a client in conversation; extends the three above |
| `FrontDoor_proofs` | theorems about it and `Tunnel`, and lemmas about `FlattenSeq` |
| `Reporting`, `MCReporting` | audit log and alerts under failing sinks, a full disk and restarts |
| `Reporting_proofs` | theorems about it |
| `Dashboard`, `Dashboard_proofs` | counters, event stream, page, and theorems |
| `Detector`, `MCDetector` | `Analyze`, interleaved |
| `DetectorPackage_proofs` | theorems about both parts of the package: `RateLimiter` and `Detector` |
| `MCPServer`, `MCMCPServer` | loading and serving on stdin and stdout; extends `PolicyEngine` |
| `MCPServer_proofs` | theorems about it |

### State and actions against the code

**RateLimiter.** `windows[k]` is the bucket of host `k` (`NoBucket`: not in the
map), `now` a discrete clock, `tickDue` a cleanup tick that has fired and not
been served yet, `grants` a history of the times of granted calls. `Allow` is
one action per branch, each under the mutex as in the code: `OpenWindow`
(the first call of a window, granted whatever the limit), `CountCall`,
`RefuseCall`. `Cleanup` serves a tick at any later time.

**PolicyEngine.** `modules` are the parsed modules (`e.modules`), `prepared`
those in the query in force. A source is abstracted to what the engine can tell
of it: does it parse, does it compile, does it declare a default (two defaults
do not compile together), and which tools its `deny`, `log` and `allow` rules
hold for. `LoadPolicy` has the three outcomes of the code: a syntax error
changes nothing; a module that parses stays in `modules` even when the
combination is refused; otherwise the query is replaced. `Decide` asks deny,
log and allow in this order; `Panics` is the evaluation of the zero query.
Rules are boolean. `Evaluate` skips a rule whose value is a set, and no policy
of the repository has one.

**PolicyReload.** One action per system call, so that an edit can come between
any two: `ListDir`, `ReadPolicy`, `LoadNext` at startup, `ListBaseline` and
`StatBaseline` for the first modification times, then per scan `StartScan`,
`StatFile`, `Reload` and `Prune`. `WriteFile` and `RemoveFile` are somebody
editing. Every write has a later modification time than those before; a file
restored with an old one is missed by the code and is outside the model.

**Interceptor.** `pc[r]` names the call the handler of `r` makes next. `Arrive`,
`ReadBody`, `Admit` (limiter), `Evaluate`, `LogDecision`, `AlertDecision`,
`WriteDenyResponse`, `Analyze`, `Forward`, `Await`, `LogEvent`, `RecordEvent`
and `Respond` follow the handler's order and early returns; `Reload` is the
watcher's `LoadPolicy`, `WindowOver` the end of a limiter window. `inForce` is
the history of queries, `arrived[r]` the index of the one at `r`'s arrival. The
engine copies and replaces its query without a lock; a torn copy is taken to be
the old or the new one. Tool calls come with the request: extraction is left out.
`broken` says that the log's encoder has met an error, after which it writes nothing;
every step that gives the log an entry (`WriteLog`) may find it so, and goes on all
the same. `logged` and `events` count what is in the log, not the calls of the logger.

**Config.** A configuration is a function from setting names to values. A file
is one of absent, unreadable, malformed, or some settings; `LoadConfig` lays
these over `DefaultConfig`, `Overrides` is what `cmdServe` makes of its flags,
`MergeConfig` takes an override that is not the zero value of its type.
`NewFails` and `TickerPanics` are the two ways in which a configuration ends the
process, one at once and one in a goroutine.

**ToolCalls.** Paths and hosts are strings, the code's tests for substrings sets
of strings that pass. A body is what the parsers tell apart: calls at the top,
messages with calls and with plain text or blocks, contents with parts, or
nothing that can be parsed. `ExtractToolCalls` concatenates what the parsers find.

**Tunnel.** `stage` is how far `handleConnect` and `tunnel` have come, `copier[e]`
the goroutine that copies from end `e`, `held[e]` the unit it holds. `buffered`
units came along with the request, `lost` counts those `net/http` has read,
which `handleConnect` throws away; `BackgroundRead` takes one more at any time
before `Hijack`. A peer sends, reads, stops sending (`half`), closes (`gone`) or
breaks off (`reset`); a write to one that has gone vanishes first and fails later.

**FrontDoor.** `Start` is `cmdServe` up to the listening proxy; `Ask` a client's
request; `ServePage`, `Connect` and `Extract` the routes of `ServeHTTP`; `Judge`
stands for the pipeline (`Interceptor`) with a fixed set of denied tools;
`Return`, `Deliver` and `Fail` are what comes of `forwardToUpstream`: the URL it
builds (`UpstreamURL`) may lead to a model, to somebody else, or back to the
proxy. `history` is the conversation; `Run` are the tools the agent has run.

**Reporting.** `file` is the log, over all runs of the process, in chunks: whole lines
or the beginning of one. `start[n]` is its length when run `n` opened it; `asked[n]` is
the history of what that run gave to the encoder; `dead` says that the encoder has met
an error, which it returns ever after. `Encode` is one call of the logger, with the
full disk as an outcome: nothing or half a line is written. `Startup` is
the start of the process, whose first message precedes every request. `Reject`, `Abort`,
`LogDecision`, `Remark` ("would deny"), `Forward`, `UpstreamFails`, `LogEvent` and
`Respond` are the handler, with each of its early ends: 400 and 429, a panic, 403,
502 and 500. `Tell` is one sink's turn in the loop of `Alert`, whatever comes of it.
`Restart` kills the process and opens the same file again.

**Lifecycle.** `main` and `sig` are the places of the two goroutines, `at[c]`
how far the `Shutdown` called by `c` has come, `server`, `serving` and `conn`
the two `http.Server`s with their goroutines and connections. `CloseStopCh` is
`sync.Once`; `CloseDash` and `CloseProxy` close a listener, and
`ShutdownReturns` waits as `http.Server.Shutdown` does for active connections,
not for hijacked ones. `Select` picks either ready branch. The end of main, or
`log.Fatalf`, ends every goroutine.

**Dashboard.** Both `sync.RWMutex`es are explicit (a writer announces itself,
which keeps new readers out, and enters when readers have left). `RecordEvent`
is `LockMetrics`, `CountTotals`, `CountDecisions`, `LockClients`, `Send` per
client, `Recorded`; the event stream is `Open`, `LockForUpdate`, `Add`,
`Receive`, `Write`, `Done`, `Delete`; a snapshot is `LockSnapshot`, `CopyMaps`,
`CopyTotals`, `Update`. `Fetch` is the page's reaction to an event.

**Detector.** The steps of `Analyze` are actions because each takes its own
lock: `Record`, `Update`, `ReadStd`, `ReadMean` (without a lock), `CheckRate`,
`ReadKnown`, `CheckUnknown`, `CheckSequence`, `RecordTool`. Welford's count,
mean and m2 are kept as the equivalent count, sum and sum of squares, and
`Exceeds` compares z-scores exactly, in integers. `LoadBaseline` is the start:
no file or one more than a day old is no baseline, and the error of a broken one
is thrown away. `learned`, `heard`, `looked` and `at` (the interval in which a call
counted itself) are histories. `DetectorSpec`,
`DetectorTypeOK` and the like carry the detector's name so that one module can extend
both parts of the package.

**MCPServer.** `LoadNext` takes the files in any order (a Go map) and throws
errors away; `ScanLine`, `ScanEnds`, `Handle` and `Respond` are the scanner and
the goroutine of each line; `SendLine` and `CloseInput` are the client. A line
written to `os.Stdout` is atomic. A request without an id, as a notification is, is
answered like any other, with the id null (`IdOf`), as a line is that could not be
parsed.

## 3. Runs

Passing runs:

| Run | Bounds | Shows |
|---|---|---|
| `rate_limiter` | 2 hosts, limits 0 to 2, windows of 2 ticks, clock to 6 | `TwoWindowBound`: 2 * Budget grants of a host span more than an interval. `ImplementsFixedWindow`: late cleanup is invisible |
| `policy_reload` | 2 files, 4 sources, 3 edits | `UpToDateIsEnforced`, `NothingUnloads`, `Converges` |
| `interceptor` | 2 requests with no or two tool calls, 3 sources, budget 1, 2 reloads | `ClearedByPolicy`, `RecordedBeforeOutcome`, `LearnsOnlyCleared`, `Answered`, `ImplementsGate` |
| `lifecycle` | 2 requests, 2 pages | `GracefulExit`, `FatalOnlyOnFailure`, `Ends` |
| `dashboard` | 3 events, 1 page, channel of 2 | `SnapshotAddsUp`, `ShownIsCounted`, `FeedInOrder`, `RecordsFinish`, `LeavesMap` |
| `detector` | 3 calls of 2 tools, 2 remembered tools, 1 change of interval, no baseline file and three of them, a quiet one among them | `UnknownToolsReported`, `SequencesReported`, `HighRateIsRepeated` |
| `mcp_server` | 2 files over 4 sources or absent, 5 lines of different kinds, one of them a request without an id | `VerdictsMatchDirectory`, `OneAnswerEach`, `AnswersCome` |
| `front_door` | 9 files by 4 sets of flags, 18 clients by 4 files, conversations of 5 messages, a tunnel of 2 units each way and room for 1 | `StartsAsTold`, `EveryCallSeen`, `OneAnswerAhead`, `StreamsIntact`, `TunnelEnds` |
| `reporting` | 2 requests with no call, one denied, or one allowed and one denied; a dry run or not; 1 to 3 sinks; 2 runs of the process | `LogHasNoHoles`, `EverySinkTold` |

Each of them checks `TypeOK` as well (`DetectorTypeOK` in the run of `Detector`). It says more than types where the code
could crash: in `Lifecycle` that `stopCh` is closed once, in `Dashboard` that
what `RecordEvent`'s loop has still to serve is in the map, in `FrontDoor` that a
request which names the proxy itself comes back to it once at most.

**Why these bounds are enough.** Two hosts show that buckets do not disturb one
another, two ticks of window let calls fall on its start, middle and end, and
six ticks hold three windows, which open at 0, 3 and 6 at the earliest. Limits 0 and 1
are the ones where the granted first call matters, 2 the one where a stretch can begin
in the middle of a window. Two files are the fewest that can compile alone and not
together; three edits make one file good, bad and good again, or break and
mend the combination. One watcher runs, and the edits come at every one of its
system calls. Two requests compete for a budget of one; a call list of two has
a call denied after one that was let through; two reloads let a policy change
and change back within a request. Two pages and two requests have one leave
while the other stays. Three events overflow a channel of two with its first
two kept. Two pages that share nothing but the locks were also explored by hand
for safety (2 events, channel of 1: 3.6 million states). Two remembered tools
of three recorded ones reach the trimming, and a baseline of four samples
crosses the `> 5` from which the detector reports unknown tools
(`internal/detector/detector.go:136`); the quiet one has the ten samples that
`checkRate` asks for and a mean near one, so that the second call of a tool in an
interval is reported as a high rate and the first never is. The files and flags of `front_door` give every setting that
behaves in a way of its own at least one positive, zero and absent value; five
messages are a conversation that is resumed, goes on, and meets the answer to
its answer; two units and room for one let a copier wait for a peer that does
not read. Two calls, two requests and two runs let an entry be cut off between
two others, of the same request, of another one, and of the next run; the two requests
of `reporting` are interchangeable, and its run uses that as a symmetry, which is sound
since it checks invariants only. The five lines of `mcp_server` leave out blank ones,
which are skipped, and keep a test, an error with an id and one without, a line that
cannot be parsed and one that ends the loop.

Runs that TLC refutes, each a statement of the repository against its code:

| Run | Property | What it shows |
|---|---|---|
| `policy_removed` | `RemovedIsUnenforced` | `policy removed: %s` (`proxy.go:314`): only the modification time is dropped, the engine enforces the policy until the process ends |
| `interceptor_denied` | `DeniedCounted` | "denied/allowed counts" (`README.md:140`): an enforced denial returns before `LogEvent` and `RecordEvent`, so it is in no count |
| `base_url` | `BaseURLIsJudged` | `base_url="http://localhost:8888"` with "DENY → 403" (`README.md:43-46`): such a client posts to `/chat/completions`, which `isAIEndpoint` (`intercept.go:175-186`) does not know at that host, so nothing is judged |

Observations that have no run:

* A window starts with a call and is forgotten at its end, so almost twice the "max
  calls per minute" of `README.md:94` can fall in one minute. `TwoWindowBound` has no
  slack: with a limit of 2 the run of `RateLimiter` reaches calls granted at 0, 1, 3
  and 3, of which the last `2 * Budget - 1` fall within one window of 2 ticks. In the
  long run it is one budget per interval (`LongRunBoundHolds`).
* `checkRate` adds the count to the baseline before it judges it by that baseline
  (`detector.go:83`), so that a count far above the "3σ" of `README.md:132` can hide
  itself.
* `Shutdown` waits without a deadline for the dashboard first (`proxy.go:234`): while
  one page's event stream is open the proxy goes on accepting requests after
  `shutting down...` (`main.go:143`). `Ends` therefore assumes that pages close.
* Calls are judged in the request after the one whose answer asked for them, when
  the agent has run them: `OneAnswerAhead` is the most that can be said.
* A `CONNECT` tunnel is opaque. An agent that uses the proxy for `https` has nothing
  judged; `mitmHTTPS`, which would change that, has no caller.
* With a base URL every request goes to `target_hosts[0]`, so Anthropic and Gemini
  clients reach OpenAI unless the file says otherwise.
* `README.md:89-91` gives defaults of 8888, 9999 and `./policies`; `DefaultConfig` has
  8081, 9090 and no policy directory, with which loading fails with a warning and
  the first call to be judged panics. `--dash-port ""` cannot disable the dashboard.
* `baseline_path` at the top of the file reaches nothing; the detector reads the one
  under `detector`.
* The dashboard looks up `/ghostguard/health` with its prefix and answers 404, which
  `docker-compose.yml` asks for as its health check.
* The README's policy example asks for `input.name`; `Evaluate` passes `tool_name`.
* After a restart the first entry of the audit log is written behind a line that was
  cut off, if there is one, and cannot be read. It is a message of the start, never
  a decision or an event (`RunIsReadable`).
* Once the audit log cannot be written the handlers go on (`intercept.go:68-70`,
  `113-115`), so that calls are delivered of which there is no record until the process
  is started again; the error is logged to the same encoder. Hence the
  "or `broken`" of `RecordedBeforeOutcome`.
* The MCP server answers notifications, which JSON-RPC does not: with the id null, and
  `notifications/initialized` with "Method not found" (`server.go:107-109`).
* `ghostguard_status` and the dashboard's policy count use `len(e.modules)`, which
  includes modules the compiler refused.
* A page shows "Connecting..." until the first event, because the stream's headers
  are not flushed before it.

### Fairness

* A goroutine that can run does: `WF` of the steps of a handler, of the watcher
  (its ticker keeps firing), of main, the signal goroutine and each `Shutdown`.
* A request ends: bodies are read under a `ReadTimeout` of 60 seconds
  (`proxy.go:169`), an upstream is given up after 120 seconds, an alert sink
  after ten. Hence `WF` of the steps of `Interceptor` and of `Finish` in
  `Lifecycle`. A tunnel need never end.
* A dashboard page need not read: its server has no write timeout. Only the
  `Write` to a page that has gone away is fair, because the connection fails.
* The goroutines of a tunnel run when they can: `WF` of each direction's reads and
  writes, of dialling and takeover, and of the closing. No peer has to send, read
  or close, so `TunnelEnds` speaks of tunnels whose peers both have, and exempts one
  that holds its end without reading.
* Nobody has to close a page, send a signal, edit a file or send a line to the
  MCP server: no fairness there. `LeavingSpec` adds that pages are closed, and is
  used for the `lifecycle` run.
* `Converges` assumes that the directory becomes loadable and stays so, and
  exempts files written during the startup window before the watcher has its
  first modification times (`missed`), a window the code really has.

Deadlock checking is off where the system may stop or the bounds exhaust the
environment; the clock of `RateLimiter` lets `Remaining` and `Reset` go on, and
deadlock is checked there.

## 4. Proofs

Everything in this section holds for all values of the constants that satisfy
the named assumptions of the modules (`RateLimiterAssumption` and so on; `Lifecycle`
has none): any hosts, limits, requests, events, pages, tools, policies, edits,
conversations, streams and numbers of reloads and restarts. The assumptions say
what kind of value a constant is, that a limit is positive where the code has a
constant, that the value for "none" is no event and no page (`DashboardAssumption`),
the value for "no id" no line (`MCPServerAssumption`), that the samples of a saved
baseline are at least one (`DetectorAssumption`), and that a policy source
is not the record for an absent one (`PolicyEngineAssumption`).

Each module states its inductive invariant first (`IInv`; for the package of the
detector, `History` and `DetectorInv`). TLC has checked it on the
instance of the component's run before it was proved. `Inductive` is the theorem that
it always holds, from one lemma per action (`...Keeps`); the others follow from it.

* **`DetectorPackage_proofs`**, the limiter: `TypeCorrect`, `HistoryCorrect`,
  `TwoWindowBoundHolds`, `LongRunBoundHolds`, `RemainingSafe` (`Remaining` never
  promises more than `Allow` would grant), `RefinesFixedWindow`. `TwoWindowBound` is
  not inductive: it speaks of the times of grants, and says nothing of how they relate
  to the open bucket. `History` ties them together: the last `count` grants are those
  of the open window, the window closes one interval after the first of them,
  and whatever lies `Budget` grants or more before the opening of the latest
  window was granted more than an interval before that opening. `LongRunBound` is the
  bound over any number of intervals: `(n + 1) * Budget` grants of a host take more
  than `n` of them, so that the budget is the rate in the long run, whatever two
  adjoining windows may let through together. Its invariant `FarBack` says of `m`
  budgets and `m` intervals what `History` says of one; a window that opens adds its
  own interval to those of the windows before it.
* **`DetectorPackage_proofs`**, the detector: `DetectorInductive`,
  `DetectorTypeCorrect`, `UnknownToolsAreReported`, `SequencesAreReported`,
  `HighRatesAreRepeated`, for any calls, tools, length of the memory, threshold and
  saved baselines. None of the three properties is inductive. `Baselines` says that the
  sum of a baseline, and of the copy a call has read without the lock, is never below
  its count: every sample is at least one, since a call counts itself before it updates
  the baseline, and so are those of a saved baseline (`DetectorAssumption`; the program
  that saved it took its samples in the same way). `Learning` says what a call may
  still rely on of what it has seen: a tool once known stays known, and the calls
  recorded when it began are over, so that their tools are. `Stages` places what a call
  has reported and looked at by the step it has come to, and `Counting` finds the other
  call behind a count of two or more: a window that is not empty has counted a call of
  its own tool in this very interval.
* **`Interceptor_proofs`**: `Inductive`, `TypeCorrect`,
  `NothingDeniedIsDelivered`, `RefusalsAreJustified`, `RecordComesFirst`,
  `LearningIsSafe`, `RefinesGate`. The invariant says at every stage how many
  calls have been judged (`StageOf`), what of a request is in the log as long as the
  log can be written (`LogOf`), that each decision is that of a query in force since
  the request's arrival (`JudgedOf`), and that the last entry of the history is the
  query in force (`CurrentQuery`).
  `ClearedByPolicy` needs all but `LogOf`: it speaks of delivery, which comes many
  steps and possibly many reloads after the judgement. `RecordedBeforeOutcome` follows
  from `LogOf`, which every step keeps that may find the log broken.
* **`Lifecycle_proofs`**: `Inductive`, `TypeCorrect`, `ExitIsGraceful`,
  `FatalIsJustified`. `GracefulExit` needs to know at the end what every
  earlier stage of a `Shutdown` left true: `ServersAgree`, `ShutdownSoFar`,
  `WhoClosed`, `AfterCancel` and `Outcome` are these facts, with who may have
  closed the proxy's server and where main can be after the cancellation.

* **`PolicyReload_proofs`**: `Inductive`, `TypeCorrect`, `UpToDateEnforced`,
  `NothingIsUnloaded`. That a file taken for up to date is enforced is not inductive:
  a load of another file prepares the query from `e.modules`, where a refused
  load may have left anything. `Enforced` says that the module of such a file is the
  directory's too, which holds because a time is recorded only after a load that succeeded. `Reloading`
  relates the time taken from an entry to the file read after it (the file is no
  older), and `Startup` what has been read to what has been loaded. Later writes have
  later times, for any number of edits; this is what the watcher relies on.
* **`Dashboard_proofs`**: `Inductive`, `TypeCorrect`, `SnapshotsAddUp`,
  `ShownAreCounted`, `FeedsInOrder`, `NobodyWaitsInACircle`. `Locking` says who holds which of the two locks at
  every step of a record, a stream and a fetch. From it follows that nobody reads the
  counters while a record is between its two halves (`Counting`, `Snapshots`).
  `Feed` and `Kept` order what a page was shown, what is being written to it and what
  waits in its channel along the order of counting, and say that the channel has
  dropped nothing among the first `Capacity` offers. `NoCircularWait` is the safety
  half of `RecordsFinish` and follows from `Locking` alone: `RecordEvent` takes one
  mutex inside the other, and whoever it waits for can go on without a page.
* **`FrontDoor_proofs`**: `Inductive`, `TypeCorrect`, `StartsTold`, `EveryCallIsSeen`,
  `OneAnswer`, and `StreamsAreIntact` for the tunnel. `TunnelInv` divides what an
  end has sent into what was lost with `net/http`'s buffer, what was written, what the
  copier holds and what waits. `Talk` says what a conversation looks like, from
  which the parsers' lemmas conclude what they find; `Returned` bounds the requests
  that come back to the proxy; `Judged` carries the verdict to the moment at which the
  answer makes the conversation longer.
* **`MCPServer_proofs`**: `Inductive`, `TypeCorrect`, `VerdictsAreTheDirectorys`,
  `AnsweredOnce`. `Loading` says what the engine holds in the middle of its loop, in any
  order: if the policies that parse compile together, then so do the ones loaded so
  far, and none is refused. `Handling` carries a decision from the engine to the
  output; `Scanned` and `Responded` place every line once, in standard input, in a
  goroutine or in the output, and `Refused` counts the answers without an id, which are
  told apart by their number only, against the lines that were not parsed and the
  handled requests that have none (`Unnamed`).
* **`Reporting_proofs`**: `Inductive`, `TypeCorrect`, `LogIsABeginning`,
  `SinksAreTold`. `InOrder` is the encoder's promise for the run under way and for those
  before (`Part`, `Alive`): what a run finds in the file stays there, what it has added
  is a beginning of what it was asked for, and while the encoder lives all of it.
  `Kept` says which entries of a request are in the log at each stage; that they can be
  read needs the message of the start before them (`GoesOnWith`). The loops over
  calls and sinks have their own conjuncts.

**How data of any length is handled.** The library's induction theorems take a
predicate as a parameter, which the provers cannot instantiate. `FrontDoor_proofs`
states induction over the numbers for a set instead (`NatSetInduction`, from the
theorem that `<` is well-founded) and with it shows that the recursive function in
`FlattenSeq` exists (`FlattensExists`) and what it computes. Operators that take an
operator (`SelectSeq`) and `@@` of module `TLC` are beyond the provers; the modules
proved about do without them. So `LoadConfig` is a function over `Settings`, `Named`
uses `FlattenSeq`.

**Model-checked only.** Liveness under fairness (`Converges`, `Answered`,
`Ends`, `RecordsFinish`, `LeavesMap`, `AnswersCome`, `TunnelEnds`) is out of the prover's
reach, as is `ENABLED`. Every safety and action property, and every refinement, that
the passing runs check is a theorem. `RemainingSafe`, `LongRunBoundHolds`,
`RefusalsAreJustified` and `NobodyWaitsInACircle` are proved, and no run repeats them.

## 5. Assumptions and what is not modelled

* `http.Server`, `sync.RWMutex`, channels and OPA are given by their contracts.
* Time is a clock in `RateLimiter`, a count of intervals in `Detector`, and
  nowhere else: a timeout is an outcome that may come. The server's write
  timeout of 120 seconds against the upstream's (`proxy.go:170`) is not covered.
* A page has one fetch of the metrics under way. With several, the one that
  answers last is shown, which may be the older; the next event corrects it.
* `FrontDoor` assumes that the proxy's own environment names no proxy
  (`HTTP_PROXY`), that one request of a conversation is under way at a time, and that
  a connection can be hijacked, as those of HTTP/1 can.
* `Reporting` has one anomaly per call where the code may find four, one after the
  other, and one of the messages of the start; it does not follow an alert out of
  the process. The messages of the watcher and of the dashboard's goroutine are left
  out: they are entries like the others, in between them.
* A file restored with an old or equal modification time is not loaded
  (`proxy.go:296`); `PolicyReload` has later writes with later times only.
* Left out as pure I/O or data: what alert sinks send, the policy commands, texts
  and formats, `extractToolResults` (only logged), the data model. `internal/proxy/tls.go` serves
  `mitmHTTPS`, which nothing calls; cryptography is out of reach in any case.
  `Save` of the baseline and `LogAlert` have no callers.
* In the modelled parts: the detector's entropy check (no state), the
  Prometheus text (`GetMetrics` again), `RegisterHandler` of the MCP server (no
  caller).

## 6. Plan

Written, in this order: `RateLimiter` with `FixedWindow` and its proofs,
`PolicyEngine`, `PolicyReload`, `Interceptor` with `Gate` and its proofs,
`Lifecycle` and its proofs, `Dashboard`, `MCPServer`, `Detector`, `Config`,
`ToolCalls`, `Tunnel`, `FrontDoor`, `Reporting`.

All of them have their proofs; those of `Detector` share a module with the limiter's.

Next: `CertManager`'s cache, if `mitmHTTPS` gets a caller; saving the baseline, if
`Save` does.
