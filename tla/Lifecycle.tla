----------------------------- MODULE Lifecycle -----------------------------
(***************************************************************************)
(* Starting, serving and shutting down: cmdServe (cmd/ghostguard/main.go)  *)
(* with StartContext and Shutdown (internal/proxy/proxy.go).               *)
(*                                                                         *)
(* Four goroutines run it: main, the one that waits for a signal, and one  *)
(* that serves each of the two servers.  Main and the signal goroutine     *)
(* both call Shutdown, at the same time.  http.Server is modelled by its   *)
(* contract: Shutdown closes the listener at once and then waits, with     *)
(* context.Background() for as long as it takes, until no connection is    *)
(* active; Serve returns ErrServerClosed from then on.                     *)
(***************************************************************************)
EXTENDS Naturals, FiniteSets

CONSTANTS
  Requests,  \* the requests that may reach the proxy
  Pages      \* the browser pages that may open the dashboard's event stream

VARIABLES
  hasDash,   \* is there a p.dashServer?
  main,      \* where the main goroutine is
  sig,       \* where the signal goroutine is
  at,        \* at[c]: how far the Shutdown called by c has come
  stopCh,    \* is p.stopCh closed?
  watching,  \* is the watcher goroutine running?
  cancelled, \* is the context cancelled?
  errCh,     \* has the serving goroutine sent to errCh?
  server,    \* server[s]: "new", "open" while it accepts, then "closed"
  serving,   \* serving[s]: the goroutine that serves s
  conn,      \* conn[x]: the connection of request or page x
  signalled, \* a signal has been delivered
  exit,      \* "none" while the process runs, then how it ended
  failed,    \* history: Listen or Accept failed on the proxy's port
  early      \* history: the context was cancelled before main blocked in select

vars == <<hasDash, main, sig, at, stopCh, watching, cancelled, errCh, server,
          serving, conn, signalled, exit, failed, early>>

Callers == {"main", "sig"}
Servers == {"dash", "proxy"}
ServerOf(x) == IF x \in Pages THEN "dash" ELSE "proxy"
Active(s) == {x \in Requests \cup Pages : conn[x] = "active" /\ ServerOf(x) = s}
Running == exit = "none"

\* cmdServe has created the proxy, loaded the policies and called signal.Notify.
Init ==
  /\ hasDash \in BOOLEAN
  /\ main = "start"
  /\ sig = "waiting"
  /\ at = [c \in Callers |-> "uncalled"]
  /\ stopCh = FALSE
  /\ watching \in BOOLEAN
  /\ cancelled = FALSE
  /\ errCh = FALSE
  /\ server = [s \in Servers |-> "new"]
  /\ serving = [s \in Servers |-> "unborn"]
  /\ conn = [x \in Requests \cup Pages |-> "none"]
  /\ signalled = FALSE
  /\ exit = "none"
  /\ failed = FALSE
  /\ early = FALSE

-----------------------------------------------------------------------------
(* Shutdown, called by c.                                                   *)

\* Mutant of CloseStopCh: close(p.stopCh) without stopOnce, which panics on a
\* channel that is closed.
CloseStopChTwice(c) ==
  /\ Running /\ at[c] = "called"
  /\ stopCh' = TRUE
  /\ exit' = IF stopCh THEN "panic" ELSE exit
  /\ at' = [at EXCEPT ![c] = "stopped"]
  /\ UNCHANGED <<hasDash, main, sig, watching, cancelled, errCh, server, serving,
                 conn, signalled, failed, early>>

\* p.stopOnce.Do: the second caller finds it done.
CloseStopCh(c) ==
  /\ Running /\ at[c] = "called"
  /\ stopCh' = TRUE
  /\ at' = [at EXCEPT ![c] = "stopped"]
  /\ UNCHANGED <<hasDash, main, sig, watching, cancelled, errCh, server, serving,
                 conn, signalled, exit, failed, early>>

\* p.dashServer.Shutdown(ctx), if there is one, is called ...
CloseDash(c) ==
  /\ Running /\ at[c] = "stopped"
  /\ server' = IF hasDash THEN [server EXCEPT !["dash"] = "closed"] ELSE server
  /\ at' = [at EXCEPT ![c] = "dash"]
  /\ UNCHANGED <<hasDash, main, sig, stopCh, watching, cancelled, errCh, serving,
                 conn, signalled, exit, failed, early>>

\* ... and returns when no stream is left; p.server.Shutdown(ctx) is called ...
CloseProxy(c) ==
  /\ Running /\ at[c] = "dash"
  /\ Active("dash") = {}
  /\ server' = [server EXCEPT !["proxy"] = "closed"]
  /\ at' = [at EXCEPT ![c] = "proxy"]
  /\ UNCHANGED <<hasDash, main, sig, stopCh, watching, cancelled, errCh, serving,
                 conn, signalled, exit, failed, early>>

\* Mutant of ShutdownReturns: the server is closed without waiting (Close).
ShutdownReturnsAtOnce(c) ==
  /\ Running /\ at[c] = "proxy"
  /\ at' = [at EXCEPT ![c] = "returned"]
  /\ UNCHANGED <<hasDash, main, sig, stopCh, watching, cancelled, errCh, server,
                 serving, conn, signalled, exit, failed, early>>

\* Mutant of ShutdownReturns: hijacked connections are waited for too.
ShutdownReturnsAfterTunnels(c) ==
  /\ Running /\ at[c] = "proxy"
  /\ \A r \in Requests : conn[r] \notin {"active", "tunnel"}
  /\ at' = [at EXCEPT ![c] = "returned"]
  /\ UNCHANGED <<hasDash, main, sig, stopCh, watching, cancelled, errCh, server,
                 serving, conn, signalled, exit, failed, early>>

\* ... and returns when no request is left.  Hijacked connections do not count.
ShutdownReturns(c) ==
  /\ Running /\ at[c] = "proxy"
  /\ Active("proxy") = {}
  /\ at' = [at EXCEPT ![c] = "returned"]
  /\ UNCHANGED <<hasDash, main, sig, stopCh, watching, cancelled, errCh, server,
                 serving, conn, signalled, exit, failed, early>>

Shutdown(c) == CloseStopCh(c) \/ CloseDash(c) \/ CloseProxy(c) \/ ShutdownReturns(c)

-----------------------------------------------------------------------------
(* The main goroutine: StartContext and what cmdServe does with its result. *)

\* The goroutine of the dashboard's server is started.
StartDash ==
  /\ Running /\ main = "start"
  /\ main' = "listen"
  /\ serving' = IF hasDash THEN [serving EXCEPT !["dash"] = "born"] ELSE serving
  /\ UNCHANGED <<hasDash, sig, at, stopCh, watching, cancelled, errCh, server, conn,
                 signalled, exit, failed, early>>

\* net.Listen, and the goroutine that serves; log.Fatalf when the port is taken.
Listen ==
  /\ Running /\ main = "listen"
  /\ \/ /\ main' = "select"
        /\ serving' = [serving EXCEPT !["proxy"] = "born"]
        /\ UNCHANGED <<exit, failed>>
     \/ /\ main' = "exited" /\ exit' = "fatal" /\ failed' = TRUE
        /\ UNCHANGED serving
  /\ UNCHANGED <<hasDash, sig, at, stopCh, watching, cancelled, errCh, server, conn,
                 signalled, early>>

\* The two ways out of the select.
TakeDone == main' = "shutdown" /\ at' = [at EXCEPT !["main"] = "called"]
TakeErr == main' = "error" /\ UNCHANGED at

\* Main comes to the select: it takes either channel that is ready, and blocks
\* when none is.
Select ==
  /\ Running /\ main = "select"
  /\ \/ cancelled /\ TakeDone
     \/ errCh /\ TakeErr
     \/ ~cancelled /\ ~errCh /\ main' = "blocked" /\ UNCHANGED at
  /\ UNCHANGED <<hasDash, sig, stopCh, watching, cancelled, errCh, server, serving,
                 conn, signalled, exit, failed, early>>

\* StartContext returns context.Canceled after its Shutdown, and main returns.
Return ==
  /\ Running /\ main = "shutdown" /\ at["main"] = "returned"
  /\ main' = "exited"
  /\ exit' = "ok"
  /\ UNCHANGED <<hasDash, sig, at, stopCh, watching, cancelled, errCh, server,
                 serving, conn, signalled, failed, early>>

\* StartContext returns what Serve returned, and log.Fatalf exits.
Fatal ==
  /\ Running /\ main = "error"
  /\ main' = "exited"
  /\ exit' = "fatal"
  /\ UNCHANGED <<hasDash, sig, at, stopCh, watching, cancelled, errCh, server,
                 serving, conn, signalled, failed, early>>

Main == StartDash \/ Listen \/ Select \/ Return \/ Fatal \/ Shutdown("main")

-----------------------------------------------------------------------------
(* The other goroutines.                                                    *)

\* SIGINT or SIGTERM.  Only the first is ever taken out of sigCh.
Signal ==
  /\ Running /\ ~signalled
  /\ signalled' = TRUE
  /\ UNCHANGED <<hasDash, main, sig, at, stopCh, watching, cancelled, errCh, server,
                 serving, conn, exit, failed, early>>

\* Mutant of HandleSignal: Shutdown is called without cancel() before it.
HandleSignalWithoutCancel ==
  /\ Running /\ sig = "waiting" /\ signalled
  /\ sig' = "shutdown"
  /\ at' = [at EXCEPT !["sig"] = "called"]
  /\ UNCHANGED <<hasDash, main, stopCh, watching, cancelled, errCh, server, serving,
                 conn, signalled, exit, failed, early>>

\* cancel(), which takes a blocked main out of its select, and then Shutdown.
HandleSignal ==
  /\ Running /\ sig = "waiting" /\ signalled
  /\ sig' = "shutdown"
  /\ cancelled' = TRUE
  /\ early' = (main # "blocked")
  /\ main' = IF main = "blocked" THEN "shutdown" ELSE main
  /\ at' = [c \in Callers |-> IF c = "sig" \/ main = "blocked" THEN "called" ELSE at[c]]
  /\ UNCHANGED <<hasDash, stopCh, watching, errCh, server, serving, conn, signalled,
                 exit, failed>>

\* errCh <- p.server.Serve(listener): a blocked main takes the error at once.
SendErr ==
  /\ errCh' = TRUE
  /\ serving' = [serving EXCEPT !["proxy"] = "over"]
  /\ main' = IF main = "blocked" THEN "error" ELSE main

\* Serve begins to accept, unless the server has been shut down before.
ServeProxy ==
  /\ Running /\ serving["proxy"] = "born"
  /\ IF server["proxy"] = "closed"
     THEN SendErr /\ UNCHANGED server
     ELSE /\ server' = [server EXCEPT !["proxy"] = "open"]
          /\ serving' = [serving EXCEPT !["proxy"] = "serving"]
          /\ UNCHANGED <<main, errCh>>
  /\ UNCHANGED <<hasDash, sig, at, stopCh, watching, cancelled, conn, signalled,
                 exit, failed, early>>

\* Serve returns: ErrServerClosed after Shutdown, or what Accept failed with;
\* either way nothing is accepted any more.
ServeReturns ==
  /\ Running /\ serving["proxy"] = "serving"
  /\ SendErr
  /\ failed' = (failed \/ server["proxy"] = "open")
  /\ server' = [server EXCEPT !["proxy"] = "closed"]
  /\ UNCHANGED <<hasDash, sig, at, stopCh, watching, cancelled, conn, signalled,
                 exit, early>>

\* The dashboard's ListenAndServe; its error is only logged.
ServeDash ==
  /\ Running /\ serving["dash"] = "born"
  /\ \/ /\ server["dash"] = "new"
        /\ server' = [server EXCEPT !["dash"] = "open"]
        /\ serving' = [serving EXCEPT !["dash"] = "serving"]
     \/ /\ serving' = [serving EXCEPT !["dash"] = "over"]
        /\ UNCHANGED server
  /\ UNCHANGED <<hasDash, main, sig, at, stopCh, watching, cancelled, errCh, conn,
                 signalled, exit, failed, early>>

\* The watcher meets the closed stopCh.
StopWatcher ==
  /\ Running /\ watching /\ stopCh
  /\ watching' = FALSE
  /\ UNCHANGED <<hasDash, main, sig, at, stopCh, cancelled, errCh, server, serving,
                 conn, signalled, exit, failed, early>>

-----------------------------------------------------------------------------
(* The connections.                                                         *)

Connect(x, from, to) ==
  /\ Running /\ conn[x] = from
  /\ conn' = [conn EXCEPT ![x] = to]
  /\ UNCHANGED <<hasDash, main, sig, at, stopCh, watching, cancelled, errCh, server,
                 serving, signalled, exit, failed, early>>

\* A server that is open accepts a request, or a page's event stream.
Accept(x) == server[ServerOf(x)] = "open" /\ Connect(x, "none", "active")

\* The handler of a request answers it.
Finish(r) == Connect(r, "active", "over")

\* handleConnect hijacks the connection, and the server forgets it.
Hijack(r) == Connect(r, "active", "tunnel")
CloseTunnel(r) == Connect(r, "tunnel", "over")

\* The event stream lasts until its page goes away.
Leave(p) == Connect(p, "active", "over")

Next ==
  \/ Main
  \/ Signal \/ HandleSignal \/ Shutdown("sig")
  \/ ServeProxy \/ ServeReturns \/ ServeDash \/ StopWatcher
  \/ \E x \in Requests \cup Pages : Accept(x)
  \/ \E r \in Requests : Finish(r) \/ Hijack(r) \/ CloseTunnel(r)
  \/ \E p \in Pages : Leave(p)

Spec == Init /\ [][Next]_vars

\* Goroutines that can run do, and a request is answered (Interceptor).
\* Nothing makes a page go away, or a signal come.
FairSpec ==
  /\ Spec
  /\ WF_vars(Main) /\ WF_vars(HandleSignal) /\ WF_vars(Shutdown("sig"))
  /\ WF_vars(ServeProxy)
  /\ WF_vars(ServeReturns /\ server["proxy"] = "closed")
  /\ \A r \in Requests : WF_vars(Finish(r))

\* The pages of the dashboard are closed sooner or later.
LeavingSpec == FairSpec /\ \A p \in Pages : WF_vars(Leave(p))

-----------------------------------------------------------------------------
(* Properties.                                                              *)

TypeOK ==
  /\ hasDash \in BOOLEAN /\ stopCh \in BOOLEAN /\ watching \in BOOLEAN
  /\ cancelled \in BOOLEAN /\ errCh \in BOOLEAN /\ signalled \in BOOLEAN
  /\ failed \in BOOLEAN /\ early \in BOOLEAN
  /\ main \in {"start", "listen", "select", "blocked", "shutdown", "error", "exited"}
  /\ sig \in {"waiting", "shutdown"}
  /\ at \in [Callers -> {"uncalled", "called", "stopped", "dash", "proxy", "returned"}]
  /\ server \in [Servers -> {"new", "open", "closed"}]
  /\ serving \in [Servers -> {"unborn", "born", "serving", "over"}]
  /\ conn \in [Requests \cup Pages -> {"none", "active", "tunnel", "over"}]
  /\ exit \in {"none", "ok", "fatal"}
  /\ main = "exited" <=> ~Running
  /\ ~hasDash => server["dash"] = "new" /\ Active("dash") = {}

\* A process that ends with status 0 cuts nobody off: every request it accepted
\* has its answer, or was handed over to a tunnel, and no event stream is open,
\* though two goroutines shut down at the same time and main may return before
\* the other is through (proxy.go:221-223, 229-237, main.go:141-146).
GracefulExit == exit = "ok" => Active("proxy") = {} /\ Active("dash") = {}

\* A signal makes a running proxy end with status 0: log.Fatalf with "Server
\* closed", which the shutdown itself provokes, is only met when the signal came
\* before main blocked in its select (proxy.go:220-226, main.go:141-160).
FatalOnlyOnFailure == exit = "fatal" => failed \/ early

\* Once a signal has come the process ends, if the dashboard's pages are closed.
Ends == signalled ~> exit # "none"
=============================================================================
