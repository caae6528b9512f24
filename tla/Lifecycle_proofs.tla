-------------------------- MODULE Lifecycle_proofs --------------------------
(***************************************************************************)
(* Proofs about Lifecycle, for any number of requests and pages.           *)
(*                                                                         *)
(* GracefulExit rests on what each stage of a Shutdown has made true and   *)
(* nothing can undo (ShutdownSoFar): a closed server accepts nothing, so   *)
(* that a connection count of zero stays zero.  FatalOnlyOnFailure rests   *)
(* on who can have closed the proxy's server (WhoClosed) and on where main *)
(* can be once the context is cancelled (AfterCancel).                     *)
(***************************************************************************)
EXTENDS Lifecycle, TLAPS

\* What each stage of a Shutdown has made true: the servers it has closed, and the
\* connections it has seen end.
ShutdownSoFar ==
  \A c \in Callers :
    /\ at[c] \in {"dash", "proxy", "returned"} /\ hasDash => server["dash"] = "closed"
    /\ at[c] \in {"proxy", "returned"} => server["proxy"] = "closed" /\ Active("dash") = {}
    /\ at[c] = "returned" => Active("proxy") = {}

\* Shutdown is only called once the context is cancelled, and only it, or a failure
\* of Accept, closes the proxy's server; Serve returns no sooner.
WhoClosed ==
  /\ \A c \in Callers : at[c] # "uncalled" => cancelled
  /\ server["proxy"] = "closed" => failed \/ cancelled
  /\ errCh => server["proxy"] = "closed"

\* Where main can be once the context is cancelled.
AfterCancel ==
  /\ cancelled => early \/ main \in {"shutdown", "exited"}
  /\ cancelled => main # "blocked"
  /\ main = "error" => failed \/ early

\* How the process can have ended.
Outcome ==
  /\ exit = "ok" => at["main"] = "returned"
  /\ exit = "fatal" => failed \/ early

\* What the goroutines that serve say of their servers.
ServersAgree ==
  /\ ~hasDash => serving["dash"] = "unborn"
  /\ serving["proxy"] = "serving" => server["proxy"] # "new"

IInv == TypeOK /\ ServersAgree /\ ShutdownSoFar /\ WhoClosed /\ AfterCancel /\ Outcome

\* A server that is not open accepts nothing, so its connections only get fewer.
LEMMA ClosedStaysEmpty ==
  ASSUME NEW s \in Servers, Active(s) = {}, server[s] # "open",
         conn \in [Requests \cup Pages -> {"none", "active", "tunnel", "over"}],
         \/ \E x \in Requests \cup Pages : Accept(x)
         \/ \E r \in Requests : Finish(r) \/ Hijack(r) \/ CloseTunnel(r)
         \/ \E p \in Pages : Leave(p)
  PROVE  Active(s)' = {}
<1> SUFFICES ASSUME NEW y \in Requests \cup Pages, conn'[y] = "active", ServerOf(y) = s
             PROVE  FALSE
  BY DEF Active, ServerOf
<1>1. conn[y] # "active"
  BY DEF Active
<1>2. PICK x \in Requests \cup Pages, from \in {"none", "active", "tunnel"},
           to \in {"active", "tunnel", "over"} :
        Connect(x, from, to) /\ (to = "active" => server[ServerOf(x)] = "open")
  <2>1. CASE \E x \in Requests \cup Pages : Accept(x)
    BY <2>1 DEF Accept
  <2>2. CASE \E r \in Requests : Finish(r) \/ Hijack(r) \/ CloseTunnel(r)
    BY <2>2 DEF Finish, Hijack, CloseTunnel
  <2>3. CASE \E p \in Pages : Leave(p)
    BY <2>3 DEF Leave
  <2> QED BY <2>1, <2>2, <2>3
<1>3. conn' = [conn EXCEPT ![x] = to]
  BY <1>2 DEF Connect
<1>4. y = x /\ to = "active"
  BY <1>1, <1>3
<1> QED BY <1>2, <1>4

\* The initial states satisfy the invariant.
THEOREM InitInv == Init => IInv
<1> SUFFICES ASSUME Init PROVE IInv
  OBVIOUS
<1>1. \A s : Active(s) = {}
  BY DEF Init, Active
<1>2. TypeOK
  BY <1>1 DEF Init, TypeOK, Callers, Servers, Running
<1>3. ServersAgree /\ ShutdownSoFar /\ WhoClosed /\ AfterCancel /\ Outcome
  BY DEF Init, ServersAgree, ShutdownSoFar, WhoClosed, AfterCancel, Outcome, Callers,
         Servers
<1> QED BY <1>2, <1>3 DEF IInv

\* A connection's step keeps it.
LEMMA ConnectionsInv ==
  ASSUME IInv,
         \/ \E x \in Requests \cup Pages : Accept(x)
         \/ \E r \in Requests : Finish(r) \/ Hijack(r) \/ CloseTunnel(r)
         \/ \E p \in Pages : Leave(p)
  PROVE  IInv'
<1> USE DEF IInv
<1>1. /\ Running
      /\ UNCHANGED <<hasDash, main, sig, at, stopCh, watching, cancelled, errCh, server,
                     serving, signalled, exit, failed, early>>
      /\ conn' \in [Requests \cup Pages -> {"none", "active", "tunnel", "over"}]
  BY DEF Accept, Finish, Hijack, CloseTunnel, Leave, Connect, TypeOK
<1>2. \A s \in Servers : Active(s) = {} /\ server[s] # "open" => Active(s)' = {}
  BY ClosedStaysEmpty DEF TypeOK
<1>3. TypeOK'
  BY <1>1, <1>2 DEF TypeOK, Servers, Running
<1>4. ShutdownSoFar'
  <2> SUFFICES ASSUME NEW c \in Callers
               PROVE /\ at[c] \in {"dash", "proxy", "returned"} /\ hasDash
                           => server["dash"] = "closed"
                     /\ at[c] \in {"proxy", "returned"}
                           => server["proxy"] = "closed" /\ Active("dash")' = {}
                     /\ at[c] = "returned" => Active("proxy")' = {}
    BY <1>1 DEF ShutdownSoFar
  <2>1. at[c] \in {"proxy", "returned"} => server["dash"] # "open"
    BY DEF ShutdownSoFar, TypeOK
  <2> QED BY <1>2, <2>1 DEF ShutdownSoFar, Servers
<1>5. ServersAgree' /\ WhoClosed' /\ AfterCancel' /\ Outcome'
  BY <1>1 DEF ServersAgree, WhoClosed, AfterCancel, Outcome
<1> QED BY <1>3, <1>4, <1>5

\* A step of a Shutdown keeps it.
LEMMA ShutdownInv == ASSUME IInv, NEW c \in Callers, Shutdown(c) PROVE IInv'
<1> USE DEF IInv, TypeOK, ServersAgree, ShutdownSoFar, WhoClosed, AfterCancel, Outcome,
            Callers, Servers, Active, ServerOf, Running
<1>1. CASE CloseStopCh(c)
  BY <1>1 DEF CloseStopCh
<1>2. CASE CloseDash(c)
  BY <1>2 DEF CloseDash
<1>3. CASE CloseProxy(c)
  BY <1>3 DEF CloseProxy
<1>4. CASE ShutdownReturns(c)
  BY <1>4 DEF ShutdownReturns
<1> QED BY <1>1, <1>2, <1>3, <1>4 DEF Shutdown

\* A step of the main goroutine keeps it.
LEMMA MainInv == ASSUME IInv, Main PROVE IInv'
<1> USE DEF IInv, TypeOK, ServersAgree, ShutdownSoFar, WhoClosed, AfterCancel, Outcome,
            Callers, Servers, Active, ServerOf, Running
<1>1. CASE StartDash
  BY <1>1 DEF StartDash
<1>2. CASE Listen
  BY ZenonT(60), <1>2 DEF Listen
<1>3. CASE Select
  BY <1>3 DEF Select, TakeDone, TakeErr
<1>4. CASE Return
  BY <1>4 DEF Return
<1>5. CASE Fatal
  BY <1>5 DEF Fatal
<1>6. CASE Shutdown("main")
  BY <1>6, ShutdownInv
<1> QED BY <1>1, <1>2, <1>3, <1>4, <1>5, <1>6 DEF Main

\* Every step keeps it.
THEOREM StepInv == IInv /\ [Next]_vars => IInv'
<1> SUFFICES ASSUME IInv, [Next]_vars PROVE IInv'
  OBVIOUS
<1> USE DEF IInv
<1>1. CASE Main
  BY <1>1, MainInv
<1>2. CASE Signal
  BY <1>2 DEF Signal, TypeOK, ServersAgree, ShutdownSoFar, WhoClosed, AfterCancel,
              Outcome, Active, Running
<1>3. CASE HandleSignal
  <2> USE DEF Callers, Servers, Active, Running
  <2>1. TypeOK'
    BY <1>3 DEF HandleSignal, TypeOK
  <2>2. ShutdownSoFar'
    BY <1>3 DEF HandleSignal, TypeOK, ShutdownSoFar
  <2>3. ServersAgree' /\ WhoClosed' /\ AfterCancel' /\ Outcome'
    BY <1>3 DEF HandleSignal, TypeOK, ServersAgree, WhoClosed, AfterCancel, Outcome
  <2> QED BY <2>1, <2>2, <2>3
<1>4. CASE Shutdown("sig")
  BY <1>4, ShutdownInv DEF Callers
<1>5. CASE ServeProxy
  <2> USE DEF Servers
  <2>1. \A s : Active(s)' = Active(s)
    BY <1>5 DEF ServeProxy, Active
  <2>2. TypeOK'
    <3>1. CASE server["proxy"] = "closed"
      BY <1>5, <2>1, <3>1 DEF ServeProxy, SendErr, TypeOK, Running
    <3>2. CASE server["proxy"] # "closed"
      BY <1>5, <2>1, <3>2 DEF ServeProxy, TypeOK, Running
    <3> QED BY <3>1, <3>2
  <2>3. ShutdownSoFar'
    <3>1. CASE server["proxy"] = "closed"
      <4>1. at' = at /\ hasDash' = hasDash /\ server' = server
        BY <1>5, <3>1 DEF ServeProxy
      <4> QED BY <2>1, <4>1 DEF ShutdownSoFar
    <3>2. CASE server["proxy"] # "closed"
      <4>1. \A c \in Callers : at[c] \notin {"proxy", "returned"}
        BY <3>2 DEF ShutdownSoFar
      <4>2. at' = at /\ hasDash' = hasDash /\ server'["dash"] = server["dash"]
        BY <1>5, <3>2 DEF ServeProxy, TypeOK
      <4> QED BY <4>1, <4>2 DEF ShutdownSoFar
    <3> QED BY <3>1, <3>2
  <2>4. WhoClosed' /\ ServersAgree'
    BY <1>5 DEF ServeProxy, SendErr, TypeOK, WhoClosed, ServersAgree
  <2>5. AfterCancel' /\ Outcome'
    BY <1>5 DEF ServeProxy, SendErr, TypeOK, WhoClosed, AfterCancel, Outcome
  <2> QED BY <2>2, <2>3, <2>4, <2>5
<1>6. CASE ServeReturns
  <2> USE DEF Servers
  <2>1. \A s : Active(s)' = Active(s)
    BY <1>6 DEF ServeReturns, Active
  <2>2. TypeOK'
    BY <1>6, <2>1 DEF ServeReturns, SendErr, TypeOK, Running, ServersAgree
  <2>3. ShutdownSoFar'
    BY <1>6, <2>1 DEF ServeReturns, SendErr, TypeOK, ShutdownSoFar
  <2>4. WhoClosed' /\ ServersAgree'
    BY <1>6 DEF ServeReturns, SendErr, TypeOK, WhoClosed, ServersAgree
  <2>5. AfterCancel' /\ Outcome'
    BY <1>6 DEF ServeReturns, SendErr, TypeOK, ServersAgree, WhoClosed, AfterCancel,
                Outcome
  <2> QED BY <2>2, <2>3, <2>4, <2>5
<1>7. CASE ServeDash
  <2> USE DEF Servers
  <2>1. \A s : Active(s)' = Active(s)
    BY <1>7 DEF ServeDash, Active
  <2>2. TypeOK'
    BY <1>7, <2>1 DEF ServeDash, TypeOK, Running, ServersAgree
  <2>3. ShutdownSoFar'
    BY <1>7, <2>1 DEF ServeDash, TypeOK, ShutdownSoFar
  <2>4. WhoClosed' /\ ServersAgree'
    BY <1>7 DEF ServeDash, TypeOK, WhoClosed, ServersAgree
  <2>5. AfterCancel' /\ Outcome'
    BY <1>7 DEF ServeDash, TypeOK, WhoClosed, AfterCancel, Outcome
  <2> QED BY <2>2, <2>3, <2>4, <2>5
<1>8. CASE StopWatcher
  BY ZenonT(60), <1>8 DEF StopWatcher, TypeOK, ServersAgree, ShutdownSoFar, WhoClosed, AfterCancel,
              Outcome, Active, Running
<1>9. CASE \/ \E x \in Requests \cup Pages : Accept(x)
           \/ \E r \in Requests : Finish(r) \/ Hijack(r) \/ CloseTunnel(r)
           \/ \E p \in Pages : Leave(p)
  BY <1>9, ConnectionsInv
<1>10. CASE UNCHANGED vars
  BY <1>10 DEF vars, TypeOK, ServersAgree, ShutdownSoFar, WhoClosed, AfterCancel,
               Outcome, Active, Running
<1> QED BY <1>1, <1>2, <1>3, <1>4, <1>5, <1>6, <1>7, <1>8, <1>9, <1>10 DEF Next

\* The inductive invariant holds throughout.
THEOREM Inductive == Spec => []IInv
  BY InitInv, StepInv, PTL DEF Spec

\* Every variable keeps its type, and no Shutdown closes stopCh a second time.
THEOREM TypeCorrect == Spec => []TypeOK
<1>1. IInv => TypeOK
  BY DEF IInv
<1> QED BY <1>1, Inductive, PTL

\* Status 0 means that no request and no event stream was cut off, for any number
\* of them and with both goroutines shutting down.
THEOREM ExitIsGraceful == Spec => []GracefulExit
<1>1. IInv => GracefulExit
  BY DEF IInv, Outcome, ShutdownSoFar, Callers, GracefulExit
<1> QED BY <1>1, Inductive, PTL

\* log.Fatalf is met only after a failure, or when the signal came before main
\* blocked in its select.
THEOREM FatalIsJustified == Spec => []FatalOnlyOnFailure
<1>1. IInv => FatalOnlyOnFailure
  BY DEF IInv, Outcome, FatalOnlyOnFailure
<1> QED BY <1>1, Inductive, PTL
=============================================================================
