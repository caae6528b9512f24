-------------------------------- MODULE Gate --------------------------------
(***************************************************************************)
(* What the proxy promises about tool calls, without how it goes about it: *)
(* the calls of a request are judged one after the other, each by the      *)
(* policy in force at that moment; a request passes to the model provider  *)
(* only after every one of its calls has been cleared, and one call that   *)
(* is not permitted blocks it for good.  When the gate is not enforcing    *)
(* (dry run), every call is cleared.  Interceptor implements this.         *)
(***************************************************************************)
EXTENDS Naturals, Sequences

CONSTANTS
  Requests,
  Tools

VARIABLES
  enforcing,  \* FALSE in a dry run
  permitted,  \* the tools the policy in force permits
  calls,      \* calls[r]: the tool calls found in r
  cleared,    \* cleared[r]: how many of them have been cleared
  outcome     \* outcome[r]: what has become of r

gateVars == <<enforcing, permitted, calls, cleared, outcome>>

Outcomes == {"none", "open", "passed", "blocked", "dropped"}

GateInit ==
  /\ enforcing \in BOOLEAN
  /\ permitted = {}
  /\ calls = [r \in Requests |-> <<>>]
  /\ cleared = [r \in Requests |-> 0]
  /\ outcome = [r \in Requests |-> "none"]

Ask(r) ==
  /\ outcome[r] = "none"
  /\ outcome' = [outcome EXCEPT ![r] = "open"]
  /\ calls'[r] \in Seq(Tools)
  /\ calls' = [calls EXCEPT ![r] = calls'[r]]
  /\ UNCHANGED <<enforcing, permitted, cleared>>

\* The next call of r that has not been judged.
Unjudged(r) == cleared[r] < Len(calls[r])
NextCall(r) == calls[r][cleared[r] + 1]

Clear(r) ==
  /\ outcome[r] = "open" /\ Unjudged(r)
  /\ enforcing => NextCall(r) \in permitted
  /\ cleared' = [cleared EXCEPT ![r] = @ + 1]
  /\ UNCHANGED <<enforcing, permitted, calls, outcome>>

Block(r) ==
  /\ outcome[r] = "open" /\ Unjudged(r)
  /\ enforcing /\ NextCall(r) \notin permitted
  /\ outcome' = [outcome EXCEPT ![r] = "blocked"]
  /\ UNCHANGED <<enforcing, permitted, calls, cleared>>

Pass(r) ==
  /\ outcome[r] = "open" /\ ~Unjudged(r)
  /\ outcome' = [outcome EXCEPT ![r] = "passed"]
  /\ UNCHANGED <<enforcing, permitted, calls, cleared>>

\* The request fails before it has passed: nothing is delivered.
Drop(r) ==
  /\ outcome[r] = "open"
  /\ outcome' = [outcome EXCEPT ![r] = "dropped"]
  /\ UNCHANGED <<enforcing, permitted, calls, cleared>>

ChangePolicy ==
  /\ permitted' \in SUBSET Tools
  /\ UNCHANGED <<enforcing, calls, cleared, outcome>>

GateNext ==
  \/ \E r \in Requests : Ask(r) \/ Clear(r) \/ Block(r) \/ Pass(r) \/ Drop(r)
  \/ ChangePolicy

GateSpec == GateInit /\ [][GateNext]_gateVars
=============================================================================
