---------------------------- MODULE PolicyEngine ----------------------------
(***************************************************************************)
(* The policy engine of internal/policy/engine.go: the modules it has      *)
(* parsed, the query it has prepared from them, and what a tool call is    *)
(* decided by that query.                                                  *)
(*                                                                         *)
(* A policy source is the record of what the engine can tell apart:        *)
(*   health   "syntax" when the parser rejects it, "compile" when it       *)
(*            parses but no query that includes it compiles, else "ok";    *)
(*   default  what `default allow` is declared to be: "none" when the      *)
(*            source does not declare it, else "false" or "true";          *)
(*   deny, log, allow   the tools its rules of each name match.            *)
(* Compiling and evaluating the query are OPA's.  All modules share one    *)
(* package, in which OPA refuses two defaults of one rule.                 *)
(***************************************************************************)
EXTENDS FiniteSets

CONSTANTS
  Names,     \* the names of the policy files
  Contents,  \* the policy sources a file may hold
  Tools      \* the tool calls, as far as the policies tell them apart

Sources == [health  : {"ok", "compile", "syntax"},
            default : {"none", "false", "true"},
            deny    : SUBSET Tools,
            log     : SUBSET Tools,
            allow   : SUBSET Tools]

ASSUME PolicyEngineAssumption == Contents \subseteq Sources

VARIABLES
  modules,   \* e.modules: the last source of each name that parsed
  prepared   \* e.prepared: the modules the prepared query was compiled from

engineVars == <<modules, prepared>>

\* The value of modules[n] for a name the map does not have.
NoModule == [health |-> "absent", default |-> "none",
             deny |-> {}, log |-> {}, allow |-> {}]

\* The empty map of NewEngine, and the zero PreparedEvalQuery.
NoModules == [n \in Names |-> NoModule]

EngineInit ==
  /\ modules = NoModules
  /\ prepared = NoModules

EngineTypeOK ==
  /\ modules \in [Names -> Contents \cup {NoModule}]
  /\ prepared \in [Names -> Contents \cup {NoModule}]

-----------------------------------------------------------------------------
(* OPA, as the engine uses it.                                              *)

\* PrepareForEval on `data.ghostguard` over these modules.
Compiles(mods) ==
  /\ \A n \in Names : mods[n].health # "compile"
  /\ \A m, n \in Names :
       mods[m].default # "none" /\ mods[n].default # "none" => m = n

\* The rules of each name that are true in the result, over all the modules.
Denied(mods, tool) == \E n \in Names : tool \in mods[n].deny
Logged(mods, tool) == \E n \in Names : tool \in mods[n].log
Allowed(mods, tool) ==
  \E n \in Names : tool \in mods[n].allow \/ mods[n].default = "true"

-----------------------------------------------------------------------------

\* Does LoadPolicy return nil?
Loads(n, source) ==
  /\ source.health # "syntax"
  /\ Compiles([modules EXCEPT ![n] = source])

\* Mutant of LoadPolicy: `e.prepared, err = r.PrepareForEval(...)`, so that a
\* refused query leaves the zero value behind.
LoadPolicyDroppingQuery(n, source) ==
  /\ modules' = IF source.health = "syntax" THEN modules
                                            ELSE [modules EXCEPT ![n] = source]
  /\ prepared' = IF Loads(n, source) THEN [modules EXCEPT ![n] = source]
                  ELSE IF source.health = "syntax" THEN prepared
                  ELSE NoModules

\* LoadPolicy(n, source).  A source that does not parse changes nothing; one
\* that parses stays in e.modules even when the combined query is refused.
LoadPolicy(n, source) ==
  /\ modules' = IF source.health = "syntax" THEN modules
                                            ELSE [modules EXCEPT ![n] = source]
  /\ prepared' = IF Loads(n, source) THEN [modules EXCEPT ![n] = source]
                                     ELSE prepared

\* Evaluate: the decision of a prepared query.  Deny wins over log, log over
\* allow, and what no rule mentions is denied.
Decide(mods, tool) ==
  IF Denied(mods, tool) THEN "deny"
  ELSE IF Logged(mods, tool) THEN "log"
  ELSE IF Allowed(mods, tool) THEN "allow"
  ELSE "deny"

\* Eval on the zero PreparedEvalQuery dereferences its nil *rego.Rego.
Panics(mods) == mods = NoModules
=============================================================================
