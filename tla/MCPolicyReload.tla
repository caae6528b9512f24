--------------------------- MODULE MCPolicyReload ---------------------------
(* The model-checked instance of PolicyReload: two files over four sources. *)
EXTENDS PolicyReload

CONSTANT t1

\* A source with a default, which no two files can both hold, one without, one
\* that never compiles and
\* one that does not parse.
MCContents ==
  { [health |-> "ok",      default |-> "false", deny |-> {t1}, log |-> {}, allow |-> {}],
    [health |-> "ok",      default |-> "none",  deny |-> {},   log |-> {}, allow |-> {t1}],
    [health |-> "compile", default |-> "none",  deny |-> {},   log |-> {}, allow |-> {}],
    [health |-> "syntax",  default |-> "none",  deny |-> {},   log |-> {}, allow |-> {}] }
=============================================================================
