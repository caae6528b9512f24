--------------------------- MODULE MCInterceptor ---------------------------
(* The model-checked instances of Interceptor: one policy file whose edits   *)
(* permit both tools, deny one of them, or break the query.                  *)
EXTENDS Interceptor

CONSTANTS a, b

MCContents ==
  { [health |-> "ok",      default |-> "none", deny |-> {},  log |-> {},  allow |-> {a, b}],
    [health |-> "ok",      default |-> "none", deny |-> {b}, log |-> {a}, allow |-> {b}],
    [health |-> "compile", default |-> "none", deny |-> {},  log |-> {},  allow |-> {}] }

MCCallLists == {<<>>, <<a, b>>}
=============================================================================
