---------------------------- MODULE MCMCPServer ----------------------------
(***************************************************************************)
(* The model-checked instance of MCPServer: two files over four sources,   *)
(* and five lines of different kinds, one of them a request without an id. *)
(***************************************************************************)
EXTENDS MCPServer

CONSTANTS t1, test, unknown, note, broken, long

MCLines == {test, unknown, note, broken, long}

MCAnonymous == {note}

MCKindOf ==
  [l \in MCLines |->
     CASE l = test    -> "test"
       [] l = unknown -> "unknown"
       [] l = note    -> "foreign"
       [] l = broken  -> "broken"
       [] l = long    -> "long"]

MCToolOf == [l \in MCLines |-> t1]

MCContents ==
  { [health |-> "ok",      default |-> "false", deny |-> {t1}, log |-> {}, allow |-> {}],
    [health |-> "ok",      default |-> "none",  deny |-> {},   log |-> {}, allow |-> {t1}],
    [health |-> "compile", default |-> "none",  deny |-> {},   log |-> {}, allow |-> {}],
    [health |-> "syntax",  default |-> "none",  deny |-> {},   log |-> {}, allow |-> {}] }
=============================================================================
