----------------------------- MODULE MCDetector -----------------------------
(***************************************************************************)
(* The model-checked instance of Detector: a tool, the same tool again,    *)
(* and one that it must not follow.                                        *)
(***************************************************************************)
EXTENDS Detector

CONSTANTS c1, c2, c3

MCCalls == {c1, c2, c3}

\* One that reads and two that execute, for the tools and their sequences.
MCToolOf == (c1 :> "read_file") @@ (c2 :> "exec") @@ (c3 :> "exec")

\* No file, one about to have more than five samples, and one of a quiet time, when a
\* second call in the interval is a high rate, as it is and when it is a day old.
MCSaved ==
  LET Quiet == [count |-> 20, sum |-> 21, sq |-> 23] IN
  { [kind |-> "absent", baseline |-> NewBaseline],
    [kind |-> "recent", baseline |-> [count |-> 4, sum |-> 4, sq |-> 4]],
    [kind |-> "recent", baseline |-> Quiet],
    [kind |-> "old",    baseline |-> Quiet] }
=============================================================================
