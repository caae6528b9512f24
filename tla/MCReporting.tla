---------------------------- MODULE MCReporting -----------------------------
(***************************************************************************)
(* Reporting for TLC: requests without a call, with one that is denied,    *)
(* and with one that is allowed before one that is denied, which a dry run *)
(* lets through.  The requests are interchangeable.                        *)
(***************************************************************************)
EXTENDS Reporting

MCOutcomes == {<<>>, <<"deny">>, <<"allow", "deny">>}

Symmetry == Permutations(Requests)
=============================================================================
