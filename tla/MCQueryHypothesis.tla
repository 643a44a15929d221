--------------------------- MODULE MCQueryHypothesis ---------------------------
(* Small instances of QueryHypothesis for TLC. *)
EXTENDS QueryHypothesis

CONSTANTS a, b, x, p

\* One piece occurs twice.
Repeating == <<a, b, a>>
PartOfQuery == {<<a>>, <<b, a>>}
=============================================================================
