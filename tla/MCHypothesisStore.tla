--------------------------- MODULE MCHypothesisStore ---------------------------
(* Small instances of HypothesisStore for TLC. *)
EXTENDS HypothesisStore
=============================================================================
