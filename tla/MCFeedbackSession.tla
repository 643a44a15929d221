--------------------------- MODULE MCFeedbackSession ---------------------------
(* Small instances of FeedbackSession for TLC. *)
EXTENDS FeedbackSession, TLC

\* Texts and events are interchangeable.
Symmetry == Permutations(Texts) \cup Permutations(Events)
=============================================================================
