------------------------- MODULE MCInferenceGateway -------------------------
(* Small instances of InferenceGateway for TLC. *)
EXTENDS InferenceGateway

\* Text for the model that is loaded.
TextRequests == {[kind |-> "text", valid |-> TRUE]}

\* Such text, and a health check, which has a deadline.
CheckRequests == TextRequests \cup {[kind |-> "readiness", valid |-> TRUE]}
=============================================================================
