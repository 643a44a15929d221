----------------------------- MODULE MCEventTrail -----------------------------
(* Small instances of EventTrail and its decoder for TLC. *)
EXTENDS TrailPrograms

\* Frames equally good for an event, so that a listed path may not be the
\* decoded one; the third frame repeats the shot of the second.
MCVideo == [video |-> 1, frames |-> <<1, 2, 3, 4, 5>>, idx |-> <<0, 1, 2, 3, 4>>,
            time |-> <<0, 2, 4, 6, 8>>,
            rows |-> <<<<6, 5, 7, 2, 0>>, <<3, 6, 6, 6, 2>>, <<0, 4, 4, 5, 7>>>>]
MCSettings == [gap |-> 1, power |-> 1, delta |-> 2, separation |-> 0]
MCClusterStart == [t \in {0, 2, 4, 6, 8} |-> IF t = 4 THEN 2 ELSE t]
MCScore == [path \in [1..3 -> {0, 2, 4, 6, 8}] |->
    MCVideo.rows[1][path[1] \div 2 + 1] + MCVideo.rows[2][path[2] \div 2 + 1]
        + MCVideo.rows[3][path[3] \div 2 + 1] - (path[3] - path[1])]
MCWindows == {<<2, 8>>, <<0, 6>>, <<3, 1>>}
=============================================================================
