------------------------------ MODULE RevisionLog ------------------------------
(***************************************************************************)
(* What every revisioned session of the backend promises its clients: a    *)
(* document, a revision that counts the committed changes and never goes   *)
(* back, and a stack of earlier documents that Undo pops one by one.  A    *)
(* stack of bounded depth forgets its oldest entry, never another one.     *)
(***************************************************************************)
EXTENDS Integers, Sequences

CONSTANTS
    Documents,    \* the documents a session can hold
    Limit         \* checkpoints kept

VARIABLES revision, document, stack

logVars == <<revision, document, stack>>

Kept(s) == IF Len(s) > Limit THEN Tail(s) ELSE s

Init ==
    /\ revision \in Nat
    /\ document \in Documents
    /\ stack = <<>>

Commit ==
    /\ revision' = revision + 1
    /\ document' \in Documents
    /\ stack' = Kept(Append(stack, document))

Undo ==
    /\ stack # <<>>
    /\ revision' = revision + 1
    /\ document' = stack[Len(stack)]
    /\ stack' = SubSeq(stack, 1, Len(stack) - 1)

Next == Commit \/ Undo

Spec == Init /\ [][Next]_logVars
=============================================================================
