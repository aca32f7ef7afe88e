------------------------------- MODULE Lists -------------------------------
(* What several modules say of lists.  A recursive function, where SelectSeq *)
(* would do, so that proofs can be made about it.                            *)
EXTENDS Integers, Sequences

\* What a list has at some of its places, in order.
Picked(list, places) ==
    LET upto[i \in 0..Len(list)] ==
            IF i = 0 THEN <<>>
            ELSE IF i \in places THEN Append(upto[i - 1], list[i]) ELSE upto[i - 1]
    IN  upto[Len(list)]
=============================================================================
