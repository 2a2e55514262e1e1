-------------------------------- MODULE Lists --------------------------------
(***************************************************************************)
(* The loop over a list that the Go code uses to leave servers out.        *)
(***************************************************************************)
EXTENDS Integers, Sequences

\* The elements of list that are in S, in their order. (SelectSeq of module Sequences,
\* with a set in place of an operator, so that it can be reasoned about.)
Keep(list, S) ==
    LET upTo[n \in 0..Len(list)] ==
            IF n = 0 THEN <<>>
            ELSE IF list[n] \in S THEN Append(upTo[n - 1], list[n]) ELSE upTo[n - 1]
    IN  upTo[Len(list)]

=============================================================================
