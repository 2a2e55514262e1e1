-------------------------- MODULE MCCrossShard2PC --------------------------
(***************************************************************************)
(* Instances of CrossShard2PC for TLC: two clusters of a leader (the       *)
(* contact server) and a backup.                                           *)
(***************************************************************************)
EXTENDS CrossShard2PCProperties, TLC

CONSTANTS p1, p2, q1, q2, a, b, c, t1, t2, t3, t4, t5

MCLeaderOf == (p1 :> p1) @@ (p2 :> p1) @@ (q1 :> q1) @@ (q2 :> q1)
MCHome     == (a :> p1) @@ (b :> q1) @@ (c :> q1)

Ask(from, to, amount, signed) ==
    LET source == IF from = a THEN <<p1, p2>> ELSE <<q1, q2>>
        dest   == IF from = a THEN <<q1, q2>> ELSE <<p1, p2>>
    IN  [source |-> from, destination |-> to, amount |-> amount, contact |-> source[1],
         signed |-> signed, sourceActive |-> source, destinationActive |-> dest]

\* t2 goes to the row of t1, t3 comes from it, t4 is not signed, t5 asks for more
\* than there is.
MCRequest ==
    (t1 :> Ask(a, b, 4, TRUE)) @@ (t2 :> Ask(a, b, 3, TRUE)) @@ (t3 :> Ask(b, a, 5, TRUE))
    @@ (t4 :> Ask(a, c, 1, FALSE)) @@ (t5 :> Ask(a, c, 11, TRUE))

MCScripts   == {<<t1, t2>>, <<t1, t3>>, <<t5>>, <<t4>>}
OneTransfer == {<<t1>>}

=============================================================================
