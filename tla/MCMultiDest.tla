---------------------------- MODULE MCMultiDest ----------------------------
(***************************************************************************)
(* The callers TLC checks the transfers with several destinations for.     *)
(***************************************************************************)
EXTENDS MultiDestProperties, TLC

MCRequest ==
    <<[source |-> 1, destinations |-> <<2, 3>>, amounts |-> <<4, 3>>],
      [source |-> 1, destinations |-> <<3>>,    amounts |-> <<8>>],
      [source |-> 2, destinations |-> <<3, 4>>, amounts |-> <<6, 5>>],
      [source |-> 3, destinations |-> <<2, 1>>, amounts |-> <<5, 1>>],
      [source |-> 2, destinations |-> <<3, 3>>, amounts |-> <<1, 2>>],
      [source |-> 1, destinations |-> <<2, 3>>, amounts |-> <<2>>],
      [source |-> 2, destinations |-> <<5>>,    amounts |-> <<1>>],
      [source |-> 2, destinations |-> <<3, 4>>, amounts |-> <<6, 4>>]>>

\* Two spenders of one account and a third in the same order, an amount above the
\* balance; opposite orders; one destination named twice; too few amounts; a row of
\* another shard.
MCWorkloads == {{1, 2, 8}, {1, 3}, {1, 4}, {2, 5}, {1, 6}, {1, 7}}

=============================================================================
