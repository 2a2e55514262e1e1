----------------------------- MODULE MCRouting -----------------------------
(***************************************************************************)
(* Instances of Routing for TLC: the configuration of the shipped files,   *)
(* others that divide the ids and one that does not, and files of up to    *)
(* three rows with the ids at the borders of the blocks.                   *)
(***************************************************************************)
EXTENDS RoutingProperties

MCConfigs == [clusters : {3}, servers : {3, 4}] \cup [clusters : {2, 7}, servers : {4}]
             \cup {[clusters |-> 0, servers |-> 4], [clusters |-> 3001, servers |-> 1]}

Lists(contact) ==
    [active |-> <<1, 2, 4, 5, 7, 9, 12, 25, 40>>, contact |-> contact]

\* Contact servers of three clusters of four (the leaders, the last servers), three of
\* three, two and seven of four.
ContactLists ==
    {<<1, 5, 9>>, <<4, 8, 12>>, <<1, 4, 7>>, <<2, 5>>, <<1, 5, 9, 13, 17, 21, 25>>}

Pairs == {<<1, 1000>>, <<1000, 1001>>, <<2001, 1001>>, <<1400, 1600>>, <<2997, 3000>>,
          <<2990, 3001>>}

Named     == {[set |-> 1, transfer |-> p \o <<1>>, lists |-> Lists(c), ok |-> TRUE] :
                  p \in Pairs, c \in ContactLists}
Following == {[set |-> 0, transfer |-> p \o <<2>>, lists |-> Lists(<<>>), ok |-> TRUE] :
                  p \in {<<1, 1000>>, <<1400, 1600>>}}
Broken    == [set |-> 1, transfer |-> <<>>, lists |-> Lists(<<>>), ok |-> FALSE]

MCFiles ==
    {<<a>> : a \in Named} \cup {<<f, a, g>> : a \in Named, f, g \in Following}
    \cup {<<a, b, f>> : a \in {n \in Named : n.lists.contact = <<1, 5, 9>>},
                        b \in {n \in Named : n.lists.contact = <<2, 5>>}, f \in Following}
    \cup {<<a, Broken>> : a \in Named}

=============================================================================
