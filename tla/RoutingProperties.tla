------------------------- MODULE RoutingProperties -------------------------
(***************************************************************************)
(* What the configuration, the parser and the routing of main.go keep.     *)
(***************************************************************************)
EXTENDS Routing

SetType == [lists : ListsOfSet, transfers : Seq(Seq(Int))]

RoutedType == [transfer : Seq(Int), lists : ListsOfSet, kind : {"skipped", "intra", "cross"},
               contact : Nat, active : Seq(Nat)]

\* Every variable keeps its type; in particular at most one set is open in the parser.
TypeOK ==
    /\ phase \in {"configuring", "parsing", "routing", "done", "stopped", "panicked"}
    /\ config \in Configs
    /\ rows \in Seq(Row)
    /\ sets \in Seq(SetType)
    /\ currentSet \in Seq(SetType) /\ Len(currentSet) <= 1
    /\ routed \in Seq(RoutedType)

-----------------------------------------------------------------------------
\* The transfers of a set, each with the lists of the set.
Listed(set) == [i \in DOMAIN set.transfers |-> <<set.transfers[i], set.lists>>]

\* The rows up to i that name a set.
Naming(file, i) == {j \in 1..i : file[j].set # 0}

\* The lists of the set of row i: those of the last set named before it, or of the set
\* that is open.
ListsOf(file, open, i) ==
    LET naming == Naming(file, i)
    IN  IF naming = {} THEN open[1].lists
        ELSE file[CHOOSE j \in naming : \A k \in naming : k <= j].lists

\* The number of rows before the first set, which belong to none.
Ahead(file, open) ==
    CHOOSE n \in 0..Len(file) :
        \A i \in DOMAIN file : i <= n <=> (open = <<>> /\ Naming(file, i) = {})

ToParse(file, open) ==
    [k \in 1..(Len(file) - Ahead(file, open)) |->
        LET i == k + Ahead(file, open) IN <<file[i].transfer, ListsOf(file, open, i)>>]

Flatten(ss) ==
    LET upTo[n \in 0..Len(ss)] == IF n = 0 THEN <<>> ELSE upTo[n - 1] \o Listed(ss[n])
    IN  upTo[Len(ss)]

Backlog == [i \in DOMAIN routed |-> <<routed[i].transfer, routed[i].lists>>]
           \o Flatten(sets) \o Flatten(currentSet) \o ToParse(rows, currentSet)

\* No step of the parser or of the loop of main loses, repeats or reorders a transfer,
\* or takes it to another set: every transfer from the first named set on is handled
\* once, in the order of the file and with the servers of its own set.
NothingLost == [][Backlog' = Backlog]_vars

-----------------------------------------------------------------------------
\* The file names one contact server for each cluster, in order.
Fits(contact) ==
    /\ DOMAIN contact = 1..config.clusters
    /\ \A c \in DOMAIN contact : contact[c] \in Servers /\ ClusterOf(contact[c]) = c

\* Whatever the configuration, even one whose clusters do not divide the ids: if the
\* file fits it, a transfer goes to servers that store what they need. An intra-shard
\* transfer reaches only servers with both rows, and the contact server of a
\* cross-shard one has the source's row and not the destination's.
ServersStoreTheRows ==
    \A i \in DOMAIN routed :
        LET r == routed[i] IN
        (Fits(r.lists.contact) /\ r.kind # "skipped") =>
            /\ Stored(r.contact, r.transfer[1])
            /\ Stored(r.contact, r.transfer[2]) <=> r.kind = "intra"
            /\ \A j \in DOMAIN r.active :
                   /\ Stored(r.active[j], r.transfer[1])
                   /\ Stored(r.active[j], r.transfer[2]) <=> r.kind = "intra"

\* With three clusters, main (which compares contact servers) and HandleTransaction
\* (which asks IsTransactionCrossShard whether to release the row locks) agree on
\* which transfers cross shards. With any other number they do not.
ClassificationsAgree ==
    \A i \in DOMAIN routed :
        LET r == routed[i] IN
        (config.clusters = 3 /\ Fits(r.lists.contact) /\ r.kind # "skipped") =>
            (r.kind = "cross" <=> IsTransactionCrossShard(r.transfer[1], r.transfer[2]))

\* With up to three clusters of four, the leader that the contact server answers to is
\* a server of the source's cluster.
LeadersAreAtHome ==
    \A i \in DOMAIN routed :
        LET r == routed[i] IN
        (config.clusters <= 3 /\ config.servers = 4 /\ Fits(r.lists.contact)
            /\ r.kind # "skipped")
        => /\ GetClusterLeaderId(r.contact) \in Servers
           /\ Stored(GetClusterLeaderId(r.contact), r.transfer[1])

\* When the number of clusters divides 3000 and the file fits, main skips no transfer
\* between clients.
EvenSplitServesAll ==
    \A i \in DOMAIN routed :
        LET r == routed[i] IN
        (/\ DataCount % config.clusters = 0 /\ Fits(r.lists.contact)
         /\ {r.transfer[1], r.transfer[2]} \subseteq Clients)
        => r.kind # "skipped"

=============================================================================
