------------------------------ MODULE Routing ------------------------------
(***************************************************************************)
(* The start of main.go and its loop over the CSV file: the configuration  *)
(* of clusters and shards (with the functions of shared/ that depend on    *)
(* it), ParseCSV, and the choice of servers and protocol for each          *)
(* transfer.  How a transfer is then sent, and sent again, is the subject  *)
(* of PbftCluster and CrossShard2PC.                                       *)
(*                                                                         *)
(* Server "S<n>" is the number n and cluster "C<k>" the number k.          *)
(***************************************************************************)
EXTENDS Integers, Sequences, Lists

CONSTANTS
    Configs,          \* the numbers of clusters and of servers per cluster entered
    Files             \* the contents of the CSV file, row by row

ListsOfSet == [active : Seq(Nat), contact : Seq(Nat)]

Row == [set : Nat, transfer : Seq(Int), lists : ListsOfSet, ok : BOOLEAN]

ASSUME RoutingAssumption ==
    /\ Configs \subseteq [clusters : Nat, servers : Nat]
    /\ Files \subseteq Seq(Row)

VARIABLES
    phase,            \* configuring, parsing, routing, done; stopped or panicked
    config,           \* the configuration entered
    rows,             \* rows of the file still to parse
    sets,             \* sets parsed (or still to route), each its lists and transfers
    currentSet,       \* the set being parsed, as a sequence of at most one
    routed            \* what main has done with each transfer

vars == <<phase, config, rows, sets, currentSet, routed>>

DataCount == 3000

-----------------------------------------------------------------------------
(* Configuration.                                                          *)

\* AssignShardsToClusters: the ids that the division leaves over go to a cluster
\* that does not exist.
ItemsPerCluster == DataCount \div config.clusters
Clients         == 1..DataCount
ZeroBased(id)   == id \div ItemsPerCluster + 1     \* mutant: ids counted from 0
ShardOf(id)     == (id - 1) \div ItemsPerCluster + 1

\* InitializeClusters and the mapping of servers made from it; GetClusterID fails for
\* any other server.
Servers         == 1..(config.clusters * config.servers)
ClusterOf(s)    == (s - 1) \div config.servers + 1

\* GetShardsForCluster: the rows that StartServerRPC puts into the tables of s.
Stored(s, id)   == id \in Clients /\ ShardOf(id) = ClusterOf(s)

LeaderOfGroups(s) == IF s \in 1..12 THEN 4 * (s \div 4) + 1 ELSE 0
                                    \* mutant: servers counted from 0

\* GetClusterLeaderId, 0 for no leader, is written for three clusters of four.
GetClusterLeaderId(s) == IF s \in 1..12 THEN 4 * ((s - 1) \div 4) + 1 ELSE 0

\* mutant: blocks that begin at 0
CrossZeroBased(source, destination) ==
    ~ \E block \in {0..999, 1000..1999, 2000..2999} : {source, destination} \subseteq block

\* IsTransactionCrossShard is written for three clusters, whatever was entered.
IsTransactionCrossShard(source, destination) ==
    ~ \E block \in {1..1000, 1001..2000, 2001..3000} : {source, destination} \subseteq block

AllActive(active, cluster) == active      \* mutant: the list is not filtered

filterActiveServers(active, cluster) ==
    Keep(active, {s \in Servers : ClusterOf(s) = cluster})

\* GetContactServerForCluster finds a server; an id without a cluster, and a cluster
\* beyond the list, have none.
HasContact(id, contact) == id \in Clients /\ ShardOf(id) \in DOMAIN contact

Contact(id, contact) == contact[ShardOf(id)]

-----------------------------------------------------------------------------
Init ==
    /\ phase = "configuring"
    /\ config \in Configs
    /\ rows \in Files
    /\ sets = <<>>
    /\ currentSet = <<>>
    /\ routed = <<>>

\* The number of ids is divided by the number of clusters, and then each id by the
\* result: with no cluster, or more clusters than ids, main panics.
Configure ==
    /\ phase = "configuring"
    /\ phase' = IF config.clusters \in 1..DataCount THEN "parsing" ELSE "panicked"
    /\ UNCHANGED <<config, rows, sets, currentSet, routed>>

KeepOpen(r) ==                            \* mutant: the finished set stays current
    Append(currentSet, [lists |-> r.lists, transfers |-> <<r.transfer>>])

NewSet(r) == <<[lists |-> r.lists, transfers |-> <<r.transfer>>]>>

\* ParseCSV, one row. A row that names a set closes the current one; others add to it,
\* or are dropped when there is none yet.
ParseRow ==
    LET r == Head(rows) IN
    /\ phase = "parsing" /\ rows # <<>>
    /\ r.ok
    /\ IF r.set # 0
       THEN /\ sets' = sets \o currentSet
            /\ currentSet' = NewSet(r)
       ELSE /\ currentSet' = [i \in DOMAIN currentSet |->
                   [currentSet[i] EXCEPT !.transfers = Append(@, r.transfer)]]
            /\ UNCHANGED sets
    /\ rows' = Tail(rows)
    /\ UNCHANGED <<phase, config, routed>>

\* A number that is none: ParseCSV returns the error and main ends.
RefuseRow ==
    /\ phase = "parsing" /\ rows # <<>>
    /\ ~Head(rows).ok
    /\ phase' = "stopped"
    /\ UNCHANGED <<config, rows, sets, currentSet, routed>>

WithoutLast(all, last) == all             \* mutant: the last set is forgotten

AllSets(all, last) == all \o last

FinishParsing ==
    /\ phase = "parsing" /\ rows = <<>>
    /\ phase' = "routing"
    /\ sets' = AllSets(sets, currentSet)
    /\ currentSet' = <<>>
    /\ UNCHANGED <<config, rows, routed>>

Routable(contact, source, destination) ==
    HasContact(source, contact) /\ HasContact(destination, contact)

\* What main decides for one transfer of a set.
Decision(lists, transfer) ==
    LET source == transfer[1]
        destination == transfer[2]
        contact == lists.contact
    IN  IF ~Routable(contact, source, destination)
        THEN [transfer |-> transfer, lists |-> lists, kind |-> "skipped", contact |-> 0,
              active |-> <<>>]
        ELSE [transfer |-> transfer, lists |-> lists,
              kind |-> IF Contact(source, contact) = Contact(destination, contact)
                       THEN "intra" ELSE "cross",
              contact |-> Contact(source, contact),
              active |-> filterActiveServers(lists.active, ShardOf(source))]

RouteTransfer ==
    /\ phase = "routing" /\ sets # <<>>
    /\ sets[1].transfers # <<>>
    /\ routed' = Append(routed, Decision(sets[1].lists, Head(sets[1].transfers)))
    /\ sets' = [sets EXCEPT ![1].transfers = Tail(@)]
    /\ UNCHANGED <<phase, config, rows, currentSet>>

\* The menu's "proceed to next set", and the end of the loop.
NextSet ==
    /\ phase = "routing" /\ sets # <<>>
    /\ sets[1].transfers = <<>>
    /\ sets' = Tail(sets)
    /\ UNCHANGED <<phase, config, rows, currentSet, routed>>

Finish ==
    /\ phase = "routing" /\ sets = <<>>
    /\ phase' = "done"
    /\ UNCHANGED <<config, rows, sets, currentSet, routed>>

Next == \/ Configure \/ ParseRow \/ RefuseRow \/ FinishParsing
        \/ RouteTransfer \/ NextSet \/ Finish

Spec == Init /\ [][Next]_vars

=============================================================================
