--------------------------- MODULE RoutingProofs ---------------------------
(***************************************************************************)
(* Theorems about Routing, for every configuration and every file.  The    *)
(* invariant RoutedInv says that what main has done with a transfer is a   *)
(* function of the configuration and of the contact list of its set; that  *)
(* function is then compared with the literals of IsTransactionCrossShard  *)
(* and GetClusterLeaderId, and with the division of the ids.               *)
(***************************************************************************)
EXTENDS RoutingProperties, CollectionProofs, SequenceTheorems

\* r is a choice that main makes.
Chosen(r) ==
    LET contact == r.lists.contact
        source  == r.transfer[1]
        destination == r.transfer[2]
    IN  IF Routable(contact, source, destination)
        THEN /\ r.contact = Contact(source, contact)
             /\ r.kind = IF Contact(source, contact) = Contact(destination, contact)
                         THEN "intra" ELSE "cross"
             /\ r.active = filterActiveServers(r.lists.active, ShardOf(source))
        ELSE r.kind = "skipped"

RoutedInv ==
    /\ config \in [clusters : Nat, servers : Nat]
    /\ phase = "configuring" => routed = <<>>
    /\ phase \notin {"configuring", "panicked"} => config.clusters \in 1..DataCount
    /\ phase = "panicked" => routed = <<>>
    /\ \E S : routed \in Seq(S)
    /\ \A i \in DOMAIN routed : Chosen(routed[i])

\* What main has chosen stays its choice, since the configuration does not change.
LEMMA ChosenIsStable ==
    ASSUME config' = config, \A i \in DOMAIN routed' : Chosen(routed'[i])
    PROVE  (\A i \in DOMAIN routed : Chosen(routed[i]))'
BY DEF Chosen, Routable, HasContact, Contact, ShardOf, ItemsPerCluster, filterActiveServers,
       Servers, ClusterOf

LEMMA DecisionIsChosen ==
    ASSUME NEW lists, NEW transfer
    PROVE  Chosen(Decision(lists, transfer))
<1>1. CASE Routable(lists.contact, transfer[1], transfer[2])
  BY <1>1 DEF Chosen, Decision
<1>2. CASE ~Routable(lists.contact, transfer[1], transfer[2])
  BY <1>2 DEF Chosen, Decision
<1> QED BY <1>1, <1>2

\* In every reachable state each transfer that main has handled was routed as Decision
\* says, under the configuration entered at the start.
THEOREM RoutedIsChosen == Spec => []RoutedInv
<1>1. Init => RoutedInv
  <2> SUFFICES ASSUME Init PROVE RoutedInv
    OBVIOUS
  <2>1. routed \in Seq({})
    BY DEF Init
  <2>2. config \in [clusters : Nat, servers : Nat]
    BY RoutingAssumption DEF Init
  <2> QED BY <2>1, <2>2 DEF Init, RoutedInv
<1>2. RoutedInv /\ [Next]_vars => RoutedInv'
  <2> SUFFICES ASSUME RoutedInv, [Next]_vars PROVE RoutedInv'
    OBVIOUS
  <2>1. CASE RouteTransfer
    <3> DEFINE d == Decision(sets[1].lists, Head(sets[1].transfers))
    <3>1. PICK T : routed \in Seq(T)
      BY DEF RoutedInv
    <3>2. routed' = Append(routed, d) /\ config' = config /\ phase' = phase
          /\ phase = "routing"
      BY <2>1 DEF RouteTransfer
    <3>3. routed' \in Seq(T \cup {d})
      BY <3>1, <3>2
    <3>4. Chosen(d)
      BY DecisionIsChosen
    <3>5. \A i \in DOMAIN routed' : Chosen(routed'[i])
      <4> SUFFICES ASSUME NEW i \in DOMAIN routed' PROVE Chosen(routed'[i])
        OBVIOUS
      <4> HIDE DEF d
      <4>1. CASE i = Len(routed) + 1
        <5>1. routed'[i] = d
          BY <3>1, <3>2, <4>1
        <5> QED BY <5>1, <3>4
      <4>2. CASE i # Len(routed) + 1
        <5>1. i \in DOMAIN routed /\ routed'[i] = routed[i]
          BY <3>1, <3>2, <4>2
        <5> QED BY <5>1 DEF RoutedInv
      <4> QED BY <4>1, <4>2
    <3>6. (\A i \in DOMAIN routed : Chosen(routed[i]))'
      BY <3>2, <3>5, ChosenIsStable
    <3>7. (\E S : routed \in Seq(S))'
      BY <3>3
    <3> QED BY <3>2, <3>6, <3>7 DEF RoutedInv, DataCount
  <2>2. ASSUME config' = config, routed' = routed,
               \/ phase' = phase
               \/ Configure
               \/ /\ phase \in {"parsing", "routing"}
                  /\ phase' \in {"routing", "done", "stopped"}
        PROVE  RoutedInv'
    <3>1. \A i \in DOMAIN routed' : Chosen(routed'[i])
      BY <2>2 DEF RoutedInv
    <3>2. (\A i \in DOMAIN routed : Chosen(routed[i]))'
      BY <2>2, <3>1, ChosenIsStable
    <3>3. /\ phase' = "configuring" => routed' = <<>>
          /\ phase' \notin {"configuring", "panicked"} => config'.clusters \in 1..DataCount
          /\ phase' = "panicked" => routed' = <<>>
      <4>1. CASE phase' = phase
        BY <2>2, <4>1 DEF RoutedInv
      <4>2. CASE Configure
        BY <2>2, <4>2 DEF RoutedInv, Configure
      <4>3. CASE phase \in {"parsing", "routing"} /\ phase' \in {"routing", "done", "stopped"}
        BY <2>2, <4>3 DEF RoutedInv
      <4> QED BY <2>2, <4>1, <4>2, <4>3
    <3>4. \E S : routed' \in Seq(S)
      BY <2>2 DEF RoutedInv
    <3>5. config' \in [clusters : Nat, servers : Nat]
      BY <2>2 DEF RoutedInv
    <3>6. (\E S : routed \in Seq(S))'
      BY <3>4
    <3> QED BY <3>2, <3>3, <3>5, <3>6 DEF RoutedInv
  <2>3. CASE Configure
    <3>1. config' = config /\ routed' = routed
      BY <2>3 DEF Configure
    <3> QED BY <2>2, <2>3, <3>1
  <2>4. CASE ParseRow
    <3>1. config' = config /\ routed' = routed /\ phase' = phase
      BY <2>4 DEF ParseRow
    <3> QED BY <2>2, <3>1
  <2>5. CASE RefuseRow
    BY <2>2, <2>5 DEF RefuseRow
  <2>6. CASE FinishParsing
    BY <2>2, <2>6 DEF FinishParsing
  <2>7. CASE NextSet
    BY <2>2, <2>7 DEF NextSet
  <2>8. CASE Finish
    BY <2>2, <2>8 DEF Finish
  <2>9. CASE UNCHANGED vars
    <3>1. config' = config /\ routed' = routed /\ phase' = phase
      BY <2>9 DEF vars
    <3> QED BY <2>2, <3>1
  <2> QED BY <2>1, <2>3, <2>4, <2>5, <2>6, <2>7, <2>8, <2>9 DEF Next
<1> QED BY <1>1, <1>2, PTL DEF Spec

-----------------------------------------------------------------------------
(* What Decision gives when the file fits the configuration.               *)

\* The contact servers of two ids are the same just when their clusters are.
LEMMA ContactTellsCluster ==
    ASSUME NEW contact, Fits(contact),
           NEW i, HasContact(i, contact), NEW j, HasContact(j, contact)
    PROVE  /\ Contact(i, contact) = Contact(j, contact) <=> ShardOf(i) = ShardOf(j)
           /\ ClusterOf(Contact(i, contact)) = ShardOf(i)
BY DEF Fits, HasContact, Contact

\* A transfer that is not skipped has a contact server for both its ids, and is
\* intra-shard just when they have one cluster.
LEMMA RoutedFits ==
    ASSUME RoutedInv, NEW n \in DOMAIN routed, Fits(routed[n].lists.contact),
           routed[n].kind # "skipped"
    PROVE  LET r == routed[n] IN
           /\ r.transfer[1] \in Clients /\ r.transfer[2] \in Clients
           /\ r.kind \in {"intra", "cross"}
           /\ r.kind = "intra" <=> ShardOf(r.transfer[1]) = ShardOf(r.transfer[2])
           /\ r.contact \in Servers
           /\ ClusterOf(r.contact) = ShardOf(r.transfer[1])
<1> DEFINE r == routed[n]
<1>1. Chosen(r)
  BY DEF RoutedInv
<1>2. Routable(r.lists.contact, r.transfer[1], r.transfer[2])
  BY <1>1 DEF Chosen
<1>3. /\ HasContact(r.transfer[1], r.lists.contact)
      /\ HasContact(r.transfer[2], r.lists.contact)
  BY <1>2 DEF Routable
<1>4. /\ r.contact = Contact(r.transfer[1], r.lists.contact)
      /\ r.kind = IF Contact(r.transfer[1], r.lists.contact)
                     = Contact(r.transfer[2], r.lists.contact) THEN "intra" ELSE "cross"
  BY <1>1, <1>2 DEF Chosen
<1>5. /\ r.contact \in Servers
      /\ r.transfer[1] \in Clients /\ r.transfer[2] \in Clients
  BY <1>3, <1>4 DEF HasContact, Contact, Fits
<1> QED BY <1>3, <1>4, <1>5, ContactTellsCluster

\* The literals of IsTransactionCrossShard are the three thirds of the ids.
LEMMA ThirdsAreBlocks ==
    ASSUME config.clusters = 3, NEW i \in Clients, NEW j \in Clients
    PROVE  IsTransactionCrossShard(i, j) <=> ShardOf(i) # ShardOf(j)
<1>1. ItemsPerCluster = 1000
  BY DEF ItemsPerCluster, DataCount
<1>2. i \in 1..3000 /\ j \in 1..3000
  BY DEF Clients, DataCount
<1>3. /\ ShardOf(i) = (i - 1) \div 1000 + 1
      /\ ShardOf(j) = (j - 1) \div 1000 + 1
  BY <1>1 DEF ShardOf
<1>4. IsTransactionCrossShard(i, j)
        <=> ~ (\/ i \in 1..1000 /\ j \in 1..1000
               \/ i \in 1001..2000 /\ j \in 1001..2000
               \/ i \in 2001..3000 /\ j \in 2001..3000)
  BY DEF IsTransactionCrossShard
<1> QED BY <1>2, <1>3, <1>4

\* With three clusters main and HandleTransaction agree on which transfers cross
\* shards, for every file that fits and all ids.
THEOREM ClassificationsAgreeHolds == Spec => []ClassificationsAgree
<1>1. RoutedInv => ClassificationsAgree
  <2> SUFFICES ASSUME RoutedInv, NEW n \in DOMAIN routed, config.clusters = 3,
                      Fits(routed[n].lists.contact), routed[n].kind # "skipped"
               PROVE  routed[n].kind = "cross" <=>
                        IsTransactionCrossShard(routed[n].transfer[1], routed[n].transfer[2])
    BY DEF ClassificationsAgree
  <2> QED BY RoutedFits, ThirdsAreBlocks
<1> QED BY <1>1, RoutedIsChosen, PTL

\* With at most three clusters of four servers, GetClusterLeaderId names a server of the
\* cluster that stores the source of the transfer.
THEOREM LeadersAreAtHomeHolds == Spec => []LeadersAreAtHome
<1>1. RoutedInv => LeadersAreAtHome
  <2> SUFFICES ASSUME RoutedInv, NEW n \in DOMAIN routed, config.clusters <= 3,
                      config.servers = 4, Fits(routed[n].lists.contact),
                      routed[n].kind # "skipped"
               PROVE  /\ GetClusterLeaderId(routed[n].contact) \in Servers
                      /\ Stored(GetClusterLeaderId(routed[n].contact), routed[n].transfer[1])
    BY DEF LeadersAreAtHome
  <2> DEFINE s == routed[n].contact
  <2>1. /\ s \in Servers
        /\ routed[n].transfer[1] \in Clients
        /\ ClusterOf(s) = ShardOf(routed[n].transfer[1])
    BY RoutedFits
  <2>2. config.clusters \in Nat
    BY DEF RoutedInv
  <2>3. s \in 1..12 /\ Servers = 1..(config.clusters * 4)
    BY <2>1, <2>2 DEF Servers
  <2> HIDE DEF s
  <2>4. GetClusterLeaderId(s) = 4 * ((s - 1) \div 4) + 1
    BY <2>3 DEF GetClusterLeaderId
  <2>5. GetClusterLeaderId(s) \in 1..s
    BY <2>3, <2>4
  <2>6. (GetClusterLeaderId(s) - 1) \div 4 = (s - 1) \div 4
    BY <2>3, <2>4
  <2>7. ClusterOf(GetClusterLeaderId(s)) = ClusterOf(s)
    BY <2>6 DEF ClusterOf
  <2>8. GetClusterLeaderId(s) \in Servers
    BY <2>1, <2>2, <2>3, <2>5
  <2> QED BY <2>1, <2>7, <2>8 DEF Stored, s
<1> QED BY <1>1, RoutedIsChosen, PTL

\* A division without remainder, and the quotient of a smaller number.
LEMMA QuotientBound ==
    ASSUME NEW q \in Nat \ {0}, NEW c \in Nat \ {0}, NEW m \in Nat, m < c * q
    PROVE  m \div q \in 0..(c - 1)
<1> DEFINE k == m \div q
<1>1. k \in Int /\ q * k <= m /\ m < q * k + q
  OBVIOUS
<1> HIDE DEF k
<1>2. k >= 0
  <2> SUFFICES ASSUME k <= -1 PROVE FALSE
    BY <1>1
  <2>1. q * k + q <= 0
    BY <1>1
  <2> QED BY <1>1, <2>1
<1>3. k < c
  <2> SUFFICES ASSUME k >= c PROVE FALSE
    BY <1>1
  <2>1. q * k >= q * c
    BY <1>1
  <2> QED BY <1>1, <2>1
<1> QED BY <1>1, <1>2, <1>3 DEF k

\* When the clusters divide the ids, every client belongs to one of them.
LEMMA EvenSplit ==
    ASSUME config.clusters \in 1..DataCount, DataCount % config.clusters = 0,
           NEW i \in Clients
    PROVE  ShardOf(i) \in 1..config.clusters
<1> DEFINE c == config.clusters
           q == ItemsPerCluster
<1>1. c \in 1..3000 /\ 3000 % c = 0 /\ i \in 1..3000
  BY DEF DataCount, Clients
<1>2. q = 3000 \div c
  BY DEF ItemsPerCluster, DataCount
<1> HIDE DEF c, q
<1>3. q \in Int /\ c * q = 3000
  BY <1>1, <1>2
<1>4. q \in Nat \ {0}
  <2> SUFFICES ASSUME q <= 0 PROVE FALSE
    BY <1>3
  <2>1. c * q <= 0
    BY <1>1, <1>3
  <2> QED BY <1>3, <2>1
<1>5. (i - 1) \div q \in 0..(c - 1)
  <2>1. i - 1 \in Nat /\ i - 1 < 3000
    BY <1>1
  <2>2. c \in Nat \ {0}
    BY <1>1
  <2> QED BY <2>1, <2>2, <1>3, <1>4, QuotientBound
<1> QED BY <1>1, <1>5 DEF ShardOf, c, q

\* When the number of clusters divides 3000, main skips no transfer between clients,
\* for every such number and every file that fits.
THEOREM EvenSplitServesAllHolds == Spec => []EvenSplitServesAll
<1>1. RoutedInv => EvenSplitServesAll
  <2> SUFFICES ASSUME RoutedInv, NEW n \in DOMAIN routed,
                      DataCount % config.clusters = 0, Fits(routed[n].lists.contact),
                      {routed[n].transfer[1], routed[n].transfer[2]} \subseteq Clients
               PROVE  routed[n].kind # "skipped"
    BY DEF EvenSplitServesAll
  <2>1. config.clusters \in 1..DataCount
    BY DEF RoutedInv
  <2>2. /\ ShardOf(routed[n].transfer[1]) \in 1..config.clusters
        /\ ShardOf(routed[n].transfer[2]) \in 1..config.clusters
    BY <2>1, EvenSplit
  <2>3. Routable(routed[n].lists.contact, routed[n].transfer[1], routed[n].transfer[2])
    BY <2>2 DEF Routable, HasContact, Fits
  <2>4. Chosen(routed[n])
    BY DEF RoutedInv
  <2> QED BY <2>3, <2>4 DEF Chosen
<1> QED BY <1>1, RoutedIsChosen, PTL


-----------------------------------------------------------------------------
(* Types.                                                                  *)

LEMMA DecisionType ==
    ASSUME NEW lists \in ListsOfSet, NEW transfer \in Seq(Int),
           config \in [clusters : Nat, servers : Nat]
    PROVE  Decision(lists, transfer) \in RoutedType
<1>1. lists.active \in Seq(Nat) /\ lists.contact \in Seq(Nat)
  BY DEF ListsOfSet
<1>2. CASE Routable(lists.contact, transfer[1], transfer[2])
  <2>1. Contact(transfer[1], lists.contact) \in Nat
    BY <1>1, <1>2 DEF Routable, HasContact, Contact
  <2>2. filterActiveServers(lists.active, ShardOf(transfer[1])) \in Seq(Nat)
    <3> DEFINE S == {s \in Servers : ClusterOf(s) = ShardOf(transfer[1])}
    <3>1. Keep(lists.active, S) \in Seq(Nat \cap S)
      <4> HIDE DEF S
      <4> QED BY <1>1, KeepElements
    <3> HIDE DEF S
    <3>2. Keep(lists.active, S) \in Seq(Nat)
      BY <3>1
    <3> QED BY <3>2 DEF filterActiveServers, S
  <2> QED BY <1>2, <2>1, <2>2 DEF Decision, RoutedType
<1>3. CASE ~Routable(lists.contact, transfer[1], transfer[2])
  <2>1. <<>> \in Seq(Nat) /\ 0 \in Nat
    OBVIOUS
  <2> QED BY <1>3, <2>1 DEF Decision, RoutedType
<1> QED BY <1>2, <1>3

\* Every variable keeps its type, and the parser has at most one set open, for every
\* configuration and every file.
THEOREM RoutingTypeCorrect == Spec => []TypeOK
<1>1. Init => TypeOK
  <2> SUFFICES ASSUME Init PROVE TypeOK
    OBVIOUS
  <2>1. rows \in Seq(Row)
    BY RoutingAssumption DEF Init
  <2> QED BY <2>1 DEF Init, TypeOK
<1>2. TypeOK /\ [Next]_vars => TypeOK'
  <2> SUFFICES ASSUME TypeOK, [Next]_vars PROVE TypeOK'
    OBVIOUS
  <2>1. CASE Configure
    BY <2>1 DEF Configure, TypeOK
  <2>2. CASE ParseRow
    <3> DEFINE r == Head(rows)
    <3>1. r \in Row /\ rows' \in Seq(Row)
      BY <2>2 DEF ParseRow, TypeOK
    <3>2. r.lists \in ListsOfSet /\ r.transfer \in Seq(Int)
      BY <3>1 DEF Row
    <3>3. /\ phase' = phase /\ config' = config /\ routed' = routed
          /\ \/ sets' = sets \o currentSet /\ currentSet' = NewSet(r)
             \/ /\ currentSet' = [i \in DOMAIN currentSet |->
                       [currentSet[i] EXCEPT !.transfers = Append(@, r.transfer)]]
                /\ sets' = sets
      BY <2>2 DEF ParseRow
    <3> HIDE DEF r
    <3>4. CASE sets' = sets \o currentSet /\ currentSet' = NewSet(r)
      <4>1. [lists |-> r.lists, transfers |-> <<r.transfer>>] \in SetType
        BY <3>2 DEF SetType
      <4>2. currentSet' \in Seq(SetType) /\ Len(currentSet') = 1
        BY <3>4, <4>1 DEF NewSet
      <4>3. sets' \in Seq(SetType)
        BY <3>4 DEF TypeOK
      <4> QED BY <3>1, <3>3, <4>2, <4>3 DEF TypeOK
    <3>5. CASE /\ currentSet' = [i \in DOMAIN currentSet |->
                       [currentSet[i] EXCEPT !.transfers = Append(@, r.transfer)]]
               /\ sets' = sets
      <4>1. \A i \in DOMAIN currentSet :
               [currentSet[i] EXCEPT !.transfers = Append(@, r.transfer)] \in SetType
        <5> TAKE i \in DOMAIN currentSet
        <5>1. currentSet[i] \in SetType
          BY DEF TypeOK
        <5>2. Append(currentSet[i].transfers, r.transfer) \in Seq(Seq(Int))
          BY <3>2, <5>1 DEF SetType
        <5> QED BY <5>1, <5>2 DEF SetType
      <4>2. currentSet' \in [1..Len(currentSet) -> SetType]
        <5>1. DOMAIN currentSet = 1..Len(currentSet)
          BY DEF TypeOK
        <5> QED BY <3>5, <4>1, <5>1
      <4>3. Len(currentSet) \in Nat /\ Len(currentSet) <= 1
        BY DEF TypeOK
      <4>4. currentSet' \in Seq(SetType) /\ Len(currentSet') <= 1
        BY <4>2, <4>3
      <4> QED BY <3>1, <3>3, <3>5, <4>4 DEF TypeOK
    <3> QED BY <3>3, <3>4, <3>5
  <2>3. CASE RefuseRow
    BY <2>3 DEF RefuseRow, TypeOK
  <2>4. CASE FinishParsing
    BY <2>4 DEF FinishParsing, TypeOK, AllSets
  <2>5. CASE RouteTransfer
    <3> DEFINE d == Decision(sets[1].lists, Head(sets[1].transfers))
    <3>1. sets[1] \in SetType /\ sets[1].transfers # <<>>
      BY <2>5 DEF RouteTransfer, TypeOK
    <3>2. /\ sets[1].lists \in ListsOfSet
          /\ Head(sets[1].transfers) \in Seq(Int)
          /\ Tail(sets[1].transfers) \in Seq(Seq(Int))
      BY <3>1 DEF SetType
    <3>3. config \in [clusters : Nat, servers : Nat]
      BY RoutingAssumption DEF TypeOK
    <3>4. d \in RoutedType
      BY <3>2, <3>3, DecisionType
    <3>5. /\ phase' = phase /\ config' = config /\ rows' = rows /\ currentSet' = currentSet
          /\ routed' = Append(routed, d)
          /\ sets' = [sets EXCEPT ![1].transfers = Tail(@)]
      BY <2>5 DEF RouteTransfer
    <3> HIDE DEF d
    <3>6. routed' \in Seq(RoutedType)
      BY <3>4, <3>5 DEF TypeOK
    <3>7. [sets[1] EXCEPT !.transfers = Tail(@)] \in SetType
      BY <3>1, <3>2 DEF SetType
    <3>8. sets' \in Seq(SetType)
      BY <2>5, <3>5, <3>7 DEF TypeOK, RouteTransfer
    <3> QED BY <3>5, <3>6, <3>8 DEF TypeOK
  <2>6. CASE NextSet
    BY <2>6 DEF NextSet, TypeOK
  <2>7. CASE Finish
    BY <2>7 DEF Finish, TypeOK
  <2>8. CASE UNCHANGED vars
    BY <2>8 DEF vars, TypeOK
  <2> QED BY <2>1, <2>2, <2>3, <2>4, <2>5, <2>6, <2>7, <2>8 DEF Next
<1> QED BY <1>1, <1>2, PTL DEF Spec

-----------------------------------------------------------------------------
(* The rows of a transfer.                                                 *)

\* For every configuration and every file that fits it, the servers that a transfer is
\* sent to store the source's row, and the destination's just when the transfer is
\* handled as intra-shard.
THEOREM ServersStoreTheRowsHolds == Spec => []ServersStoreTheRows
<1>1. RoutedInv /\ TypeOK => ServersStoreTheRows
  <2> SUFFICES ASSUME RoutedInv, TypeOK, NEW n \in DOMAIN routed,
                      Fits(routed[n].lists.contact), routed[n].kind # "skipped"
               PROVE  LET r == routed[n] IN
                      /\ Stored(r.contact, r.transfer[1])
                      /\ Stored(r.contact, r.transfer[2]) <=> r.kind = "intra"
                      /\ \A j \in DOMAIN r.active :
                             /\ Stored(r.active[j], r.transfer[1])
                             /\ Stored(r.active[j], r.transfer[2]) <=> r.kind = "intra"
    BY DEF ServersStoreTheRows
  <2> DEFINE r == routed[n]
             shard == ShardOf(r.transfer[1])
             mine == {s \in Servers : ClusterOf(s) = shard}
  <2>1. /\ r.transfer[1] \in Clients /\ r.transfer[2] \in Clients
        /\ r.kind = "intra" <=> shard = ShardOf(r.transfer[2])
        /\ ClusterOf(r.contact) = shard
    BY RoutedFits
  <2>2. \A s : ClusterOf(s) = shard =>
                 /\ Stored(s, r.transfer[1])
                 /\ Stored(s, r.transfer[2]) <=> r.kind = "intra"
    BY <2>1 DEF Stored
  <2>3. r.active = Keep(r.lists.active, mine)
    BY DEF RoutedInv, Chosen, filterActiveServers
  <2>4. r.lists.active \in Seq(Nat)
    <3>1. r \in RoutedType
      BY DEF TypeOK
    <3> HIDE DEF r
    <3>2. r.lists \in ListsOfSet
      BY <3>1 DEF RoutedType
    <3> QED BY <3>2 DEF ListsOfSet
  <2>5. \A j \in DOMAIN r.active : r.active[j] \in mine
    <3> HIDE DEF mine, r
    <3>1. Keep(r.lists.active, mine) \in Seq(Nat \cap mine)
      BY <2>4, KeepElements
    <3> QED BY <2>3, <3>1
  <2>6. \A j \in DOMAIN r.active : ClusterOf(r.active[j]) = shard
    BY <2>5
  <2> QED BY <2>1, <2>2, <2>6
<1> QED BY <1>1, RoutedIsChosen, RoutingTypeCorrect, PTL

-----------------------------------------------------------------------------
(* The transfers of a list of sets.                                        *)

\* A transfer, with the lists of its set.
Item == Seq(Int) \X ListsOfSet

LEMMA Associative ==
    ASSUME NEW a \in Seq(Item), NEW b \in Seq(Item), NEW c \in Seq(Item)
    PROVE  (a \o b) \o c = a \o (b \o c)
BY ConcatAssociative

LEMMA ListedType ==
    ASSUME NEW s \in SetType
    PROVE  /\ Listed(s) \in Seq(Item) /\ Len(Listed(s)) = Len(s.transfers)
           /\ \A i \in DOMAIN s.transfers : Listed(s)[i] = <<s.transfers[i], s.lists>>
<1>1. s.transfers \in Seq(Seq(Int)) /\ s.lists \in ListsOfSet
  BY DEF SetType
<1>2. Len(s.transfers) \in Nat /\ DOMAIN s.transfers = 1..Len(s.transfers)
  BY <1>1
<1>3. \A i \in 1..Len(s.transfers) : <<s.transfers[i], s.lists>> \in Item
  BY <1>1 DEF Item
<1>4. Listed(s) = [i \in 1..Len(s.transfers) |-> <<s.transfers[i], s.lists>>]
  BY <1>2 DEF Listed
<1> QED BY <1>2, <1>3, <1>4

\* f is the recursive function in Flatten, up to the n-th set.
IsFlat(f, ss, n) ==
    f = [i \in 0..n |-> IF i = 0 THEN <<>> ELSE f[i - 1] \o Listed(ss[i])]

LEMMA FlatExists ==
    ASSUME NEW ss, NEW n \in Nat
    PROVE  \E f : IsFlat(f, ss, n)
<1> DEFINE Bad == {m \in Nat : ~ \E f : IsFlat(f, ss, m)}
<1> SUFFICES ASSUME Bad # {} PROVE FALSE
  OBVIOUS
<1>1. PICK m \in Bad : \A k \in Bad : m <= k
  <2>1. Bad \in SUBSET Nat
    OBVIOUS
  <2> HIDE DEF Bad
  <2> QED BY <2>1, LeastNumber
<1>2. m # 0
  <2> DEFINE f == [i \in 0..0 |-> <<>>]
  <2>1. IsFlat(f, ss, 0)
    BY DEF IsFlat
  <2> HIDE DEF f
  <2> QED BY <2>1
<1>3. m - 1 \in Nat /\ m - 1 \notin Bad
  BY <1>1, <1>2
<1>4. PICK f : IsFlat(f, ss, m - 1)
  BY <1>3
<1> DEFINE g == [i \in 0..m |-> IF i < m THEN f[i] ELSE f[m - 1] \o Listed(ss[m])]
<1>5. IsFlat(g, ss, m)
  <2>1. \A i \in 0..(m - 1) : f[i] = IF i = 0 THEN <<>> ELSE f[i - 1] \o Listed(ss[i])
    BY <1>4 DEF IsFlat
  <2>2. \A i \in 0..m : g[i] = IF i = 0 THEN <<>> ELSE g[i - 1] \o Listed(ss[i])
    <3> TAKE i \in 0..m
    <3>1. CASE i = m
      BY <1>2, <1>3, <3>1
    <3>2. CASE i < m
      <4>1. g[i] = f[i] /\ (i # 0 => g[i - 1] = f[i - 1])
        BY <1>3, <3>2
      <4> QED BY <1>3, <2>1, <3>2, <4>1
    <3> QED BY <1>3, <3>1, <3>2
  <2>3. g = [i \in 0..m |-> g[i]]
    OBVIOUS
  <2> HIDE DEF g
  <2> QED BY <2>2, <2>3 DEF IsFlat
<1> HIDE DEF g
<1> QED BY <1>5

\* Flatten is computed by such a function, from the first set to the last.
LEMMA FlattenSteps ==
    ASSUME NEW ss \in Seq(SetType)
    PROVE  \E f : /\ Flatten(ss) = f[Len(ss)] /\ f[0] = <<>>
                  /\ \A i \in 1..Len(ss) : f[i] = f[i - 1] \o Listed(ss[i])
                  /\ \A i \in 0..Len(ss) : f[i] \in Seq(Item)
<1> DEFINE f == CHOOSE f : IsFlat(f, ss, Len(ss))
<1>1. Len(ss) \in Nat
  OBVIOUS
<1>2. IsFlat(f, ss, Len(ss))
  BY <1>1, FlatExists
<1>3. Flatten(ss) = f[Len(ss)]
  BY Zenon DEF Flatten, IsFlat
<1> HIDE DEF f
<1>4. f[0] = <<>> /\ \A i \in 1..Len(ss) : f[i] = f[i - 1] \o Listed(ss[i])
  BY <1>1, <1>2 DEF IsFlat
<1> DEFINE Bad == {m \in 0..Len(ss) : f[m] \notin Seq(Item)}
<1>5. Bad = {}
  <2> SUFFICES ASSUME Bad # {} PROVE FALSE
    OBVIOUS
  <2>1. PICK m \in Bad : \A k \in Bad : m <= k
    <3>1. Bad \in SUBSET Nat
      OBVIOUS
    <3> HIDE DEF Bad
    <3> QED BY <3>1, LeastNumber
  <2>2. m \in 0..Len(ss) /\ f[m] \notin Seq(Item)
    OBVIOUS
  <2>3. m # 0
    <3>1. <<>> \in Seq(Item)
      OBVIOUS
    <3> QED BY <1>4, <2>2, <3>1
  <2>4. m \in 1..Len(ss) /\ m - 1 \in 0..Len(ss) /\ m - 1 \notin Bad
    <3>1. m \in 1..Len(ss) /\ m - 1 \in 0..Len(ss) /\ ~ (m <= m - 1)
      BY <1>1, <2>2, <2>3
    <3> HIDE DEF Bad
    <3> QED BY <2>1, <3>1
  <2>5. f[m - 1] \in Seq(Item)
    BY <2>4
  <2>6. Listed(ss[m]) \in Seq(Item)
    BY <2>4, ListedType
  <2> HIDE DEF Bad
  <2>7. f[m - 1] \o Listed(ss[m]) \in Seq(Item)
    BY <2>5, <2>6
  <2> QED BY <1>4, <2>2, <2>4, <2>7
<1>6. \A i \in 0..Len(ss) : f[i] \in Seq(Item)
  BY <1>5
<1> HIDE DEF Bad
<1> QED BY <1>3, <1>4, <1>6

LEMMA FlattenType ==
    ASSUME NEW ss \in Seq(SetType)
    PROVE  Flatten(ss) \in Seq(Item)
<1>1. PICK f : Flatten(ss) = f[Len(ss)] /\ \A i \in 0..Len(ss) : f[i] \in Seq(Item)
  BY FlattenSteps
<1>2. Len(ss) \in 0..Len(ss)
  OBVIOUS
<1> QED BY <1>1, <1>2

LEMMA FlattenEmpty == Flatten(<<>>) = <<>>
<1>1. <<>> \in Seq(SetType) /\ Len(<<>>) = 0
  OBVIOUS
<1> QED BY <1>1, FlattenSteps

\* The last set's transfers come last.
LEMMA FlattenLast ==
    ASSUME NEW ss \in Seq(SetType), NEW s \in SetType
    PROVE  Flatten(Append(ss, s)) = Flatten(ss) \o Listed(s)
<1> DEFINE tt == Append(ss, s)
           n == Len(ss)
<1>1. /\ n \in Nat /\ tt \in Seq(SetType) /\ Len(tt) = n + 1
      /\ \A i \in 1..n : tt[i] = ss[i]
      /\ tt[n + 1] = s
  OBVIOUS
<1> HIDE DEF tt, n
<1>2. PICK f : /\ Flatten(ss) = f[n] /\ f[0] = <<>>
               /\ \A i \in 1..n : f[i] = f[i - 1] \o Listed(ss[i])
  BY FlattenSteps DEF n
<1>3. PICK g : /\ Flatten(tt) = g[n + 1] /\ g[0] = <<>>
               /\ \A i \in 1..(n + 1) : g[i] = g[i - 1] \o Listed(tt[i])
  BY <1>1, FlattenSteps
<1> DEFINE Bad == {m \in 0..n : f[m] # g[m]}
<1>4. Bad = {}
  <2> SUFFICES ASSUME Bad # {} PROVE FALSE
    OBVIOUS
  <2>1. PICK m \in Bad : \A k \in Bad : m <= k
    <3>1. Bad \in SUBSET Nat
      BY <1>1
    <3> HIDE DEF Bad
    <3> QED BY <3>1, LeastNumber
  <2>2. m \in 0..n /\ f[m] # g[m]
    OBVIOUS
  <2>3. m # 0
    BY <1>2, <1>3, <2>2
  <2>4. m \in 1..n /\ m \in 1..(n + 1) /\ m - 1 \in 0..n /\ ~ (m <= m - 1)
    BY <1>1, <2>2, <2>3
  <2>5. f[m - 1] = g[m - 1]
    <3>1. m - 1 \notin Bad
      <4> HIDE DEF Bad
      <4> QED BY <2>1, <2>4
    <3> QED BY <2>4, <3>1
  <2> HIDE DEF Bad
  <2> QED BY <1>1, <1>2, <1>3, <2>2, <2>4, <2>5
<1>5. f[n] = g[n]
  <2>1. n \in 0..n
    BY <1>1
  <2> QED BY <1>4, <2>1
<1> HIDE DEF Bad
<1>6. n + 1 \in 1..(n + 1) /\ (n + 1) - 1 = n
  BY <1>1
<1>7. Flatten(tt) = g[n] \o Listed(s)
  BY <1>1, <1>3, <1>6
<1> QED BY <1>2, <1>5, <1>7 DEF tt

\* The first set's transfers come first.
LEMMA FlattenFirst ==
    ASSUME NEW ss \in Seq(SetType), ss # <<>>
    PROVE  Flatten(ss) = Listed(ss[1]) \o Flatten(Tail(ss))
<1> DEFINE tt == Tail(ss)
           n == Len(tt)
           first == Listed(ss[1])
<1>1. /\ n \in Nat /\ tt \in Seq(SetType) /\ Len(ss) = n + 1 /\ ss[1] \in SetType
      /\ \A i \in 1..n : tt[i] = ss[i + 1]
  OBVIOUS
<1>2. first \in Seq(Item)
  BY <1>1, ListedType
<1> HIDE DEF tt, n, first
<1>3. PICK f : /\ Flatten(ss) = f[n + 1] /\ f[0] = <<>>
               /\ \A i \in 1..(n + 1) : f[i] = f[i - 1] \o Listed(ss[i])
  BY <1>1, FlattenSteps
<1>4. PICK g : /\ Flatten(tt) = g[n] /\ g[0] = <<>>
               /\ \A i \in 1..n : g[i] = g[i - 1] \o Listed(tt[i])
               /\ \A i \in 0..n : g[i] \in Seq(Item)
  BY <1>1, FlattenSteps DEF n
<1> DEFINE Bad == {m \in 0..n : f[m + 1] # first \o g[m]}
<1>5. Bad = {}
  <2> SUFFICES ASSUME Bad # {} PROVE FALSE
    OBVIOUS
  <2>1. PICK m \in Bad : \A k \in Bad : m <= k
    <3>1. Bad \in SUBSET Nat
      BY <1>1
    <3> HIDE DEF Bad
    <3> QED BY <3>1, LeastNumber
  <2>2. m \in 0..n /\ f[m + 1] # first \o g[m]
    OBVIOUS
  <2>3. m # 0
    <3>1. f[1] = <<>> \o first
      <4>1. 1 \in 1..(n + 1) /\ 1 - 1 = 0
        BY <1>1
      <4> QED BY <1>3, <4>1 DEF first
    <3>2. first \o g[0] = first /\ <<>> \o first = first
      BY <1>2, <1>4, ConcatEmptySeq
    <3> QED BY <2>2, <3>1, <3>2
  <2>4. m \in 1..n /\ m + 1 \in 1..(n + 1) /\ (m + 1) - 1 = m /\ m - 1 \in 0..n /\ ~ (m <= m - 1)
        /\ (m - 1) + 1 = m
    BY <1>1, <2>2, <2>3
  <2>5. f[m] = first \o g[m - 1]
    <3>1. m - 1 \notin Bad
      <4> HIDE DEF Bad
      <4> QED BY <2>1, <2>4
    <3> QED BY <2>4, <3>1
  <2> HIDE DEF Bad
  <2>6. f[m + 1] = f[m] \o Listed(ss[m + 1])
    BY <1>3, <2>4
  <2>7. g[m] = g[m - 1] \o Listed(ss[m + 1])
    BY <1>1, <1>4, <2>4
  <2>8. g[m - 1] \in Seq(Item) /\ Listed(ss[m + 1]) \in Seq(Item)
    <3>1. ss[m + 1] \in SetType
      BY <1>1, <2>4
    <3> QED BY <1>4, <2>4, <3>1, ListedType
  <2>9. (first \o g[m - 1]) \o Listed(ss[m + 1]) = first \o (g[m - 1] \o Listed(ss[m + 1]))
    <3> DEFINE middle == g[m - 1]
               last == Listed(ss[m + 1])
    <3> HIDE DEF middle, last
    <3>1. middle \in Seq(Item) /\ last \in Seq(Item)
      BY <2>8 DEF middle, last
    <3>2. (first \o middle) \o last = first \o (middle \o last)
      BY <1>2, <3>1, Associative
    <3> QED BY <3>2 DEF middle, last
  <2> QED BY <2>2, <2>5, <2>6, <2>7, <2>9
<1>6. f[n + 1] = first \o g[n]
  <2>1. n \in 0..n
    BY <1>1
  <2> QED BY <1>5, <2>1
<1> HIDE DEF Bad
<1> QED BY <1>3, <1>4, <1>6 DEF first, tt

\* A set that is open may be closed: it becomes the last one.
LEMMA FlattenClosed ==
    ASSUME NEW ss \in Seq(SetType), NEW last \in Seq(SetType), Len(last) <= 1
    PROVE  Flatten(ss \o last) = Flatten(ss) \o Flatten(last)
<1>1. CASE last = <<>>
  <2>1. ss \o last = ss /\ Flatten(ss) \o <<>> = Flatten(ss)
    BY <1>1, FlattenType, ConcatEmptySeq
  <2> QED BY <1>1, <2>1, FlattenEmpty
<1>2. CASE last # <<>>
  <2>1. last[1] \in SetType /\ last = <<last[1]>> /\ last = Append(<<>>, last[1])
    <3>1. Len(last) = 1 /\ last[1] \in SetType
      <4> DEFINE n == Len(last)
      <4>1. n \in Nat /\ n # 0 /\ n <= 1
        BY <1>2, EmptySeq
      <4> HIDE DEF n
      <4>2. n = 1 /\ 1 \in 1..n
        BY <4>1
      <4> QED BY <4>2, ElementOfSeq DEF n
    <3>2. <<last[1]>> \in Seq(SetType) /\ Len(<<last[1]>>) = 1 /\ <<last[1]>>[1] = last[1]
      BY <3>1
    <3>3. last = <<last[1]>>
      BY <3>1, <3>2, SeqEqual
    <3> QED BY <3>1, <3>3
  <2>2. ss \o last = Append(ss, last[1])
    BY <2>1, AppendIsConcat
  <2>3. Flatten(last) = <<>> \o Listed(last[1])
    <3>1. <<>> \in Seq(SetType)
      OBVIOUS
    <3> QED BY <2>1, <3>1, FlattenLast, FlattenEmpty
  <2>4. <<>> \o Listed(last[1]) = Listed(last[1])
    BY <2>1, ListedType, ConcatEmptySeq
  <2>5. Flatten(Append(ss, last[1])) = Flatten(ss) \o Listed(last[1])
    BY <2>1, FlattenLast
  <2> QED BY <2>2, <2>3, <2>4, <2>5
<1> QED BY <1>1, <1>2

-----------------------------------------------------------------------------
(* The transfers of the rows that are still to parse.                      *)

\* The last row up to i that names a set decides about the lists of row i.
LEMMA LastNaming ==
    ASSUME NEW file, NEW i \in Nat, Naming(file, i) # {}
    PROVE  \E j \in Naming(file, i) : \A k \in Naming(file, i) : k <= j
<1> DEFINE N == Naming(file, i)
           Below == {i - j : j \in N}
<1>1. N \subseteq 1..i
  BY DEF Naming
<1>2. PICK n \in Below : \A m \in Below : n <= m
  <2>1. Below \in SUBSET Nat /\ Below # {}
    BY <1>1
  <2> HIDE DEF Below
  <2> QED BY <2>1, LeastNumber
<1>3. PICK j \in N : n = i - j
  OBVIOUS
<1>4. ASSUME NEW k \in N PROVE k <= j
  <2>1. i - k \in Below
    OBVIOUS
  <2>2. i - j <= i - k
    BY <1>2, <1>3, <2>1
  <2>3. j \in Int /\ k \in Int
    BY <1>1
  <2> QED BY <2>2, <2>3
<1> QED BY <1>4

LEMMA ListsOfLast ==
    ASSUME NEW file, NEW before, NEW i \in Nat, NEW j \in Naming(file, i),
           \A k \in Naming(file, i) : k <= j
    PROVE  ListsOf(file, before, i) = file[j].lists
<1> DEFINE N == Naming(file, i)
           c == CHOOSE x \in N : \A k \in N : k <= x
<1>1. N \subseteq 1..i
  BY DEF Naming
<1>2. c \in N /\ \A k \in N : k <= c
  OBVIOUS
<1>3. c = j
  <2>1. c \in Int /\ j \in Int /\ c <= j /\ j <= c
    BY <1>1, <1>2
  <2> HIDE DEF c
  <2> QED BY <2>1
<1>4. ListsOf(file, before, i) = file[c].lists
  BY DEF ListsOf
<1> QED BY <1>3, <1>4

\* The rows ahead of the first set are those up to a row that names none.
LEMMA AheadIs ==
    ASSUME NEW file \in Seq(Row), NEW before
    PROVE  /\ Ahead(file, before) \in 0..Len(file)
           /\ \A i \in DOMAIN file :
                 i <= Ahead(file, before) <=> (before = <<>> /\ Naming(file, i) = {})
<1> DEFINE Right(n) == \A i \in DOMAIN file : i <= n <=> (before = <<>> /\ Naming(file, i) = {})
<1>1. Len(file) \in Nat /\ DOMAIN file = 1..Len(file)
  OBVIOUS
<1>2. \E n \in 0..Len(file) : Right(n)
  <2>1. CASE before # <<>>
    <3>1. 0 \in 0..Len(file) /\ \A i \in DOMAIN file : ~ (i <= 0)
      BY <1>1
    <3> QED BY <2>1, <3>1
  <2>2. CASE before = <<>>
    <3> DEFINE T == {i \in 1..Len(file) : file[i].set # 0}
    <3>1. CASE T = {}
      <4>1. \A i \in DOMAIN file : i <= Len(file) /\ Naming(file, i) = {}
        BY <1>1, <3>1 DEF Naming
      <4>2. Len(file) \in 0..Len(file)
        BY <1>1
      <4> QED BY <2>2, <4>1, <4>2
    <3>2. CASE T # {}
      <4>1. PICK n \in T : \A m \in T : n <= m
        <5>1. T \in SUBSET Nat
          OBVIOUS
        <5> HIDE DEF T
        <5> QED BY <3>2, <5>1, LeastNumber
      <4>2. n \in 1..Len(file) /\ file[n].set # 0 /\ n - 1 \in 0..Len(file)
        BY <1>1
      <4>3. ASSUME NEW i \in DOMAIN file
            PROVE  i <= n - 1 <=> Naming(file, i) = {}
        <5>0. i \in 1..Len(file) /\ i \in Int /\ n \in Int
          BY <1>1, <4>2
        <5>1. CASE i <= n - 1
          <6>1. \A j \in 1..i : j \in 1..Len(file) /\ ~ (n <= j)
            BY <1>1, <4>2, <5>0, <5>1
          <6>2. \A j \in 1..i : file[j].set = 0
            BY <4>1, <6>1
          <6> QED BY <5>1, <6>2 DEF Naming
        <5>2. CASE ~ (i <= n - 1)
          <6>1. n \in 1..i
            BY <4>2, <5>0, <5>2
          <6>2. n \in Naming(file, i)
            BY <4>2, <6>1 DEF Naming
          <6> QED BY <5>2, <6>2
        <5> QED BY <5>1, <5>2
      <4> QED BY <2>2, <4>2, <4>3
    <3> QED BY <3>1, <3>2
  <2> QED BY <2>1, <2>2
<1>3. Ahead(file, before) = CHOOSE n \in 0..Len(file) : Right(n)
  BY DEF Ahead
<1>4. Ahead(file, before) \in 0..Len(file) /\ Right(Ahead(file, before))
  BY <1>2, <1>3
<1> QED BY <1>4

LEMMA ListsOfType ==
    ASSUME NEW file \in Seq(Row), NEW before \in Seq(SetType), NEW i \in DOMAIN file,
           ~ (i <= Ahead(file, before))
    PROVE  ListsOf(file, before, i) \in ListsOfSet
<1>1. i \in Nat /\ 1..i \subseteq DOMAIN file
  OBVIOUS
<1>2. CASE Naming(file, i) = {}
  <2>1. before # <<>>
    BY <1>2, AheadIs
  <2>2. before[1] \in SetType
    BY <2>1
  <2> QED BY <1>2, <2>2 DEF ListsOf, SetType
<1>3. CASE Naming(file, i) # {}
  <2>1. PICK j \in Naming(file, i) : \A k \in Naming(file, i) : k <= j
    BY <1>1, <1>3, LastNaming
  <2>2. j \in DOMAIN file
    BY <1>1 DEF Naming
  <2>3. file[j] \in Row
    BY <2>2
  <2>4. ListsOf(file, before, i) = file[j].lists
    BY <1>1, <2>1, ListsOfLast
  <2> QED BY <2>3, <2>4 DEF Row
<1> QED BY <1>2, <1>3

LEMMA ToParseType ==
    ASSUME NEW file \in Seq(Row), NEW before \in Seq(SetType)
    PROVE  LET n == Len(file) - Ahead(file, before) IN
           /\ ToParse(file, before) \in Seq(Item) /\ Len(ToParse(file, before)) = n /\ n \in Nat
           /\ \A k \in 1..n :
                 ToParse(file, before)[k] = <<file[k + Ahead(file, before)].transfer,
                                              ListsOf(file, before, k + Ahead(file, before))>>
<1> DEFINE a == Ahead(file, before)
           n == Len(file) - a
           e(k) == <<file[k + a].transfer, ListsOf(file, before, k + a)>>
<1>1. Len(file) \in Nat /\ a \in 0..Len(file) /\ DOMAIN file = 1..Len(file)
  BY AheadIs
<1>2. ToParse(file, before) = [k \in 1..n |-> e(k)]
  BY DEF ToParse
<1>3. n \in Nat
  BY <1>1
<1>4. ASSUME NEW k \in 1..n PROVE e(k) \in Item
  <2>1. k + a \in DOMAIN file /\ ~ (k + a <= a)
    BY <1>1
  <2>2. ListsOf(file, before, k + a) \in ListsOfSet
    BY <2>1, ListsOfType
  <2>3. file[k + a] \in Row
    BY <2>1
  <2> QED BY <2>2, <2>3 DEF Row, Item
<1> HIDE DEF n, e
<1>5. ToParse(file, before) \in Seq(Item) /\ Len(ToParse(file, before)) = n
  BY <1>2, <1>3, <1>4
<1>6. \A k \in 1..n : ToParse(file, before)[k] = e(k)
  BY <1>2
<1> QED BY <1>3, <1>5, <1>6 DEF n, e

\* after is the open set that parsing the first row of file leaves when before was open.
Opens(file, before, after) ==
    /\ after = <<>> <=> (before = <<>> /\ file[1].set = 0)
    /\ after[1].lists = IF file[1].set # 0 THEN file[1].lists ELSE before[1].lists

\* Parsing one row does not change the lists of the rows behind it.
LEMMA ListsOfTail ==
    ASSUME NEW file \in Seq(Row), file # <<>>, NEW before, NEW after,
           Opens(file, before, after), NEW i \in 1..Len(Tail(file))
    PROVE  ListsOf(file, before, i + 1) = ListsOf(Tail(file), after, i)
<1> DEFINE rest == Tail(file)
<1>1. /\ Len(rest) \in Nat /\ Len(file) = Len(rest) + 1
      /\ \A k \in 1..Len(rest) : rest[k] = file[k + 1]
  BY HeadTailProperties
<1>2. i \in Nat /\ i + 1 \in Nat /\ 1 \in 1..(i + 1)
  BY <1>1
<1> HIDE DEF rest
<1>3. \A k \in Naming(rest, i) : k + 1 \in Naming(file, i + 1) /\ k \in Int
  BY <1>1, <1>2 DEF Naming, rest
<1>4. \A k \in Naming(file, i + 1) : k \in Int /\ k >= 1 /\ (k # 1 => k - 1 \in Naming(rest, i))
  <2> SUFFICES ASSUME NEW k \in Naming(file, i + 1)
               PROVE  k \in Int /\ k >= 1 /\ (k # 1 => k - 1 \in Naming(rest, i))
    OBVIOUS
  <2>1. k \in 1..(i + 1) /\ file[k].set # 0
    BY DEF Naming
  <2>2. CASE k # 1
    <3>1. k - 1 \in 1..i /\ k - 1 \in 1..Len(rest) /\ (k - 1) + 1 = k
      BY <1>1, <1>2, <2>1, <2>2 DEF rest
    <3>2. rest[k - 1] = file[k]
      BY <1>1, <3>1
    <3> QED BY <2>1, <3>1, <3>2 DEF Naming
  <2> QED BY <1>2, <2>1, <2>2
<1>5. 1 \in Naming(file, i + 1) <=> file[1].set # 0
  BY <1>2 DEF Naming
<1>6. CASE Naming(rest, i) # {}
  <2>1. PICK j \in Naming(rest, i) : \A k \in Naming(rest, i) : k <= j
    BY <1>2, <1>6, LastNaming
  <2>2. ListsOf(rest, after, i) = rest[j].lists
    BY <1>2, <2>1, ListsOfLast
  <2>3. j \in 1..i /\ j \in 1..Len(rest) /\ rest[j] = file[j + 1]
    <3>1. j \in 1..i
      BY DEF Naming
    <3>2. j \in 1..Len(rest)
      BY <1>1, <3>1 DEF rest
    <3> QED BY <1>1, <3>1, <3>2
  <2>4. j + 1 \in Naming(file, i + 1)
    BY <1>3
  <2>5. \A k \in Naming(file, i + 1) : k <= j + 1
    <3> TAKE k \in Naming(file, i + 1)
    <3>1. k \in Int /\ (k # 1 => k - 1 <= j)
      BY <1>4, <2>1
    <3> QED BY <2>3, <3>1
  <2>6. ListsOf(file, before, i + 1) = file[j + 1].lists
    BY <1>2, <2>4, <2>5, ListsOfLast
  <2> QED BY <2>2, <2>3, <2>6 DEF rest
<1>7. CASE Naming(rest, i) = {}
  <2>1. ListsOf(rest, after, i) = after[1].lists
    BY <1>7 DEF ListsOf
  <2>2. CASE file[1].set # 0
    <3>1. \A k \in Naming(file, i + 1) : k <= 1
      BY <1>4, <1>7
    <3>2. ListsOf(file, before, i + 1) = file[1].lists
      BY <1>2, <1>5, <2>2, <3>1, ListsOfLast
    <3> QED BY <2>1, <2>2, <3>2 DEF Opens, rest
  <2>3. CASE file[1].set = 0
    <3>1. Naming(file, i + 1) = {}
      BY <1>4, <1>5, <1>7, <2>3
    <3>2. ListsOf(file, before, i + 1) = before[1].lists
      BY <3>1 DEF ListsOf
    <3> QED BY <2>1, <2>3, <3>2 DEF Opens, rest
  <2> QED BY <2>2, <2>3
<1> QED BY <1>6, <1>7

\* Parsing the first row takes its transfer off the list, or nothing when no set is open.
LEMMA ToParseTail ==
    ASSUME NEW file \in Seq(Row), file # <<>>, NEW before \in Seq(SetType),
           NEW after \in Seq(SetType), Opens(file, before, after)
    PROVE  ToParse(file, before) =
               IF after = <<>> THEN ToParse(Tail(file), after)
               ELSE <<<<file[1].transfer, after[1].lists>>>> \o ToParse(Tail(file), after)
<1> DEFINE rest == Tail(file)
           a == Ahead(file, before)
           b == Ahead(rest, after)
           old == ToParse(file, before)
           new == ToParse(rest, after)
<1>1. /\ rest \in Seq(Row) /\ Len(rest) \in Nat /\ Len(file) = Len(rest) + 1
      /\ \A k \in 1..Len(rest) : rest[k] = file[k + 1]
  BY HeadTailProperties
<1>2. DOMAIN file = 1..Len(file) /\ DOMAIN rest = 1..Len(rest)
  BY <1>1
<1>3. /\ a \in 0..Len(file) /\ b \in 0..Len(rest)
      /\ \A i \in DOMAIN file : i <= a <=> (before = <<>> /\ Naming(file, i) = {})
      /\ \A i \in DOMAIN rest : i <= b <=> (after = <<>> /\ Naming(rest, i) = {})
  BY <1>1, AheadIs
<1>4. /\ old \in Seq(Item) /\ Len(old) = Len(file) - a
      /\ \A k \in 1..(Len(file) - a) :
            old[k] = <<file[k + a].transfer, ListsOf(file, before, k + a)>>
  BY ToParseType
<1>5. /\ new \in Seq(Item) /\ Len(new) = Len(rest) - b
      /\ \A k \in 1..(Len(rest) - b) :
            new[k] = <<rest[k + b].transfer, ListsOf(rest, after, k + b)>>
  BY <1>1, ToParseType
<1>6. \A k \in 1..Len(rest) : ListsOf(file, before, k + 1) = ListsOf(rest, after, k)
  BY ListsOfTail
<1> HIDE DEF rest, a, b, old, new
<1>7. ASSUME NEW k \in 1..Len(rest), ~ (k <= b)
      PROVE  <<file[k + 1].transfer, ListsOf(file, before, k + 1)>>
             = <<rest[k].transfer, ListsOf(rest, after, k)>>
  BY <1>1, <1>6
<1>8. CASE after = <<>>
  <2>1. before = <<>> /\ file[1].set = 0
    BY <1>8 DEF Opens
  <2>2. \A k \in 1..Len(rest) : Naming(rest, k) = {} <=> Naming(file, k + 1) = {}
    <3> TAKE k \in 1..Len(rest)
    <3>1. \A j \in 1..k : j + 1 \in 1..(k + 1) /\ rest[j] = file[j + 1]
      BY <1>1
    <3>2. ASSUME NEW j \in Naming(rest, k) PROVE j + 1 \in Naming(file, k + 1)
      BY <3>1, <3>2 DEF Naming
    <3>3. ASSUME NEW j \in Naming(file, k + 1) PROVE j - 1 \in Naming(rest, k)
      <4>1. j \in 1..(k + 1) /\ file[j].set # 0
        BY <3>3 DEF Naming
      <4>2. j - 1 \in 1..k /\ (j - 1) + 1 = j
        BY <1>1, <2>1, <4>1
      <4>3. rest[j - 1] = file[j]
        BY <3>1, <4>2
      <4> QED BY <4>1, <4>2, <4>3 DEF Naming
    <3> QED BY <3>2, <3>3
  <2>3. \A k \in 1..Len(rest) : k + 1 <= a <=> k <= b
    <3> TAKE k \in 1..Len(rest)
    <3>1. k + 1 \in DOMAIN file /\ k \in DOMAIN rest
      BY <1>1, <1>2
    <3> QED BY <1>3, <1>8, <2>1, <2>2, <3>1
  <2>4. 1 <= a
    <3>1. 1 \in DOMAIN file /\ Naming(file, 1) = {}
      BY <1>1, <1>2, <2>1 DEF Naming
    <3> QED BY <1>3, <2>1, <3>1
  <2>5. a = b + 1
    <3>1. /\ a \in Int /\ b \in Int /\ a <= Len(rest) + 1 /\ b <= Len(rest) /\ 0 <= b
          /\ a - 1 \in 0..Len(rest)
      BY <1>1, <1>3, <2>4
    <3>2. ~ (a - 1 > b)
      <4> SUFFICES ASSUME a - 1 > b PROVE FALSE
        OBVIOUS
      <4>1. a - 1 \in 1..Len(rest) /\ (a - 1) + 1 <= a /\ ~ (a - 1 <= b)
        BY <1>1, <3>1
      <4> QED BY <2>3, <4>1
    <3>3. ~ (b > a - 1)
      <4> SUFFICES ASSUME b > a - 1 PROVE FALSE
        OBVIOUS
      <4>1. b \in 1..Len(rest) /\ b <= b /\ ~ (b + 1 <= a)
        BY <1>1, <3>1
      <4> QED BY <2>3, <4>1
    <3> QED BY <3>1, <3>2, <3>3
  <2>6. Len(old) = Len(new) /\ Len(new) \in Nat
    BY <1>1, <1>3, <1>4, <1>5, <2>5
  <2>7. \A k \in 1..Len(old) : old[k] = new[k]
    <3> TAKE k \in 1..Len(old)
    <3>1. k \in 1..(Len(file) - a) /\ k \in 1..(Len(rest) - b)
      BY <1>4, <1>5, <2>6
    <3>2. k + b \in 1..Len(rest) /\ ~ (k + b <= b) /\ k + a = (k + b) + 1
      BY <1>1, <1>3, <2>5, <3>1
    <3>3. /\ old[k] = <<file[k + a].transfer, ListsOf(file, before, k + a)>>
          /\ new[k] = <<rest[k + b].transfer, ListsOf(rest, after, k + b)>>
      BY <1>4, <1>5, <3>1
    <3> QED BY <1>7, <3>2, <3>3
  <2>8. old = new
    BY <1>4, <1>5, <2>6, <2>7, SeqEqual
  <2> QED BY <1>8, <2>8 DEF old, new, rest
<1>9. CASE after # <<>>
  <2>1. ~ (before = <<>> /\ file[1].set = 0)
    BY <1>9 DEF Opens
  <2>2. a = 0
    <3> SUFFICES ASSUME a # 0 PROVE FALSE
      OBVIOUS
    <3>1. a \in 1..Len(file) /\ a <= a /\ 1 \in 1..a
      BY <1>1, <1>3
    <3>2. before = <<>> /\ Naming(file, a) = {}
      BY <1>2, <1>3, <3>1
    <3>3. 1 \in Naming(file, a)
      BY <2>1, <3>1, <3>2 DEF Naming
    <3> QED BY <3>2, <3>3
  <2>3. b = 0
    <3> SUFFICES ASSUME b # 0 PROVE FALSE
      OBVIOUS
    <3>1. b \in 1..Len(rest) /\ b <= b
      BY <1>1, <1>3
    <3> QED BY <1>2, <1>3, <1>9, <3>1
  <2>4. ListsOf(file, before, 1) = after[1].lists
    <3>1. CASE file[1].set # 0
      <4>1. 1 \in Naming(file, 1) /\ \A k \in Naming(file, 1) : k <= 1
        BY <3>1 DEF Naming
      <4>2. ListsOf(file, before, 1) = file[1].lists
        BY <4>1, ListsOfLast
      <4> QED BY <3>1, <4>2 DEF Opens
    <3>2. CASE file[1].set = 0
      <4>1. Naming(file, 1) = {}
        BY <3>2 DEF Naming
      <4> QED BY <3>2, <4>1 DEF ListsOf, Opens
    <3> QED BY <3>1, <3>2
  <2> DEFINE x == <<file[1].transfer, after[1].lists>>
  <2>5. old[1] = x /\ Len(old) = Len(new) + 1 /\ Len(new) \in Nat
    <3>1. Len(old) = Len(rest) + 1 /\ Len(new) = Len(rest)
      BY <1>1, <1>4, <1>5, <2>2, <2>3
    <3>2. 1 \in 1..(Len(file) - a) /\ 1 + a = 1
      BY <1>1, <2>2
    <3>3. old[1] = <<file[1].transfer, ListsOf(file, before, 1)>>
      BY <1>4, <3>2
    <3> QED BY <1>1, <2>4, <3>1, <3>3
  <2> HIDE DEF x
  <2>6. x \in Item /\ <<x>> \in Seq(Item) /\ Len(<<x>>) = 1 /\ <<x>>[1] = x
    <3>1. 1 \in 1..Len(old)
      BY <2>5
    <3>2. x \in Item
      BY <1>4, <2>5, <3>1, ElementOfSeq
    <3> QED BY <3>2
  <2>7. \A k \in 1..Len(new) : old[k + 1] = new[k]
    <3> TAKE k \in 1..Len(new)
    <3>1. /\ k + 1 \in 1..(Len(file) - a) /\ k \in 1..(Len(rest) - b) /\ k \in 1..Len(rest)
          /\ (k + 1) + a = k + 1 /\ k + b = k /\ ~ (k <= b)
      BY <1>1, <1>4, <1>5, <2>2, <2>3
    <3>2. /\ old[k + 1] = <<file[k + 1].transfer, ListsOf(file, before, k + 1)>>
          /\ new[k] = <<rest[k].transfer, ListsOf(rest, after, k)>>
      BY <1>4, <1>5, <3>1
    <3> QED BY <1>7, <3>1, <3>2
  <2>8. /\ <<x>> \o new \in Seq(Item) /\ Len(<<x>> \o new) = 1 + Len(new)
        /\ \A k \in 1..(1 + Len(new)) :
              (<<x>> \o new)[k] = IF k <= 1 THEN <<x>>[k] ELSE new[k - 1]
    BY <1>5, <2>6, ConcatProperties
  <2>9. \A k \in 1..Len(old) : old[k] = (<<x>> \o new)[k]
    <3> TAKE k \in 1..Len(old)
    <3>1. k \in 1..(1 + Len(new))
      BY <2>5
    <3>2. CASE k = 1
      BY <2>5, <2>6, <2>8, <3>1, <3>2
    <3>3. CASE k # 1
      <4>1. k - 1 \in 1..Len(new) /\ (k - 1) + 1 = k /\ ~ (k <= 1)
        BY <2>5, <3>1, <3>3
      <4> QED BY <2>7, <2>8, <3>1, <4>1
    <3> QED BY <3>2, <3>3
  <2>10. Len(old) = Len(<<x>> \o new)
    BY <2>5, <2>8
  <2>11. old = <<x>> \o new
    BY <1>4, <2>8, <2>9, <2>10, SeqEqual
  <2> QED BY <1>9, <2>11 DEF old, new, rest, x
<1> QED BY <1>8, <1>9

-----------------------------------------------------------------------------
(* No transfer is lost.                                                    *)

Handled == [i \in DOMAIN routed |-> <<routed[i].transfer, routed[i].lists>>]

LEMMA HandledType ==
    ASSUME TypeOK
    PROVE  /\ Handled \in Seq(Item) /\ Flatten(sets) \in Seq(Item)
           /\ Flatten(currentSet) \in Seq(Item) /\ ToParse(rows, currentSet) \in Seq(Item)
<1>1. /\ routed \in Seq(RoutedType) /\ sets \in Seq(SetType) /\ currentSet \in Seq(SetType)
      /\ rows \in Seq(Row)
  BY DEF TypeOK
<1>2. Len(routed) \in Nat /\ DOMAIN routed = 1..Len(routed)
  BY <1>1
<1>3. \A i \in 1..Len(routed) : <<routed[i].transfer, routed[i].lists>> \in Item
  <2> TAKE i \in 1..Len(routed)
  <2>1. routed[i] \in RoutedType
    BY <1>1, <1>2
  <2> QED BY <2>1 DEF RoutedType, Item
<1>4. Handled \in Seq(Item)
  BY <1>2, <1>3 DEF Handled
<1> QED BY <1>1, <1>4, FlattenType, ToParseType

\* A row is parsed.
LEMMA ParseKeeps ==
    ASSUME TypeOK, TypeOK', ParseRow
    PROVE  Backlog' = Backlog
<1> DEFINE r == Head(rows)
           x == <<r.transfer, currentSet'[1].lists>>
           H == Handled
           F == Flatten(sets)
           C == Flatten(currentSet)
           P == ToParse(rows', currentSet')
<1>1. /\ rows \in Seq(Row) /\ rows # <<>> /\ rows' = Tail(rows) /\ r = rows[1] /\ r \in Row
      /\ sets \in Seq(SetType) /\ currentSet \in Seq(SetType) /\ Len(currentSet) <= 1
      /\ rows' \in Seq(Row) /\ currentSet' \in Seq(SetType) /\ routed' = routed
  BY DEF ParseRow, TypeOK
<1>2. H \in Seq(Item) /\ F \in Seq(Item) /\ C \in Seq(Item) /\ P \in Seq(Item)
  <2>1. P \in Seq(Item)
    BY <1>1, ToParseType
  <2> QED BY <2>1, HandledType
<1>3. Backlog = ((H \o F) \o C) \o ToParse(rows, currentSet)
  BY DEF Backlog, Handled
<1>4. Backlog' = ((H \o Flatten(sets')) \o Flatten(currentSet')) \o P
  BY <1>1 DEF Backlog, Handled
<1>5. CASE r.set # 0
  <2>1. sets' = sets \o currentSet /\ currentSet' = <<[lists |-> r.lists, transfers |-> <<r.transfer>>]>>
    BY <1>5 DEF ParseRow, NewSet
  <2> DEFINE s == [lists |-> r.lists, transfers |-> <<r.transfer>>]
  <2>2. s \in SetType /\ Listed(s) = <<x>>
    <3>1. r.lists \in ListsOfSet /\ r.transfer \in Seq(Int)
      BY <1>1 DEF Row
    <3>2. s \in SetType
      BY <3>1 DEF SetType
    <3>3. x = <<r.transfer, r.lists>>
      BY <2>1
    <3>4. DOMAIN s.transfers = 1..1 /\ s.transfers[1] = r.transfer /\ s.lists = r.lists
      OBVIOUS
    <3> HIDE DEF s, x
    <3>5. Listed(s) = [i \in 1..1 |-> x]
      BY <3>3, <3>4 DEF Listed
    <3> QED BY <3>2, <3>5
  <2>3. Opens(rows, currentSet, currentSet') /\ currentSet' # <<>>
    BY <1>1, <1>5, <2>1 DEF Opens
  <2> HIDE DEF r, x, s, H, F, C, P
  <2>4. ToParse(rows, currentSet) = <<x>> \o P
    BY <1>1, <2>3, ToParseTail DEF P, x
  <2>5. Flatten(sets') = F \o C
    BY <1>1, <2>1, FlattenClosed DEF F, C
  <2>6. Flatten(currentSet') = <<x>>
    <3>1. currentSet' = Append(<<>>, s) /\ <<>> \in Seq(SetType)
      BY <2>1 DEF s
    <3>2. Flatten(currentSet') = <<>> \o Listed(s)
      BY <2>2, <3>1, FlattenLast, FlattenEmpty
    <3>3. <<>> \o Listed(s) = Listed(s)
      BY <2>2, ListedType, ConcatEmptySeq
    <3> QED BY <2>2, <3>2, <3>3
  <2>7. <<x>> \in Seq(Item)
    BY <2>2, ListedType
  <2>8. ((H \o F) \o C) \in Seq(Item) /\ H \o F \in Seq(Item)
    BY <1>2, ConcatProperties
  <2>9. (H \o F) \o C = H \o (F \o C)
    BY <1>2, Associative
  <2>10. (((H \o F) \o C) \o <<x>>) \o P = ((H \o F) \o C) \o (<<x>> \o P)
    BY <1>2, <2>7, <2>8, Associative
  <2> QED BY <1>3, <1>4, <2>4, <2>5, <2>6, <2>9, <2>10
<1>6. CASE r.set = 0
  <2>1. /\ sets' = sets
        /\ currentSet' = [i \in DOMAIN currentSet |->
                             [currentSet[i] EXCEPT !.transfers = Append(@, r.transfer)]]
    BY <1>6 DEF ParseRow
  <2>2. CASE currentSet = <<>>
    <3>1. currentSet' = <<>>
      BY <2>1, <2>2
    <3>2. Opens(rows, currentSet, currentSet')
      BY <1>1, <1>6, <2>2, <3>1 DEF Opens
    <3> HIDE DEF r, x, H, F, C, P
    <3>3. ToParse(rows, currentSet) = P
      BY <1>1, <3>1, <3>2, ToParseTail DEF P
    <3> QED BY <1>3, <1>4, <2>1, <2>2, <3>1, <3>3 DEF F, C
  <2>3. CASE currentSet # <<>>
    <3> DEFINE c == currentSet[1]
               d == [c EXCEPT !.transfers = Append(@, r.transfer)]
    <3>1. currentSet = <<c>> /\ c \in SetType /\ DOMAIN currentSet = 1..1
      <4> DEFINE n == Len(currentSet)
      <4>1. n \in Nat /\ n # 0 /\ n <= 1
        BY <1>1, <2>3, EmptySeq
      <4> HIDE DEF n
      <4>2. n = 1 /\ 1 \in 1..n
        BY <4>1
      <4>3. c \in SetType /\ Len(currentSet) = 1 /\ DOMAIN currentSet = 1..1
        <5>1. Len(currentSet) = 1 /\ 1 \in 1..Len(currentSet)
          BY <4>2 DEF n
        <5>2. DOMAIN currentSet = 1..Len(currentSet)
          BY <1>1, LenProperties
        <5>3. currentSet[1] \in SetType
          BY <1>1, <5>1, ElementOfSeq
        <5> QED BY <5>1, <5>2, <5>3
      <4>4. <<c>> \in Seq(SetType) /\ Len(<<c>>) = 1 /\ <<c>>[1] = c
        BY <4>3
      <4>5. currentSet = <<c>>
        BY <1>1, <4>3, <4>4, SeqEqual
      <4> QED BY <4>3, <4>5
    <3>2. c.transfers \in Seq(Seq(Int)) /\ c.lists \in ListsOfSet /\ r.transfer \in Seq(Int)
      BY <1>1, <3>1 DEF SetType, Row
    <3>3. d.lists = c.lists /\ d.transfers = Append(c.transfers, r.transfer) /\ d \in SetType
      <4> HIDE DEF c, r
      <4>1. c \in SetType /\ Append(c.transfers, r.transfer) \in Seq(Seq(Int))
        BY <3>1, <3>2
      <4> QED BY <4>1 DEF SetType
    <3>4. currentSet' = <<d>>
      BY <2>1, <3>1
    <3>5. Opens(rows, currentSet, currentSet') /\ currentSet' # <<>>
      BY <1>1, <1>6, <2>3, <3>3, <3>4 DEF Opens
    <3>6. x = <<r.transfer, c.lists>>
      BY <3>3, <3>4
    <3>7. Listed(d) = Append(Listed(c), x)
      <4> HIDE DEF c, d, r, x
      <4>1. /\ Listed(c) \in Seq(Item) /\ Len(Listed(c)) = Len(c.transfers)
            /\ \A i \in DOMAIN c.transfers : Listed(c)[i] = <<c.transfers[i], c.lists>>
        BY <3>1, ListedType
      <4>2. /\ Listed(d) \in Seq(Item) /\ Len(Listed(d)) = Len(d.transfers)
            /\ \A i \in DOMAIN d.transfers : Listed(d)[i] = <<d.transfers[i], d.lists>>
        BY <3>3, ListedType
      <4> DEFINE n == Len(c.transfers)
      <4>3. /\ n \in Nat /\ Len(d.transfers) = n + 1 /\ d.transfers[n + 1] = r.transfer
            /\ \A i \in 1..n : d.transfers[i] = c.transfers[i]
            /\ DOMAIN c.transfers = 1..n /\ DOMAIN d.transfers = 1..(n + 1)
        BY <3>2, <3>3
      <4>4. x \in Item
        BY <3>2, <3>6 DEF Item
      <4> HIDE DEF n
      <4>5. /\ Append(Listed(c), x) \in Seq(Item) /\ Len(Append(Listed(c), x)) = n + 1
            /\ \A i \in 1..n : Append(Listed(c), x)[i] = Listed(c)[i]
            /\ Append(Listed(c), x)[n + 1] = x
        BY <4>1, <4>4, AppendProperties DEF n
      <4>6. \A i \in 1..(n + 1) : Listed(d)[i] = Append(Listed(c), x)[i]
        <5> TAKE i \in 1..(n + 1)
        <5>1. CASE i = n + 1
          BY <3>3, <3>6, <4>2, <4>3, <4>5, <5>1
        <5>2. CASE i # n + 1
          <6>1. i \in 1..n
            BY <4>3, <5>2
          <6> QED BY <3>3, <4>1, <4>2, <4>3, <4>5, <6>1
        <5> QED BY <5>1, <5>2
      <4>7. Len(Listed(d)) = n + 1
        BY <4>2, <4>3
      <4> QED BY <4>2, <4>5, <4>6, <4>7, SeqEqual
    <3> HIDE DEF r, x, c, d, H, F, C, P
    <3>8. C = Listed(c) /\ Flatten(currentSet') = Listed(d)
      <4>1. <<>> \in Seq(SetType) /\ currentSet = Append(<<>>, c) /\ currentSet' = Append(<<>>, d)
        BY <3>1, <3>4
      <4>2. C = <<>> \o Listed(c) /\ Flatten(currentSet') = <<>> \o Listed(d)
        BY <3>1, <3>3, <4>1, FlattenLast, FlattenEmpty DEF C
      <4> QED BY <3>1, <3>3, <4>2, ListedType, ConcatEmptySeq
    <3>9. x \in Item /\ <<x>> \in Seq(Item)
      BY <3>2, <3>6 DEF Item
    <3>10. Flatten(currentSet') = C \o <<x>>
      BY <1>2, <3>7, <3>8, <3>9, AppendIsConcat
    <3>11. ToParse(rows, currentSet) = <<x>> \o P
      BY <1>1, <3>5, ToParseTail DEF P, x
    <3> DEFINE X == H \o F
               last == <<x>>
    <3>12. X \in Seq(Item) /\ last \in Seq(Item)
      BY <1>2, <3>9, ConcatProperties
    <3> HIDE DEF X, last
    <3>13. (X \o C) \o last = X \o (C \o last) /\ X \o C \in Seq(Item)
      BY <1>2, <3>12, Associative, ConcatProperties
    <3>14. ((X \o C) \o last) \o P = (X \o C) \o (last \o P)
      <4> DEFINE Y == X \o C
      <4>1. Y \in Seq(Item)
        BY <3>13
      <4> HIDE DEF Y
      <4>2. (Y \o last) \o P = Y \o (last \o P)
        BY <1>2, <3>12, <4>1, Associative
      <4> QED BY <4>2 DEF Y
    <3> QED BY <1>3, <1>4, <2>1, <3>10, <3>11, <3>13, <3>14 DEF F, X, last
  <2> QED BY <2>2, <2>3
<1> QED BY <1>5, <1>6

\* A transfer is routed.
LEMMA RouteKeeps ==
    ASSUME TypeOK, TypeOK', RouteTransfer
    PROVE  Backlog' = Backlog
<1> DEFINE s == sets[1]
           d == Decision(s.lists, Head(s.transfers))
           x == <<Head(s.transfers), s.lists>>
           H == Handled
           F == Flatten(Tail(sets))
           C == Flatten(currentSet)
           P == ToParse(rows, currentSet)
           t == [s EXCEPT !.transfers = Tail(@)]
<1>1. /\ sets \in Seq(SetType) /\ sets # <<>> /\ sets' \in Seq(SetType)
      /\ routed \in Seq(RoutedType) /\ routed' \in Seq(RoutedType)
      /\ s.transfers # <<>> /\ routed' = Append(routed, d)
      /\ sets' = [sets EXCEPT ![1].transfers = Tail(@)]
      /\ currentSet' = currentSet /\ rows' = rows
  BY DEF RouteTransfer, TypeOK
<1>2. s \in SetType /\ Tail(sets) \in Seq(SetType) /\ Len(sets) \in Nat /\ Len(sets) >= 1
  BY <1>1
<1>3. H \in Seq(Item) /\ C \in Seq(Item) /\ P \in Seq(Item) /\ F \in Seq(Item)
  BY <1>2, HandledType, FlattenType
<1>4. s.transfers \in Seq(Seq(Int)) /\ s.lists \in ListsOfSet
  <2> HIDE DEF s
  <2> QED BY <1>2 DEF SetType
<1>5. t.transfers = Tail(s.transfers) /\ t.lists = s.lists /\ t \in SetType
  <2> HIDE DEF s
  <2>1. Tail(s.transfers) \in Seq(Seq(Int))
    BY <1>1, <1>4, HeadTailProperties
  <2> QED BY <1>2, <1>4, <2>1 DEF SetType
<1>6. sets' # <<>> /\ sets'[1] = t /\ Tail(sets') = Tail(sets)
  <2>1. /\ DOMAIN sets' = DOMAIN sets /\ Len(sets') = Len(sets) /\ sets'[1] = t
        /\ \A i \in 2..Len(sets) : sets'[i] = sets[i]
    <3>1. 1 \in 1..Len(sets) /\ sets' = [sets EXCEPT ![1] = t]
      BY <1>1, <1>2
    <3>2. Len(sets') = Len(sets) /\ \A i \in 1..Len(sets) : sets'[i] = IF i = 1 THEN t ELSE sets[i]
      <4>1. t \in SetType /\ sets \in Seq(SetType)
        BY <1>1, <1>5
      <4> DEFINE new == [sets EXCEPT ![1] = t]
      <4> HIDE DEF t
      <4>2. Len(new) = Len(sets) /\ \A i \in 1..Len(sets) : new[i] = IF i = 1 THEN t ELSE sets[i]
        BY <3>1, <4>1, ExceptSeq
      <4> HIDE DEF new
      <4>3. sets' = new
        BY <3>1 DEF new
      <4> QED BY <4>2, <4>3
    <3>3. DOMAIN sets' = 1..Len(sets') /\ DOMAIN sets = 1..Len(sets)
      BY <1>1, LenProperties
    <3> HIDE DEF t
    <3> QED BY <1>2, <3>1, <3>2, <3>3
  <2>2. sets' # <<>>
    BY <1>2, <2>1
  <2>3. /\ Len(Tail(sets)) = Len(sets) - 1 /\ Len(Tail(sets')) = Len(sets) - 1
        /\ Tail(sets') \in Seq(SetType)
        /\ \A i \in 1..(Len(sets) - 1) : /\ Tail(sets)[i] = sets[i + 1]
                                         /\ Tail(sets')[i] = sets'[i + 1]
    BY <1>1, <2>1, <2>2, HeadTailProperties
  <2>4. \A i \in 1..(Len(sets) - 1) : Tail(sets')[i] = Tail(sets)[i]
    BY <1>2, <2>1, <2>3
  <2>5. Tail(sets') = Tail(sets)
    BY <1>2, <2>3, <2>4, SeqEqual
  <2> QED BY <2>1, <2>2, <2>5
<1>7. d.transfer = Head(s.transfers) /\ d.lists = s.lists
  <2> HIDE DEF s
  <2> QED BY DEF Decision
<1>8. x \in Item /\ <<x>> \in Seq(Item)
  <2>1. Head(s.transfers) \in Seq(Int)
    BY <1>1, <1>4, HeadTailProperties
  <2> HIDE DEF s
  <2> QED BY <1>4, <2>1 DEF Item
<1> HIDE DEF s, d, x, t
<1>9. Listed(s) = <<x>> \o Listed(t)
  <2> DEFINE n == Len(t.transfers)
  <2>1. /\ n \in Nat /\ Len(s.transfers) = n + 1 /\ s.transfers[1] = Head(s.transfers)
        /\ \A i \in 1..n : t.transfers[i] = s.transfers[i + 1]
        /\ DOMAIN s.transfers = 1..(n + 1) /\ DOMAIN t.transfers = 1..n
    BY <1>1, <1>4, <1>5, HeadTailProperties, EmptySeq, LenProperties
  <2>2. /\ Listed(s) \in Seq(Item) /\ Len(Listed(s)) = Len(s.transfers)
        /\ \A i \in DOMAIN s.transfers : Listed(s)[i] = <<s.transfers[i], s.lists>>
    BY <1>2, ListedType
  <2>3. /\ Listed(t) \in Seq(Item) /\ Len(Listed(t)) = n
        /\ \A i \in DOMAIN t.transfers : Listed(t)[i] = <<t.transfers[i], t.lists>>
    BY <1>5, ListedType
  <2> HIDE DEF n
  <2>4. Len(<<x>>) = 1 /\ <<x>>[1] = x
    OBVIOUS
  <2>5. /\ <<x>> \o Listed(t) \in Seq(Item) /\ Len(<<x>> \o Listed(t)) = 1 + n
        /\ \A i \in 1..(1 + n) :
              (<<x>> \o Listed(t))[i] = IF i <= 1 THEN <<x>>[i] ELSE Listed(t)[i - 1]
    BY <1>8, <2>3, <2>4, ConcatProperties
  <2>6. \A i \in 1..(n + 1) : Listed(s)[i] = (<<x>> \o Listed(t))[i]
    <3> TAKE i \in 1..(n + 1)
    <3>1. i \in 1..(1 + n) /\ Listed(s)[i] = <<s.transfers[i], s.lists>>
      <4>1. n + 1 = 1 + n
        BY <2>1
      <4> QED BY <2>1, <2>2, <4>1
    <3>2. CASE i = 1
      BY <2>1, <2>4, <2>5, <3>1, <3>2 DEF x
    <3>3. CASE i # 1
      <4>1. i - 1 \in 1..n /\ (i - 1) + 1 = i /\ ~ (i <= 1)
        BY <2>1, <3>3
      <4>2. Listed(t)[i - 1] = <<s.transfers[i], s.lists>>
        BY <1>5, <2>1, <2>3, <4>1
      <4> QED BY <2>5, <3>1, <4>1, <4>2
    <3> QED BY <3>2, <3>3
  <2>7. Len(Listed(s)) = n + 1 /\ Len(<<x>> \o Listed(t)) = n + 1
    BY <2>1, <2>2, <2>5
  <2> QED BY <2>2, <2>5, <2>6, <2>7, SeqEqual
<1>10. Handled' = Append(H, x)
  <2> DEFINE n == Len(routed)
  <2>1. /\ n \in Nat /\ DOMAIN routed = 1..n /\ DOMAIN routed' = 1..(n + 1)
        /\ Len(H) = n /\ DOMAIN H = 1..n
        /\ \A i \in 1..n : routed'[i] = routed[i]
        /\ routed'[n + 1] = d
    BY <1>1 DEF Handled
  <2>2. /\ Append(H, x) \in Seq(Item) /\ Len(Append(H, x)) = n + 1
        /\ \A i \in 1..n : Append(H, x)[i] = H[i]
        /\ Append(H, x)[n + 1] = x
    BY <1>3, <1>8, <2>1, AppendProperties
  <2>3. /\ Handled' \in Seq(Item) /\ Len(Handled') = n + 1
        /\ \A i \in 1..(n + 1) : Handled'[i] = <<routed'[i].transfer, routed'[i].lists>>
    <3>1. Handled' = [i \in 1..(n + 1) |-> <<routed'[i].transfer, routed'[i].lists>>]
      BY <2>1 DEF Handled
    <3>2. \A i \in 1..(n + 1) : <<routed'[i].transfer, routed'[i].lists>> \in Item
      <4> TAKE i \in 1..(n + 1)
      <4>1. routed'[i] \in RoutedType
        BY <1>1, <2>1
      <4> QED BY <4>1 DEF RoutedType, Item
    <3>3. n + 1 \in Nat
      BY <2>1
    <3> HIDE DEF n
    <3>4. Handled' \in Seq(Item) /\ Len(Handled') = n + 1
      BY <3>1, <3>2, <3>3
    <3> QED BY <3>1, <3>4
  <2>4. \A i \in 1..n : H[i] = <<routed[i].transfer, routed[i].lists>>
    BY <2>1 DEF Handled
  <2> HIDE DEF n, H
  <2>5. \A i \in 1..(n + 1) : Handled'[i] = Append(H, x)[i]
    <3> TAKE i \in 1..(n + 1)
    <3>1. CASE i = n + 1
      BY <1>7, <2>1, <2>2, <2>3, <3>1 DEF x
    <3>2. CASE i # n + 1
      <4>1. i \in 1..n
        BY <2>1, <3>2
      <4> QED BY <2>1, <2>2, <2>3, <2>4, <4>1
    <3> QED BY <3>1, <3>2
  <2> QED BY <2>2, <2>3, <2>5, SeqEqual
<1> HIDE DEF H, F, C, P
<1>11. Flatten(sets) = Listed(s) \o F /\ Flatten(sets') = Listed(t) \o F
  BY <1>1, <1>6, FlattenFirst DEF s, F
<1>12. Listed(t) \in Seq(Item)
  BY <1>5, ListedType
<1>13. H \o Flatten(sets) = Handled' \o Flatten(sets')
  <2> DEFINE L == Listed(t)
             y == <<x>>
  <2>1. L \in Seq(Item) /\ y \in Seq(Item) /\ L \o F \in Seq(Item)
    BY <1>3, <1>8, <1>12, ConcatProperties
  <2>2. Append(H, x) = H \o y
    BY <1>3, <1>8, AppendIsConcat
  <2> HIDE DEF L, y
  <2>3. (y \o L) \o F = y \o (L \o F)
    BY <1>3, <2>1, Associative
  <2>4. (H \o y) \o (L \o F) = H \o (y \o (L \o F))
    <3> DEFINE M == L \o F
    <3>1. M \in Seq(Item) /\ y \in Seq(Item) /\ H \in Seq(Item)
      BY <1>3, <2>1
    <3> HIDE DEF M
    <3>2. (H \o y) \o M = H \o (y \o M)
      BY <3>1, Associative
    <3> QED BY <3>2 DEF M
  <2> QED BY <1>9, <1>10, <1>11, <2>2, <2>3, <2>4 DEF L, y
<1>14. Backlog = ((H \o Flatten(sets)) \o C) \o P
  BY DEF Backlog, Handled, H, C, P
<1>15. Backlog' = ((Handled' \o Flatten(sets')) \o C) \o P
  BY <1>1 DEF Backlog, Handled, C, P
<1> QED BY <1>13, <1>14, <1>15

\* For every configuration and file, each transfer from the first named set on is
\* handled once, in the order of the file and with the servers of its own set: no step of
\* ParseCSV or of the loop of main changes what has been and will be handled.
THEOREM NothingLostHolds == Spec => NothingLost
<1>1. TypeOK /\ TypeOK' /\ [Next]_vars => [Backlog' = Backlog]_vars
  <2> SUFFICES ASSUME TypeOK, TypeOK', Next PROVE Backlog' = Backlog
    OBVIOUS
  <2>1. CASE Configure \/ RefuseRow \/ Finish
    BY <2>1 DEF Configure, RefuseRow, Finish, Backlog
  <2>2. CASE ParseRow
    BY <2>2, ParseKeeps
  <2>3. CASE FinishParsing
    <3>1. /\ sets' = sets \o currentSet /\ currentSet' = <<>> /\ rows' = rows /\ rows = <<>>
          /\ routed' = routed
      BY <2>3 DEF FinishParsing, AllSets
    <3>2. sets \in Seq(SetType) /\ currentSet \in Seq(SetType) /\ Len(currentSet) <= 1
      BY DEF TypeOK
    <3>3. Flatten(sets') = Flatten(sets) \o Flatten(currentSet) /\ Flatten(currentSet') = <<>>
      BY <3>1, <3>2, FlattenClosed, FlattenEmpty
    <3>4. /\ ToParse(rows, currentSet) = <<>> /\ ToParse(rows', currentSet') = <<>>
      <4> SUFFICES ASSUME NEW before \in Seq(SetType) PROVE ToParse(<<>>, before) = <<>>
        <5>1. <<>> \in Seq(SetType)
          OBVIOUS
        <5> QED BY <3>1, <3>2, <5>1
      <4> DEFINE a == Ahead(<<>>, before)
      <4>1. <<>> \in Seq(Row) /\ Len(<<>>) = 0
        OBVIOUS
      <4>2. a = 0
        <5>1. a \in 0..0
          BY <4>1, AheadIs
        <5> HIDE DEF a
        <5> QED BY <5>1
      <4>3. ToParse(<<>>, before) \in Seq(Item) /\ Len(ToParse(<<>>, before)) = 0 - a
        BY <4>1, ToParseType
      <4> HIDE DEF a
      <4>4. 0 - a = 0
        BY <4>2
      <4> QED BY <4>3, <4>4, EmptySeq
    <3> DEFINE H == Handled
               F == Flatten(sets)
               C == Flatten(currentSet)
    <3>5. H \in Seq(Item) /\ F \in Seq(Item) /\ C \in Seq(Item)
      BY HandledType
    <3>6. Backlog = ((H \o F) \o C) \o <<>>
      BY <3>4 DEF Backlog, Handled
    <3>7. Backlog' = ((H \o (F \o C)) \o <<>>) \o <<>>
      BY <3>1, <3>3, <3>4 DEF Backlog, Handled
    <3> HIDE DEF H, F, C
    <3>8. (H \o F) \o C = H \o (F \o C)
      BY <3>5, Associative
    <3>9. F \o C \in Seq(Item)
      BY <3>5, ConcatProperties
    <3>10. H \o (F \o C) \in Seq(Item)
      BY <3>5, <3>9, ConcatProperties
    <3>11. (H \o (F \o C)) \o <<>> = H \o (F \o C)
      BY <3>10, ConcatEmptySeq
    <3> QED BY <3>6, <3>7, <3>8, <3>11
  <2>4. CASE RouteTransfer
    BY <2>4, RouteKeeps
  <2>5. CASE NextSet
    <3>1. /\ sets' = Tail(sets) /\ sets # <<>> /\ sets[1].transfers = <<>>
          /\ rows' = rows /\ currentSet' = currentSet /\ routed' = routed
      BY <2>5 DEF NextSet
    <3>2. sets \in Seq(SetType) /\ sets[1] \in SetType /\ Tail(sets) \in Seq(SetType)
      BY <3>1 DEF TypeOK
    <3>3. Listed(sets[1]) \in Seq(Item) /\ Len(Listed(sets[1])) = Len(sets[1].transfers)
      BY <3>2, ListedType
    <3>4. Listed(sets[1]) = <<>>
      BY <3>1, <3>3, EmptySeq
    <3>5. Flatten(sets) = <<>> \o Flatten(Tail(sets))
      BY <3>1, <3>2, <3>4, FlattenFirst
    <3>6. Flatten(sets) = Flatten(sets')
      BY <3>1, <3>2, <3>5, FlattenType, ConcatEmptySeq
    <3> QED BY <3>1, <3>6 DEF Backlog
  <2> QED BY <2>1, <2>2, <2>3, <2>4, <2>5 DEF Next
<1> QED BY <1>1, RoutingTypeCorrect, PTL DEF Spec, NothingLost


=============================================================================
