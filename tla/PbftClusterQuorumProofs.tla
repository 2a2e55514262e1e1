----------------------- MODULE PbftClusterQuorumProofs -----------------------
(***************************************************************************)
(* Theorems about the quorums of PbftCluster: a transfer is executed only  *)
(* after a quorum of commit messages, and decided only after prepares of a *)
(* quorum of servers.                                                      *)
(***************************************************************************)
EXTENDS PbftClusterMoneyProofs

-----------------------------------------------------------------------------
(* What a handler may send, decide and count.                              *)

Entry(c) == [tx |-> c.tx, sno |-> c.sno]

Prepare(c) == [tx |-> c.tx, sno |-> c.sno, from |-> c.from]

Commit(c) == [tx |-> c.tx, sno |-> c.sno, from |-> c.from, serial |-> c.serial]

\* s counts enough prepare entries, or commit entries, after this step.
PreparedAt(s, t)  == HasQuorum(Cardinality(Of(prepares'[s], t)))
CommittedAt(s, t) == HasQuorum(Cardinality(Of(commits'[s], t)))

\* m comes from the handling of c at s.
Caused(m, c, s) ==
    /\ m.tx = c.tx
    /\ \/ m \in Rest(c, s)
       \/ m.status = "pre-prepare"
       \/ m.status \in {"prepare", "commit"} /\ m.to = {Leader}
             /\ (m.status = "commit" => c.status = "prepared")
       \/ m.status = "prepared" /\ c.status = "prepare" /\ PreparedAt(s, c.tx)
       \/ m.status = "committed" /\ c.status = "commit" /\ CommittedAt(s, c.tx)

\* What the handling of c at s, or the failure of that call, does to messages,
\* mailboxes and decisions.
Delivery(c, s) ==
    /\ s \in c.to
    /\ \A m \in InFlight' : m \in InFlight \/ Caused(m, c, s)
    /\ \/ prepares' = prepares
       \/ c.status = "prepare" /\ prepares' = [prepares EXCEPT ![s] = @ \cup {Prepare(c)}]
    /\ \/ commits' = commits
       \/ c.status = "commit" /\ commits' = [commits EXCEPT ![s] = @ \cup {Commit(c)}]
    /\ \/ CommittedTransactions' = CommittedTransactions
       \/ /\ CommittedTransactions' = [CommittedTransactions EXCEPT ![s] = Append(@, Entry(c))]
          /\ c.status = "committed" \/ (c.status = "commit" /\ CommittedAt(s, c.tx))
    /\ UNCHANGED <<assigned, transactions>>

\* Sent messages are of these three kinds.
LEMMA CausedBySending ==
    ASSUME TypeInv, NEW s \in Server, NEW c \in calls
    PROVE  /\ \A m \in Rest(c, s) : Caused(m, c, s)
           /\ \A m \in ToPrimary("prepare", c, s) : Caused(m, c, s)
           /\ c.status = "prepared" =>
                 \A m \in ToPrimary("commit", c, s) : Caused(m, c, s)
           /\ c.status = "prepare" /\ PreparedAt(s, c.tx) =>
                 \A k, v : \A m \in Broadcast("prepared", c.tx, c.sno, s, k, v) : Caused(m, c, s)
           /\ c.status = "commit" /\ CommittedAt(s, c.tx) =>
                 \A k, v : \A m \in Broadcast("committed", c.tx, c.sno, s, k, v) : Caused(m, c, s)
<1>1. \A m \in Rest(c, s) : m.tx = c.tx
  BY ReceiveType, RestType
<1> QED BY <1>1 DEF Caused, ToPrimary, Broadcast

LEMMA InFlightKept ==
    ASSUME NEW s \in Server, NEW c \in calls,
           \A m \in calls' : m \in calls \/ Caused(m, c, s),
           \A r \in Server : \A m \in resume'[r] : m \in resume[r] \/ Caused(m, c, s)
    PROVE  \A m \in InFlight' : m \in InFlight \/ Caused(m, c, s)
BY DEF InFlight

LEMMA DecideResumes ==
    ASSUME TypeInv, NEW s \in Server, NEW c \in calls, Decide(s, c.tx, c.sno, Rest(c, s))
    PROVE  /\ \A r \in Server : \A m \in resume'[r] : m \in resume[r] \/ Caused(m, c, s)
           /\ CommittedTransactions' = [CommittedTransactions EXCEPT ![s] = Append(@, Entry(c))]
BY CausedBySending DEF Decide, Entry, TypeInv, TypeOK

LEMMA HandleDelivers ==
    ASSUME TypeInv, NEW s \in Server, Handle(s)
    PROVE  \E c \in calls : Delivery(c, s)
<1> DEFINE Left(c) == (calls \ {c}) \cup Rest(c, s)
           From(c) == \A m \in calls' : m \in calls \/ Caused(m, c, s)
<1>1. ASSUME NEW c \in calls, resume' = resume, From(c)
      PROVE  \A m \in InFlight' : m \in InFlight \/ Caused(m, c, s)
  BY <1>1, InFlightKept
<1>2. ASSUME NEW c \in calls, HandlePrePrepare(c, s) PROVE Delivery(c, s)
  <2>1. calls' \in {Left(c), Left(c) \cup ToPrimary("prepare", c, s)}
    BY <1>2, Zenon DEF HandlePrePrepare
  <2>2. From(c)
    BY <2>1, CausedBySending, Zenon
  <2> QED BY <1>1, <1>2, <2>2 DEF HandlePrePrepare, Receive, Calls, Delivery, handler,
                                 consensus, db
<1>3. ASSUME NEW c \in calls, HandlePrepare(c, s) PROVE Delivery(c, s)
  <2>1. \/ calls' = Left(c)
        \/ /\ PreparedAt(s, c.tx)
           /\ \E k, v : calls' = Left(c) \cup Broadcast("prepared", c.tx, c.sno, s, k, v)
    BY <1>3, Zenon DEF HandlePrepare, PreparedAt
  <2>2. /\ c.status = "prepare" /\ s \in c.to
        /\ prepares' = [prepares EXCEPT ![s] = @ \cup {Prepare(c)}]
        /\ UNCHANGED <<handler, assigned, commits, CommittedTransactions, db>>
    BY <1>3, Zenon DEF HandlePrepare, Receive, Calls, Prepare
  <2>3. From(c)
    BY <2>1, <2>2, CausedBySending, Zenon
  <2> QED BY <1>1, <2>2, <2>3 DEF Delivery, handler, db
<1>4. ASSUME NEW c \in calls, HandlePrepared(c, s) PROVE Delivery(c, s)
  <2>1. calls' \in {Left(c), Left(c) \cup ToPrimary("commit", c, s)}
    BY <1>4, Zenon DEF HandlePrepared
  <2>2. c.status = "prepared" /\ s \in c.to
    BY <1>4 DEF HandlePrepared, Receive, Calls
  <2>3. From(c)
    BY <2>1, <2>2, CausedBySending, Zenon
  <2> QED BY <1>1, <1>4, <2>2, <2>3 DEF HandlePrepared, Delivery, handler, consensus, db
<1>5. ASSUME NEW c \in calls, HandleCommit(c, s) PROVE Delivery(c, s)
  <2>1. /\ c.status = "commit" /\ s \in c.to
        /\ UNCHANGED <<assigned, prepares, db>>
    BY <1>5, Zenon DEF HandleCommit, Receive, Calls
  <2>2. commits' \in {commits, [commits EXCEPT ![s] = @ \cup {Commit(c)}]}
    BY <1>5, Zenon DEF HandleCommit, Commit
  <2>3. \/ calls' = Left(c) /\ UNCHANGED <<CommittedTransactions, handler>>
        \/ /\ CommittedAt(s, c.tx)
           /\ Decide(s, c.tx, c.sno, Rest(c, s))
           /\ \E k, v : calls' = (calls \ {c})
                                   \cup Broadcast("committed", c.tx, c.sno, s, k, v)
    BY <1>5, Zenon DEF HandleCommit, CommittedAt
  <2>4. From(c)
    BY <2>1, <2>3, CausedBySending, Zenon
  <2>5. CASE UNCHANGED <<CommittedTransactions, handler>>
    BY <1>1, <2>1, <2>2, <2>4, <2>5 DEF Delivery, handler, db
  <2>6. CASE CommittedAt(s, c.tx) /\ Decide(s, c.tx, c.sno, Rest(c, s))
    BY <2>1, <2>2, <2>4, <2>6, InFlightKept, DecideResumes DEF Delivery, db
  <2> QED BY <2>3, <2>5, <2>6
<1>6. ASSUME NEW c \in calls, HandleCommitted(c, s) PROVE Delivery(c, s)
  <2>1. /\ c.status = "committed" /\ s \in c.to
        /\ UNCHANGED <<assigned, prepares, commits, db>>
    BY <1>6, Zenon DEF HandleCommitted, Receive, Calls
  <2>2. \/ calls' = Left(c) /\ UNCHANGED <<CommittedTransactions, handler>>
        \/ calls' = calls \ {c} /\ Decide(s, c.tx, c.sno, Rest(c, s))
    BY <1>6, Zenon DEF HandleCommitted
  <2>3. From(c)
    BY <2>2, CausedBySending, Zenon
  <2>4. CASE UNCHANGED <<CommittedTransactions, handler>>
    BY <1>1, <2>1, <2>3, <2>4 DEF Delivery, handler, db
  <2>5. CASE Decide(s, c.tx, c.sno, Rest(c, s))
    BY <2>1, <2>3, <2>5, InFlightKept, DecideResumes DEF Delivery, db
  <2> QED BY <2>2, <2>4, <2>5
<1> QED BY <1>2, <1>3, <1>4, <1>5, <1>6 DEF Handle

LEMMA FailedCallDelivers ==
    ASSUME TypeInv, NEW s \in Server, NEW c \in calls, CallFails(c, s)
    PROVE  Delivery(c, s)
<1>1. /\ s \in c.to
      /\ calls' = (calls \ {c}) \cup Rest(c, s)
      /\ UNCHANGED <<handler, consensus, db>>
  BY DEF CallFails, Calls
<1>2. \A m \in calls' : m \in calls \/ Caused(m, c, s)
  BY <1>1, CausedBySending
<1> QED BY <1>1, <1>2, InFlightKept DEF Delivery, handler, consensus, db

\* Other steps send pre-prepares, or go on with the calls that a handler kept waiting,
\* and execute what was decided. n and t are those of an accepted request.
NoDelivery ==
    /\ \A m \in InFlight' : m \in InFlight \/ m.status = "pre-prepare"
    /\ UNCHANGED <<prepares, commits, CommittedTransactions>>
    /\ \A u \in Tx : \A k : NumberedBy(u, k) => NumberedBy(u, k)'
    /\ \/ transactions' = transactions
       \/ \E s \in Server : \E t \in NextToExecute(s) :
             transactions' = [transactions EXCEPT ![s] = Append(@, t)]

LEMMA ResumedCalls ==
    ASSUME TypeInv, NEW s \in Server,
           calls' \in {calls, calls \cup resume[s]},
           resume' \in {resume, [resume EXCEPT ![s] = {}]}
    PROVE  \A m \in InFlight' : m \in InFlight
<1>1. \A r \in Server : resume'[r] \subseteq resume[r]
  BY DEF TypeInv, TypeOK
<1>2. \A m \in calls' : m \in calls \cup resume[s]
  OBVIOUS
<1> QED BY <1>1, <1>2 DEF InFlight

LEMMA QuorumSteps ==
    ASSUME TypeInv, LogInv, [Next]_vars
    PROVE  NoDelivery \/ \E s \in Server : \E c \in calls : Delivery(c, s)
<1>1. ASSUME UNCHANGED <<calls, resume, prepares, commits, CommittedTransactions, assigned,
                         transactions>>
      PROVE  NoDelivery
  BY <1>1 DEF NoDelivery, InFlight, NumberedBy
<1>2. CASE Submit \/ RetryTimer \/ RefuseRequest \/ AwaitLocks
  BY <1>1, <1>2, Zenon DEF Submit, RetryTimer, RefuseRequest, AwaitLocks, network, handler,
                           consensus, db
<1>3. CASE AcceptRequest
  <2>1. Current \in Tx /\ Contact = Primary
    BY <1>3, ContactIsPrimary DEF AcceptRequest, LogInv
  <2>2. /\ UNCHANGED <<resume, prepares, commits, CommittedTransactions, transactions>>
        /\ assigned' = [assigned EXCEPT ![Primary] = Append(@, Current)]
        /\ calls' = calls \cup Broadcast("pre-prepare", Current, NextNumber(Contact), Contact,
                                         0, TRUE)
    BY <1>3, <2>1, Zenon DEF AcceptRequest
  <2>3. \A m \in InFlight' : m \in InFlight \/ m.status = "pre-prepare"
    BY <2>2 DEF InFlight, Broadcast
  <2>4. \A u \in Tx : \A k : NumberedBy(u, k) => NumberedBy(u, k)'
    BY <2>1, <2>2, NumbersStay, SingleContact
  <2> QED BY <2>2, <2>3, <2>4 DEF NoDelivery
<1>4. CASE ClientDialFails
  BY <1>1, <1>4, Zenon DEF ClientDialFails, handler, consensus, db
<1>5. ASSUME NEW s \in Server, SelfDeadlock(s) PROVE NoDelivery
  BY <1>1, <1>5, Zenon DEF SelfDeadlock, network, consensus, db
<1>6. ASSUME NEW s \in Server, Execute(s) PROVE NoDelivery
  <2>1. \E t \in NextToExecute(s) : transactions' = [transactions EXCEPT ![s] = Append(@, t)]
    BY <1>6, Zenon DEF Execute
  <2>2. UNCHANGED <<calls, resume, prepares, commits, CommittedTransactions, assigned>>
    BY <1>6, Zenon DEF Execute, network, consensus
  <2> QED BY <2>1, <2>2 DEF NoDelivery, InFlight, NumberedBy
<1>7. ASSUME NEW s \in Server, ExecuteAgain(s) \/ FinishLoop(s) PROVE NoDelivery
  <2>1. /\ calls' = calls \cup resume[s] /\ resume' = [resume EXCEPT ![s] = {}]
        /\ UNCHANGED <<prepares, commits, CommittedTransactions, assigned, transactions>>
    BY <1>7, Zenon DEF ExecuteAgain, FinishLoop, ReturnError, consensus, db
  <2> QED BY <2>1, ResumedCalls DEF NoDelivery, NumberedBy
<1>8. CASE Done \/ UNCHANGED vars
  BY <1>1, <1>8, Zenon DEF Done, vars, network, handler, consensus, db
<1> QED BY <1>2, <1>3, <1>4, <1>5, <1>6, <1>7, <1>8, HandleDelivers, FailedCallDelivers
        DEF Next, Drive, Fail, ExecutionStep

-----------------------------------------------------------------------------
(* Votes are calls of the leader, and its mailboxes only grow.             *)

LEMMA VotesKept ==
    ASSUME TypeInv, VotesGoToLeader,
           NoDelivery \/ \E s \in Server : \E c \in calls : Delivery(c, s)
    PROVE  VotesGoToLeader'
<1>1. CASE NoDelivery
  BY <1>1 DEF NoDelivery, VotesGoToLeader
<1>2. ASSUME NEW s \in Server, NEW c \in calls, Delivery(c, s) PROVE VotesGoToLeader'
  <2>1. c \in InFlight
    BY DEF InFlight
  <2>2. \A m \in Rest(c, s) : m.status = c.status /\ c.to # {s}
    BY ReceiveType, RestType DEF Rest
  <2>3. \A m \in Rest(c, s) : m.status \notin {"prepare", "commit"}
    BY <1>2, <2>1, <2>2 DEF Delivery, VotesGoToLeader
  <2> QED BY <1>2, <2>3 DEF Delivery, Caused, VotesGoToLeader
<1> QED BY <1>1, <1>2

LEMMA VoteIsAtLeader ==
    ASSUME VotesGoToLeader, NEW s \in Server, NEW c \in calls, Delivery(c, s),
           c.status \in {"prepare", "commit"}
    PROVE  s = Leader
BY DEF VotesGoToLeader, InFlight, Delivery

\* An element that is added to a set of entries can only make its count larger.
LEMMA MoreEntries ==
    ASSUME NEW M, NEW N, M \subseteq N, IsFiniteSet(N), NEW t,
           HasQuorum(Cardinality(Of(M, t)))
    PROVE  HasQuorum(Cardinality(Of(N, t)))
<1>1. IsFiniteSet(Of(N, t)) /\ Of(M, t) \in SUBSET Of(N, t)
  BY FS_Subset DEF Of
<1>2. /\ IsFiniteSet(Of(M, t))
      /\ Cardinality(Of(M, t)) <= Cardinality(Of(N, t))
      /\ Cardinality(Of(M, t)) \in Nat /\ Cardinality(Of(N, t)) \in Nat
  BY <1>1, FS_Subset, FS_CardinalityType
<1> QED BY <1>2 DEF HasQuorum, Quorum

\* What a decision appends to CommittedTransactions.
LEMMA DecisionElement ==
    ASSUME TypeInv, NEW s \in Server, NEW c \in calls,
           CommittedTransactions' = [CommittedTransactions EXCEPT ![s] = Append(@, Entry(c))],
           NEW r \in Server, NEW i \in DOMAIN CommittedTransactions'[r]
    PROVE  \/ /\ i \in DOMAIN CommittedTransactions[r]
              /\ CommittedTransactions'[r][i] = CommittedTransactions[r][i]
           \/ CommittedTransactions'[r][i].tx = c.tx
<1> DEFINE D == [tx : Tx, sno : Nat]
<1>1. Entry(c) \in D /\ CommittedTransactions \in [Server -> Seq(D)]
  BY ReceiveType DEF TypeInv, TypeOK, Entry
<1> HIDE DEF D
<1>2. /\ CommittedTransactions[r] \in Seq(D)
      /\ CommittedTransactions'[r] \in {CommittedTransactions[r],
                                        Append(CommittedTransactions[r], Entry(c))}
  BY <1>1
<1>3. \A k \in DOMAIN Append(CommittedTransactions[r], Entry(c)) :
         \/ /\ k \in DOMAIN CommittedTransactions[r]
            /\ Append(CommittedTransactions[r], Entry(c))[k] = CommittedTransactions[r][k]
         \/ Append(CommittedTransactions[r], Entry(c))[k] = Entry(c)
  BY <1>1, <1>2, AppendElement, Zenon
<1>4. Entry(c).tx = c.tx
  BY DEF Entry
<1> QED BY <1>2, <1>3, <1>4, Zenon

\* A transfer in a table was there before, or is one of the decisions.
LEMMA TableElement ==
    ASSUME TypeInv, NEW s \in Server, NEW t \in NextToExecute(s),
           transactions' = [transactions EXCEPT ![s] = Append(@, t)],
           NEW r \in Server, NEW k \in DOMAIN transactions'[r]
    PROVE  \/ k \in DOMAIN transactions[r] /\ transactions'[r][k] = transactions[r][k]
           \/ \E i \in DOMAIN CommittedTransactions[s] :
                 transactions'[r][k] = CommittedTransactions[s][i].tx
<1>1. PICK i \in DOMAIN CommittedTransactions[s] : t = CommittedTransactions[s][i].tx
  BY DEF NextToExecute, Due
<1>2. t \in Tx /\ transactions[r] \in Seq(Tx)
  BY NextToExecuteType DEF TypeInv, TypeOK
<1>3. transactions'[r] \in {transactions[r], Append(transactions[r], t)}
  BY DEF TypeInv, TypeOK
<1>4. \A j \in DOMAIN Append(transactions[r], t) :
         \/ j \in DOMAIN transactions[r] /\ Append(transactions[r], t)[j] = transactions[r][j]
         \/ Append(transactions[r], t)[j] = t
  BY <1>2, AppendElement, Zenon
<1> QED BY <1>1, <1>3, <1>4, Zenon

-----------------------------------------------------------------------------
(* Commit messages.                                                        *)

LEMMA CommitInit == Init => CommitInv
BY DEF Init, CommitInv, VotesGoToLeader, InFlight, ExecutedIsCommitted

LEMMA CommittedStays ==
    ASSUME TypeInv', NEW t, IsCommitted(t), commits[Leader] \subseteq commits'[Leader]
    PROVE  CommittedAt(Leader, t)
BY MoreEntries, ClusterAssumption DEF IsCommitted, CommittedAt, TypeInv, TypeOK

LEMMA CommitDelivery ==
    ASSUME TypeInv, TypeInv', CommitInv, NEW s \in Server, NEW c \in calls, Delivery(c, s),
           VotesGoToLeader'
    PROVE  CommitInv'
<1>1. commits[Leader] \subseteq commits'[Leader]
  <2>1. commits' = commits \/ commits' = [commits EXCEPT ![s] = @ \cup {Commit(c)}]
    BY DEF Delivery
  <2>2. \A r \in Server : commits[r] \subseteq commits'[r]
    <3>1. \E E : commits \in [Server -> SUBSET E]
      BY DEF TypeInv, TypeOK
    <3> QED BY <2>1, <3>1
  <2> QED BY <2>2, ClusterAssumption
<1>2. \A t : IsCommitted(t) => CommittedAt(Leader, t)
  BY <1>1, CommittedStays
<1>3. c.status = "commit" /\ CommittedAt(s, c.tx) => CommittedAt(Leader, c.tx)
  BY VoteIsAtLeader DEF CommitInv
<1>4. c.status = "committed" => IsCommitted(c.tx)
  BY DEF CommitInv, InFlight
<1>5. \A m \in InFlight' : m.status = "committed" => CommittedAt(Leader, m.tx)
  <2>1. \A m \in Rest(c, s) : m.status = c.status
    BY ReceiveType, RestType
  <2> QED BY <1>2, <1>3, <1>4, <2>1 DEF Delivery, Caused, CommitInv
<1>6. \A r \in Server : \A i \in DOMAIN CommittedTransactions'[r] :
         CommittedAt(Leader, CommittedTransactions'[r][i].tx)
  <2>1. CASE CommittedTransactions' = CommittedTransactions
    BY <1>2, <2>1 DEF CommitInv
  <2>2. CASE CommittedTransactions' = [CommittedTransactions EXCEPT ![s] = Append(@, Entry(c))]
    <3>1. CASE CommittedAt(Leader, c.tx)
      <4> SUFFICES ASSUME NEW r \in Server, NEW i \in DOMAIN CommittedTransactions'[r]
                   PROVE  CommittedAt(Leader, CommittedTransactions'[r][i].tx)
        OBVIOUS
      <4>1. \/ /\ i \in DOMAIN CommittedTransactions[r]
               /\ CommittedTransactions'[r][i] = CommittedTransactions[r][i]
            \/ CommittedTransactions'[r][i].tx = c.tx
        BY <2>2, DecisionElement
      <4> QED BY <1>2, <3>1, <4>1 DEF CommitInv, IsCommitted
    <3>2. CASE CommittedTransactions' = CommittedTransactions
      BY <2>1, <3>2
    <3> QED BY <1>2, <1>3, <1>4, <3>1, <3>2 DEF Delivery
  <2> QED BY <2>1, <2>2 DEF Delivery
<1>7. ExecutedIsCommitted'
  BY <1>2 DEF Delivery, CommitInv, ExecutedIsCommitted, IsCommitted, CommittedAt, HasQuorum
<1> QED BY <1>5, <1>6, <1>7 DEF CommitInv, IsCommitted, CommittedAt

LEMMA CommitElsewhere ==
    ASSUME TypeInv, CommitInv, NoDelivery, VotesGoToLeader'
    PROVE  CommitInv'
<1>1. \A t : IsCommitted(t) => CommittedAt(Leader, t)
  BY DEF NoDelivery, IsCommitted, CommittedAt
<1>2. \A m \in InFlight' : m.status = "committed" => CommittedAt(Leader, m.tx)
  BY <1>1 DEF NoDelivery, CommitInv
<1>3. \A r \in Server : \A i \in DOMAIN CommittedTransactions'[r] :
         CommittedAt(Leader, CommittedTransactions'[r][i].tx)
  BY <1>1 DEF NoDelivery, CommitInv
<1>4. ASSUME NEW r \in Server, NEW k \in DOMAIN transactions'[r]
      PROVE  CommittedAt(Leader, transactions'[r][k])
  <2>1. \A q \in Server : \A j \in DOMAIN transactions[q] : IsCommitted(transactions[q][j])
    BY DEF CommitInv, ExecutedIsCommitted, IsCommitted, HasQuorum
  <2>2. CASE transactions' = transactions
    BY <1>1, <1>4, <2>1, <2>2
  <2>3. ASSUME NEW s \in Server, NEW t \in NextToExecute(s),
               transactions' = [transactions EXCEPT ![s] = Append(@, t)]
        PROVE  CommittedAt(Leader, transactions'[r][k])
    <3>1. \/ k \in DOMAIN transactions[r] /\ transactions'[r][k] = transactions[r][k]
          \/ \E i \in DOMAIN CommittedTransactions[s] :
                transactions'[r][k] = CommittedTransactions[s][i].tx
      BY <1>4, <2>3, TableElement
    <3> QED BY <1>1, <2>1, <3>1 DEF CommitInv, IsCommitted
  <2> QED BY <2>2, <2>3 DEF NoDelivery
<1>5. ExecutedIsCommitted'
  BY <1>4 DEF ExecutedIsCommitted, CommittedAt, HasQuorum
<1> QED BY <1>2, <1>3, <1>5 DEF CommitInv, IsCommitted, CommittedAt

LEMMA CommitStep ==
    ASSUME TypeInv, LogInv, CommitInv, [Next]_vars
    PROVE  CommitInv'
<1>1. TypeInv'
  BY TypeStep
<1>2. NoDelivery \/ \E s \in Server : \E c \in calls : Delivery(c, s)
  BY QuorumSteps
<1>3. VotesGoToLeader'
  BY <1>2, VotesKept DEF CommitInv
<1> QED BY <1>1, <1>2, <1>3, CommitDelivery, CommitElsewhere

\* Whatever a server has executed, the leader has a quorum of commit messages for: for
\* any servers and workload, byzantine servers that stay mute, lost calls, lost replies.
THEOREM ExecutedIsCommittedHolds == Spec => []ExecutedIsCommitted
<1>1. Init => CommitInv
  BY CommitInit
<1>2. TypeInv /\ LogInv /\ CommitInv /\ [Next]_vars => CommitInv'
  BY CommitStep
<1>3. CommitInv => ExecutedIsCommitted
  BY DEF CommitInv
<1> QED BY <1>1, <1>2, <1>3, LogInvariant, PTL DEF Spec

-----------------------------------------------------------------------------
(* Prepare messages.                                                       *)

Senders(E) == {e.from : e \in E}

\* The leader has heard enough servers after this step.
SupportedAt(t) == Quorum <= Cardinality(Senders(Of(prepares'[Leader], t)))

LEMMA SendersCounted ==
    ASSUME NEW E, IsFiniteSet(E)
    PROVE  /\ IsFiniteSet(Senders(E))
           /\ Cardinality(Senders(E)) \in Nat
           /\ (\A d, e \in E : d.from = e.from => d = e) =>
                 Cardinality(Senders(E)) = Cardinality(E)
<1> DEFINE f == [e \in E |-> e.from]
<1>1. f \in Surjection(E, Senders(E))
  BY DEF Surjection, Senders
<1>2. (\A d, e \in E : d.from = e.from => d = e) => f \in Injection(E, Senders(E))
  BY DEF Injection, IsInjective, Senders
<1> HIDE DEF f
<1>3. /\ IsFiniteSet(Senders(E))
      /\ Cardinality(Senders(E)) = Cardinality(E) <=> f \in Injection(E, Senders(E))
  BY <1>1, FS_Surjection
<1> QED BY <1>2, <1>3, FS_CardinalityType

LEMMA PrepareInit == Init => PrepareInv
BY DEF Init, PrepareInv, PreparesNumbered, PrepareQuorum, VotesGoToLeader, InFlight

LEMMA PreparedStays ==
    ASSUME TypeInv', NEW t, IsPrepared(t), prepares[Leader] \subseteq prepares'[Leader]
    PROVE  SupportedAt(t)
<1>1. IsFiniteSet(Of(prepares'[Leader], t))
  BY FS_Subset, ClusterAssumption DEF Of, TypeInv, TypeOK
<1>2. /\ Senders(Of(prepares[Leader], t)) \in SUBSET Senders(Of(prepares'[Leader], t))
      /\ IsFiniteSet(Senders(Of(prepares'[Leader], t)))
      /\ Cardinality(Senders(Of(prepares'[Leader], t))) \in Nat
  BY <1>1, SendersCounted DEF Senders, Of
<1>3. /\ Cardinality(Senders(Of(prepares[Leader], t)))
            <= Cardinality(Senders(Of(prepares'[Leader], t)))
      /\ IsFiniteSet(Senders(Of(prepares[Leader], t)))
  BY <1>2, FS_Subset
<1>4. Cardinality(Senders(Of(prepares[Leader], t))) \in Nat
  BY <1>3, FS_CardinalityType
<1> QED BY <1>2, <1>3, <1>4 DEF IsPrepared, SupportedAt, Senders, Quorum

LEMMA PreparesStayNumbered ==
    ASSUME TypeInv, LogInv, PreparesNumbered,
           NoDelivery \/ \E s \in Server : \E c \in calls : Delivery(c, s)
    PROVE  PreparesNumbered'
<1>1. \A s \in Server : \A e \in prepares[s] : e.tx \in Tx
  BY DEF TypeInv, TypeOK
<1>2. CASE NoDelivery
  <2>1. \A s \in Server : \A e \in prepares'[s] : NumberedBy(e.tx, e.sno)'
    BY <1>1, <1>2 DEF NoDelivery, PreparesNumbered
  <2> QED BY <2>1 DEF PreparesNumbered
<1>3. ASSUME NEW s \in Server, NEW c \in calls, Delivery(c, s) PROVE PreparesNumbered'
  <2>1. NumberedBy(c.tx, c.sno)
    BY DEF LogInv, MessagesNumbered
  <2>2. \A u, k : NumberedBy(u, k) => NumberedBy(u, k)'
    BY <1>3 DEF Delivery, NumberedBy
  <2>3. ASSUME NEW r \in Server, NEW e \in prepares'[r] PROVE e \in prepares[r] \/ e = Prepare(c)
    <3>1. prepares' = prepares \/ prepares' = [prepares EXCEPT ![s] = @ \cup {Prepare(c)}]
      BY <1>3 DEF Delivery
    <3>2. prepares \in [Server -> SUBSET [tx : Tx, sno : Nat, from : Server]]
      BY DEF TypeInv, TypeOK
    <3> HIDE DEF Prepare
    <3> QED BY <2>3, <3>1, <3>2
  <2>4. \A r \in Server : \A e \in prepares'[r] : NumberedBy(e.tx, e.sno)
    BY <2>1, <2>3 DEF Prepare, PreparesNumbered
  <2> QED BY <2>2, <2>4 DEF PreparesNumbered
<1> QED BY <1>2, <1>3

\* When the leader counts a quorum of entries, a quorum of servers sent them: the entries
\* of one server would carry different numbers of the transfer, and a transfer that has
\* two has been through all of this before.
LEMMA QuorumOfSenders ==
    ASSUME TypeInv', LockInv, PrepareInv, PreparesNumbered', NEW t \in Tx,
           prepares[Leader] \subseteq prepares'[Leader],
           UNCHANGED assigned, PreparedAt(Leader, t)
    PROVE  SupportedAt(t)
<1> DEFINE E == Of(prepares'[Leader], t)
<1>1. E \subseteq [tx : Tx, sno : Nat, from : Server] /\ IsFiniteSet(E)
  BY FS_Subset, ClusterAssumption DEF Of, TypeInv, TypeOK
<1>2. \A e \in E : e.tx = t /\ e.sno \in DOMAIN assigned[Primary]
                   /\ assigned[Primary][e.sno] = t
  BY ClusterAssumption DEF PreparesNumbered, NumberedBy, Of
<1>3. CASE \A d, e \in E : d.sno = e.sno
  <2>1. \A d, e \in E : d.from = e.from => d = e
    BY <1>1, <1>2, <1>3
  <2>2. Cardinality(Senders(E)) = Cardinality(E)
    BY <1>1, <2>1, SendersCounted
  <2> QED BY <2>2 DEF PreparedAt, HasQuorum, SupportedAt, Quorum
<1>4. ASSUME NEW d \in E, NEW e \in E, d.sno # e.sno PROVE SupportedAt(t)
  <2>1. \E k \in DOMAIN transactions[Primary] : transactions[Primary][k] = t
    BY <1>2, <1>4 DEF LockInv, RenumberedIsExecuted
  <2>2. IsPrepared(t)
    BY <2>1, SingleContact DEF PrepareInv
  <2> QED BY <2>2, PreparedStays
<1> QED BY <1>3, <1>4

LEMMA PrepareDelivery ==
    ASSUME TypeInv, TypeInv', LockInv, PrepareInv, NEW s \in Server, NEW c \in calls,
           Delivery(c, s), VotesGoToLeader', PreparesNumbered'
    PROVE  PrepareInv'
<1>1. prepares[Leader] \subseteq prepares'[Leader]
  <2>1. prepares' = prepares \/ prepares' = [prepares EXCEPT ![s] = @ \cup {Prepare(c)}]
    BY DEF Delivery
  <2>2. \E E : prepares \in [Server -> SUBSET E]
    BY DEF TypeInv, TypeOK
  <2> QED BY <2>1, <2>2, ClusterAssumption
<1>2. \A t : IsPrepared(t) => SupportedAt(t)
  BY <1>1, PreparedStays
<1>3. c.status = "prepare" /\ PreparedAt(s, c.tx) => SupportedAt(c.tx)
  <2>1. c.tx \in Tx /\ UNCHANGED assigned
    BY ReceiveType DEF Delivery
  <2> QED BY <1>1, <2>1, VoteIsAtLeader, QuorumOfSenders DEF PrepareInv
<1>4. c.status \in {"prepared", "commit", "committed"} => IsPrepared(c.tx)
  BY DEF PrepareInv, PrepareQuorum
<1>5. \A m \in InFlight' : m.status \in {"prepared", "commit", "committed"} => SupportedAt(m.tx)
  <2>1. \A m \in Rest(c, s) : m.status = c.status
    BY ReceiveType, RestType
  <2>2. \A m \in InFlight : m.status \in {"prepared", "commit", "committed"} => IsPrepared(m.tx)
    BY DEF PrepareInv, PrepareQuorum, InFlight
  <2> QED BY <1>2, <1>3, <1>4, <2>1, <2>2 DEF Delivery, Caused
<1>6. ASSUME NEW r \in Server, NEW i \in DOMAIN CommittedTransactions'[r]
      PROVE  SupportedAt(CommittedTransactions'[r][i].tx)
  <2>1. CASE CommittedTransactions' = CommittedTransactions
    BY <1>2, <1>6, <2>1 DEF PrepareInv, PrepareQuorum
  <2>2. CASE /\ CommittedTransactions' = [CommittedTransactions EXCEPT ![s] = Append(@, Entry(c))]
             /\ c.status \in {"commit", "committed"}
    <3>1. \/ /\ i \in DOMAIN CommittedTransactions[r]
             /\ CommittedTransactions'[r][i] = CommittedTransactions[r][i]
          \/ CommittedTransactions'[r][i].tx = c.tx
      BY <1>6, <2>2, DecisionElement
    <3> QED BY <1>2, <1>4, <2>2, <3>1 DEF PrepareInv, PrepareQuorum
  <2> QED BY <2>1, <2>2 DEF Delivery
<1>7. \A r \in Server : \A k \in DOMAIN transactions'[r] : SupportedAt(transactions'[r][k])
  BY <1>2 DEF Delivery, PrepareInv
<1> QED BY <1>5, <1>6, <1>7 DEF PrepareInv, PrepareQuorum, IsPrepared, SupportedAt, Senders,
                                InFlight

LEMMA PrepareElsewhere ==
    ASSUME TypeInv, PrepareInv, NoDelivery, VotesGoToLeader', PreparesNumbered'
    PROVE  PrepareInv'
<1>1. \A t : IsPrepared(t) => SupportedAt(t)
  BY DEF NoDelivery, IsPrepared, SupportedAt, Senders
<1>2. \A m \in InFlight' : m.status \in {"prepared", "commit", "committed"} => SupportedAt(m.tx)
  <2>1. \A m \in InFlight : m.status \in {"prepared", "commit", "committed"} => IsPrepared(m.tx)
    BY DEF PrepareInv, PrepareQuorum, InFlight
  <2> QED BY <1>1, <2>1 DEF NoDelivery
<1>3. \A r \in Server : \A i \in DOMAIN CommittedTransactions'[r] :
         SupportedAt(CommittedTransactions'[r][i].tx)
  BY <1>1 DEF NoDelivery, PrepareInv, PrepareQuorum
<1>4. ASSUME NEW r \in Server, NEW k \in DOMAIN transactions'[r]
      PROVE  SupportedAt(transactions'[r][k])
  <2>1. CASE transactions' = transactions
    BY <1>1, <1>4, <2>1 DEF PrepareInv
  <2>2. ASSUME NEW s \in Server, NEW t \in NextToExecute(s),
               transactions' = [transactions EXCEPT ![s] = Append(@, t)]
        PROVE  SupportedAt(transactions'[r][k])
    <3>1. \/ k \in DOMAIN transactions[r] /\ transactions'[r][k] = transactions[r][k]
          \/ \E i \in DOMAIN CommittedTransactions[s] :
                transactions'[r][k] = CommittedTransactions[s][i].tx
      BY <1>4, <2>2, TableElement
    <3> QED BY <1>1, <3>1 DEF PrepareInv, PrepareQuorum
  <2> QED BY <2>1, <2>2 DEF NoDelivery
<1> QED BY <1>2, <1>3, <1>4 DEF PrepareInv, PrepareQuorum, IsPrepared, SupportedAt, Senders,
                                InFlight

LEMMA PrepareStep ==
    ASSUME TypeInv, LogInv, LockInv, PrepareInv, [Next]_vars
    PROVE  PrepareInv'
<1>1. TypeInv'
  BY TypeStep
<1>2. NoDelivery \/ \E s \in Server : \E c \in calls : Delivery(c, s)
  BY QuorumSteps
<1>3. VotesGoToLeader' /\ PreparesNumbered'
  BY <1>2, VotesKept, PreparesStayNumbered DEF PrepareInv
<1> QED BY <1>1, <1>2, <1>3, PrepareDelivery, PrepareElsewhere

\* No transfer is announced as prepared, committed or decided before two servers have
\* sent the leader a prepare for it, although the code counts entries and not servers:
\* for any servers and workload, mute servers, lost calls, lost replies and retries.
THEOREM PrepareQuorumHolds == Spec => []PrepareQuorum
<1>1. Init => PrepareInv
  BY PrepareInit
<1>2. TypeInv /\ LogInv /\ LockInv /\ PrepareInv /\ [Next]_vars => PrepareInv'
  BY PrepareStep
<1>3. PrepareInv => PrepareQuorum
  BY DEF PrepareInv
<1> QED BY <1>1, <1>2, <1>3, LockInvariant, PTL DEF Spec

=============================================================================
