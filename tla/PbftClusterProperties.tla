----------------------- MODULE PbftClusterProperties -----------------------
(***************************************************************************)
(* What the cluster of PbftCluster must keep and must reach.  The CSV sets *)
(* name one contact server per cluster; Primary is that server, and the    *)
(* properties about the order of transfers are about such workloads.       *)
(***************************************************************************)
EXTENDS PbftCluster

CONSTANT Primary      \* the contact server of every transaction of the scripts

ASSUME SingleContact ==
    /\ Primary \in Server
    /\ \A q \in Scripts : \A i \in DOMAIN q : Request[q[i]].contact = Primary

DriverType ==
    [phase : {"idle", "calling", "waiting", "retrying", "spinning", "exited"},
     retries : 0..MaxRetries]

\* Every variable keeps its type; with the mailboxes of prepare and commit entries
\* finite, the counts that the quorum tests compare are numbers.
TypeOK ==
    /\ script \in Seq(Tx)
    /\ driver \in DriverType
    /\ lostReplies \in Nat
    /\ drops \in Nat
    /\ calls \in SUBSET Message
    /\ mu \in [Server -> {"free", "awaiting", "executing", "deadlocked", "leaked"}]
    /\ resume \in [Server -> SUBSET Message]
    /\ assigned \in [Server -> Seq(Tx)]
    /\ prepares \in [Server -> SUBSET [tx : Tx, sno : Nat, from : Server]]
    /\ commits \in [Server -> SUBSET [tx : Tx, sno : Nat, from : Server, serial : Nat]]
    /\ \A s \in Server : IsFiniteSet(prepares[s]) /\ IsFiniteSet(commits[s])
    /\ CommittedTransactions \in [Server -> Seq([tx : Tx, sno : Nat])]
    /\ count \in [Server -> Nat]
    /\ MaxExecutedSno \in [Server -> Nat]
    /\ balance \in [Server -> [Account -> Int]]
    /\ lock \in [Server -> SUBSET Account]
    /\ transactions \in [Server -> Seq(Tx)]
    /\ wal \in [Server -> SUBSET Tx]

\* main waits for an answer, or between two attempts, only for the transaction at
\* the head of the script, and it does not retry more than MaxRetries times.
DriverOK ==
    /\ driver.phase # "idle" => script # <<>>
    /\ driver.phase = "retrying" => driver.retries < MaxRetries

-----------------------------------------------------------------------------
(* Agreement.                                                              *)

\* No two servers execute different transfers at the same position of their
\* transactions tables, although messages of different transfers overtake each
\* other, may be lost, and a server may hear of a decision several times.
OrderAgreement ==
    \A s, r \in Server : \A k \in DOMAIN transactions[s] \cap DOMAIN transactions[r] :
        transactions[s][k] = transactions[r][k]

\* Two servers that record a decision for the same sequence number record the same
\* transfer, also where the decision is never executed.
DecisionAgreement ==
    \A s, r \in Server : \A i \in DOMAIN CommittedTransactions[s] :
        \A j \in DOMAIN CommittedTransactions[r] :
            LET d == CommittedTransactions[s][i]
                e == CommittedTransactions[r][j]
            IN  d.sno = e.sno => d.tx = e.tx

\* At least two servers have sent the leader a prepare for t.
IsPrepared(t) == Quorum <= Cardinality({e.from : e \in Of(prepares[Leader], t)})

\* Before a server may record a transfer as decided, at least two servers must
\* have sent the leader a prepare for it: `prepared`, commit and `committed`
\* messages are consequences of that quorum only.
PrepareQuorum ==
    /\ \A c \in calls \cup UNION {resume[s] : s \in Server} :
          c.status \in {"prepared", "commit", "committed"} => IsPrepared(c.tx)
    /\ \A s \in Server : \A i \in DOMAIN CommittedTransactions[s] :
          IsPrepared(CommittedTransactions[s][i].tx)

\* A transfer that some server has executed was announced by its leader, on a
\* quorum of commit messages.
ExecutedIsCommitted ==
    \A s \in Server : \A k \in DOMAIN transactions[s] :
        Cardinality(Of(commits[Leader], transactions[s][k])) >= Quorum

\* What README.md says of a decision: it needs commit signatures of a quorum, that
\* is of that many different servers. The code counts commit entries.
CommitQuorum ==
    \A i \in DOMAIN CommittedTransactions[Leader] :
        LET t == CommittedTransactions[Leader][i].tx
        IN  Quorum <= Cardinality({e.from : e \in Of(commits[Leader], t)})

-----------------------------------------------------------------------------
(* Row locks and money.                                                    *)

\* Positions of the contact server's log whose transfer still holds its accounts:
\* those not executed yet, and those whose locks are never released because they
\* look like cross-shard transfers.
Holding == {i \in DOMAIN assigned[Primary] :
               \/ i > Len(transactions[Primary])
               \/ IsTransactionCrossShard(assigned[Primary][i])}

\* At the contact server the locked rows are exactly the accounts of the transfers
\* that hold them, and no account is held by two transfers.
LocksCoverPending ==
    /\ lock[Primary] = UNION {Accounts(assigned[Primary][i]) : i \in Holding}
    /\ \A i, j \in Holding :
          i # j => Accounts(assigned[Primary][i]) \cap Accounts(assigned[Primary][j]) = {}

\* No account goes negative anywhere. Only the contact server compares the amount
\* with a balance, and long before the other servers execute the transfer.
NoOverdraft == \A s \in Server : \A a \in Account : balance[s][a] >= 0

\* A handler that has begun to poll the row locks polls them for ever: the locks
\* it waits for are released by handlers that need the mutex it keeps.
AwaitingIsForever ==
    [][\A s \in Server : mu[s] = "awaiting" => mu'[s] = "awaiting"]_vars

-----------------------------------------------------------------------------
(* The promise to the clients.                                             *)

Log == INSTANCE TransferLog
         WITH log <- assigned[Primary],
              applied <- transactions,
              accounts <- balance

\* The cluster implements the replicated log: transfers are accepted once, and
\* every server applies them in the order of the contact server's numbers, money
\* and record together.
ImplementsLog == Log!Spec

ExecutedAt(t, s) == \E k \in DOMAIN transactions[s] : transactions[s][k] = t

\* s is active and honest in the i-th accepted transfer and in all before it. A server
\* that was left out of one never learns its number and executes nothing after it.
KeepsUp(s, i) ==
    \A j \in 1..i : LET t == assigned[Primary][j]
                    IN  s \in ActiveServers(t) \ Request[t].byzantine

\* The driver gets through the CSV file, and in the end every accepted transfer has
\* been executed by every server that keeps up, although the sets of the file name
\* different active servers.
WorkloadCompletes ==
    <>[](/\ script = <<>>
         /\ \A i \in DOMAIN assigned[Primary] : \A s \in Server :
               KeepsUp(s, i) => ExecutedAt(assigned[Primary][i], s))

\* A server that has a decision for the number after its last executed transfer
\* goes on and executes it.
DecidedIsExecuted ==
    \A s \in Server :
        []<>(\A i \in DOMAIN CommittedTransactions[s] :
                 CommittedTransactions[s][i].sno # Len(transactions[s]) + 1)

\* Every call of the driver gets an answer.
RequestIsAnswered == Calling ~> ~Calling

-----------------------------------------------------------------------------
(* Inductive invariants: what makes agreement hold.  A sequence number means  *)
(* the same transfer wherever it occurs, because only the primary makes       *)
(* numbers and it makes each one once; and a server's execution counter is    *)
(* the length of its transactions table.                                      *)

\* The primary has given t the number n.
NumberedBy(t, n) == n \in DOMAIN assigned[Primary] /\ assigned[Primary][n] = t

\* The driver sends every request to the primary.
ScriptForPrimary == \A i \in DOMAIN script : Request[script[i]].contact = Primary

\* Every message, waiting or under way, is about a transfer and its number.
MessagesNumbered ==
    /\ \A c \in calls : NumberedBy(c.tx, c.sno)
    /\ \A s \in Server : \A c \in resume[s] : NumberedBy(c.tx, c.sno)

\* So is every decision,
DecisionsNumbered ==
    \A s \in Server : \A i \in DOMAIN CommittedTransactions[s] :
        NumberedBy(CommittedTransactions[s][i].tx, CommittedTransactions[s][i].sno)

\* and a transfer is executed at the position that its number says,
TransfersNumbered ==
    \A s \in Server : \A k \in DOMAIN transactions[s] : NumberedBy(transactions[s][k], k)

\* because the counter of the execution loop, and MaxExecutedSno between two runs of
\* the loop, are the length of the transactions table. A handler that fails inside the
\* loop loses its count, and keeps s.mu for ever.
CountersMatchTable ==
    \A s \in Server :
        /\ mu[s] = "executing" => count[s] = Len(transactions[s])
        /\ mu[s] \in {"free", "awaiting"} => MaxExecutedSno[s] = Len(transactions[s])

\* The inductive invariant behind OrderAgreement and DecisionAgreement.
LogInv == /\ ScriptForPrimary /\ MessagesNumbered /\ DecisionsNumbered
          /\ TransfersNumbered /\ CountersMatchTable

\* Without lost replies a transfer is numbered at most once: main goes on to the
\* next one, or spins for ever, as soon as the contact server has accepted it.
NumberedOnce ==
    /\ lostReplies = 0
    /\ \A i, j \in DOMAIN script : script[i] = script[j] => i = j
    /\ \A i, j \in DOMAIN assigned[Primary] : assigned[Primary][i] = assigned[Primary][j] => i = j
    /\ driver.phase # "spinning" =>
          \A i \in DOMAIN script : \A j \in DOMAIN assigned[Primary] :
              script[i] # assigned[Primary][j]

\* Who polls the row locks serves the driver's call and finds a lock in its own
\* table, which only a handler of the same server could release.
AwaitsHeldLocks ==
    \A s \in Server : mu[s] = "awaiting" =>
        Calling /\ s = Contact /\ Accounts(Current) \cap lock[s] # {}

-----------------------------------------------------------------------------
(* What makes the locks and the money right.                                *)

\* A transfer that main sends again after a lost reply gets a second number only when
\* the primary has executed it: its own row locks keep it out until then.
RenumberedIsExecuted ==
    \A i, j \in DOMAIN assigned[Primary] :
        assigned[Primary][i] = assigned[Primary][j] /\ i # j =>
            \E k \in DOMAIN transactions[Primary] :
                transactions[Primary][k] = assigned[Primary][i]

\* The inductive invariant behind LocksCoverPending.
LockInv == LocksCoverPending /\ RenumberedIsExecuted

\* h[k] are the balances after the first k transfers of the primary's log.
IsLedger(h) ==
    /\ h \in [0..Len(assigned[Primary]) -> [Account -> Int]]
    /\ h[0] = [a \in Account |-> InitialBalance]
    /\ \A k \in DOMAIN assigned[Primary] : h[k] = Transfer(h[k - 1], assigned[Primary][k])

\* A server's balances are those of the ledger at the length of its own table. One that
\* was stopped by a transaction id it had already may be an entry ahead of its table.
BalancesFollow(h) ==
    \A s \in Server :
        LET n == Len(transactions[s])
        IN  \/ balance[s] = h[n]
            \/ mu[s] = "leaked" /\ n + 1 \in DOMAIN h /\ balance[s] = h[n + 1]

\* An account that is not locked at the primary is not touched by the entries that the
\* primary has still to execute, and the accounts of such an entry by no entry after it.
LocksReserve(h) ==
    /\ \A a \in Account \ lock[Primary] : \A k \in DOMAIN h :
          k >= Len(transactions[Primary]) => h[k][a] = h[Len(transactions[Primary])][a]
    /\ \A i \in Holding : \A a \in Accounts(assigned[Primary][i]) : \A k \in DOMAIN h :
          k >= i => h[k][a] = h[i][a]

Solvent(h) == \A k \in DOMAIN h : \A a \in Account : h[k][a] >= 0

\* The inductive invariant behind NoOverdraft: what the contact server's check at the
\* time of acceptance means for every later execution elsewhere.
MoneyInv == \E h : IsLedger(h) /\ BalancesFollow(h) /\ LocksReserve(h) /\ Solvent(h)

-----------------------------------------------------------------------------
(* What makes the quorums hold: prepare and commit messages are calls of the  *)
(* leader alone, so one mailbox holds all votes, and mailboxes only grow.     *)

\* Messages waiting to be delivered, and the rest of those being handled.
InFlight == calls \cup UNION {resume[s] : s \in Server}

VotesGoToLeader == \A m \in InFlight : m.status \in {"prepare", "commit"} => m.to = {Leader}

\* The leader counts enough commit entries for t.
IsCommitted(t) == HasQuorum(Cardinality(Of(commits[Leader], t)))

\* The inductive invariant behind ExecutedIsCommitted: also announced and recorded
\* decisions rest on a quorum of commit messages.
CommitInv ==
    /\ VotesGoToLeader
    /\ \A m \in InFlight : m.status = "committed" => IsCommitted(m.tx)
    /\ \A s \in Server : \A i \in DOMAIN CommittedTransactions[s] :
          IsCommitted(CommittedTransactions[s][i].tx)
    /\ ExecutedIsCommitted

\* A prepare entry carries a number of its transfer.
PreparesNumbered ==
    \A s \in Server : \A e \in prepares[s] : NumberedBy(e.tx, e.sno)

\* The inductive invariant behind PrepareQuorum. HasQuorum counts entries, IsPrepared
\* counts their senders: they agree on a transfer with one number, and one with several
\* numbers was prepared before the second was made.
PrepareInv ==
    /\ VotesGoToLeader /\ PreparesNumbered /\ PrepareQuorum
    /\ \A s \in Server : \A k \in DOMAIN transactions[s] : IsPrepared(transactions[s][k])

=============================================================================
