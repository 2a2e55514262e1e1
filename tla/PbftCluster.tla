---------------------------- MODULE PbftCluster ----------------------------
(***************************************************************************)
(* One cluster of ShardVault: the driver loop of main.go that submits      *)
(* intra-shard transfers, and the servers that agree on them through the   *)
(* phases of Server.HandleTransaction (server/server.go).                  *)
(*                                                                         *)
(* Every handler runs under the server's mutex s.mu, so a handler is one   *)
(* step of the model except where the code can stop inside it: polling the *)
(* row locks (73-84), taking s.mu a second time (227, 284), and returning  *)
(* an error without s.mu.Unlock() (69, 233, 238, 290, 295).                *)
(*                                                                         *)
(* Every `go s.send...` is a goroutine that makes one blocking RPC after   *)
(* another; `calls` holds those goroutines, so messages of different       *)
(* goroutines overtake each other freely, and a goroutine whose current    *)
(* callee never answers never reaches the rest of its list.                *)
(*                                                                         *)
(* A definition marked "mutant" is a plausible mistake in the definition   *)
(* that follows it.  No specification uses it; README.md says which        *)
(* property would notice it.                                               *)
(***************************************************************************)
EXTENDS Integers, Sequences, FiniteSets

CONSTANTS
    Server,           \* the servers of the cluster
    Leader,           \* GetClusterLeaderId of all of them
    Account,          \* the client ids stored by the cluster
    Shard,            \* the block of 1000 ids that IsTransactionCrossShard sees
    Tx,               \* transaction ids (uuids)
    Request,          \* what each transaction asks, and the lists of its CSV set
    Scripts,          \* the transaction sequences the CSV file may hold
    InitialBalance,   \* 10 in InitDatabase
    CombineOutcomes,  \* may VerifyPKCS1v15 accept what shamir.Combine returns?
    Reentrant,        \* may the holder of s.mu lock it again? FALSE for sync.Mutex
    MaxDrops,         \* bound on failed dials
    MaxLostReplies    \* bound on replies to the client that are lost

ASSUME ClusterAssumption ==
    /\ Leader \in Server
    /\ Shard \in [Account -> Nat]
    /\ Request \in [Tx -> [source : Account, destination : Account, amount : Int,
                           contact : Server, active : Seq(Server),
                           byzantine : SUBSET Server]]
    /\ \A t \in Tx : \A i, j \in DOMAIN Request[t].active :
          Request[t].active[i] = Request[t].active[j] => i = j
    /\ Scripts \subseteq Seq(Tx)
    /\ \A q \in Scripts : \A i, j \in DOMAIN q : q[i] = q[j] => i = j
    /\ InitialBalance \in Nat
    /\ CombineOutcomes \in SUBSET BOOLEAN
    /\ Reentrant \in BOOLEAN
    /\ MaxDrops \in Nat
    /\ MaxLostReplies \in Nat

VARIABLES
    script,                 \* transactions the driver has still to finish
    driver,                 \* where the driver is in its submit-and-retry loop
    lostReplies, drops,     \* faults so far
    calls,                  \* sender goroutines, with the servers still to call
    mu,                     \* s.mu: free, or what its holder is doing
    resume,                 \* the sender goroutine waiting for the running handler
    assigned,               \* requests numbered by s; MaxSequenceNumber is the length
    prepares, commits,      \* prepare and commit entries of s.Transactions
    CommittedTransactions,  \* in arrival order
    count,                  \* the local of the execution loop
    MaxExecutedSno,
    balance, lock, transactions, wal   \* the SQLite tables of each server

driverVars == <<script, driver, lostReplies>>
network    == <<calls, drops>>
handler    == <<mu, resume, count>>
consensus  == <<assigned, prepares, commits, CommittedTransactions, MaxExecutedSno>>
db         == <<balance, lock, transactions, wal>>
vars       == <<driverVars, network, handler, consensus, db>>

MaxRetries == 3
Quorum     == 2

HasQuorumButOne(received) == received + 1 >= Quorum     \* mutant: one too few

\* Enough entries for a transaction: distinct senders are not asked for.
HasQuorum(received)       == received >= Quorum

-----------------------------------------------------------------------------
(* Requests and messages.                                                  *)

Source(t)       == Request[t].source
Destination(t)  == Request[t].destination
Amount(t)       == Request[t].amount
Accounts(t)     == {Source(t), Destination(t)}
ActiveServers(t) == {Request[t].active[i] : i \in DOMAIN Request[t].active}
IsByzantine(t, s) == s \in Request[t].byzantine

IsTransactionCrossShard(t) == Shard[Source(t)] # Shard[Destination(t)]

\* The goroutine that sends one message. serial tells apart the goroutines a
\* server starts for the same transaction and phase; valid says whether the
\* receivers' verifyPublicKey will accept the signature.
Message == [status : {"pre-prepare", "prepare", "prepared", "commit", "committed"},
            tx : Tx, sno : Nat, from : Server, serial : Nat, valid : BOOLEAN,
            to : SUBSET Server]

\* PrePrepare and sendFromPrimaryWithThresholdKey: the active servers but the
\* sender, one blocking call after another in the order of the list.
Broadcast(status, t, n, from, serial, valid) ==
    LET to == ActiveServers(t) \ {from}
    IN  IF to = {} THEN {}
        ELSE {[status |-> status, tx |-> t, sno |-> n, from |-> from,
               serial |-> serial, valid |-> valid, to |-> to]}

\* sendFromBackupsToPrimary, on behalf of the message c that s has just handled.
ToPrimary(status, c, s) ==
    {[status |-> status, tx |-> c.tx, sno |-> c.sno, from |-> s,
      serial |-> c.serial, valid |-> TRUE, to |-> {Leader}]}

ListedBefore(t, s, r) ==
    \E i, j \in DOMAIN Request[t].active :
        i < j /\ Request[t].active[i] = s /\ Request[t].active[j] = r

\* c is at the point of calling s.
Calls(c, s) == s \in c.to /\ \A r \in c.to \ {s} : ListedBefore(c.tx, s, r)

RestGivenUp(c, s) == {}                 \* mutant: the sender's loop stops there

\* What is left of c once the call to s has returned.
Rest(c, s) == IF c.to = {s} THEN {} ELSE {[c EXCEPT !.to = @ \ {s}]}

Of(entries, t) == {e \in entries : e.tx = t}

-----------------------------------------------------------------------------
Init ==
    /\ script \in Scripts
    /\ driver = [phase |-> "idle", retries |-> 0]
    /\ lostReplies = 0
    /\ drops = 0
    /\ calls = {}
    /\ mu = [s \in Server |-> "free"]
    /\ resume = [s \in Server |-> {}]
    /\ assigned = [s \in Server |-> <<>>]
    /\ prepares = [s \in Server |-> {}]
    /\ commits = [s \in Server |-> {}]
    /\ CommittedTransactions = [s \in Server |-> <<>>]
    /\ count = [s \in Server |-> 0]
    /\ MaxExecutedSno = [s \in Server |-> 0]
    /\ balance = [s \in Server |-> [a \in Account |-> InitialBalance]]
    /\ lock = [s \in Server |-> {}]
    /\ transactions = [s \in Server |-> <<>>]
    /\ wal = [s \in Server |-> {}]

-----------------------------------------------------------------------------
(* The driver: one outstanding call at a time.                             *)

Calling == driver.phase \in {"calling", "retrying"}
Running == driver.phase # "exited"
Current == Head(script)
Contact == Request[Current].contact

NotOverdrawn      == balance[Contact][Source(Current)] >= 0     \* mutant
SufficientBalance == balance[Contact][Source(Current)] >= Amount(Current)

SenderLocked == Source(Current) \in lock[Contact]       \* mutant: receiver not checked
RowsLocked   == Accounts(Current) \cap lock[Contact] # {}

NumberAfterExecuted(s) == MaxExecutedSno[s] + 1         \* mutant: the other counter
NextNumber(s)          == Len(assigned[s]) + 1

\* SendIntraShardTransaction returns. After a failure main waits for a timer
\* and calls again, at most three times; the `break` that follows a successful
\* retry leaves the select and not the loop, so main spins there for ever.
SendReturns(success) ==
    \/ /\ success /\ driver.phase = "calling"
       /\ driver' = [phase |-> "idle", retries |-> 0]
       /\ script' = Tail(script)
    \/ /\ success /\ driver.phase = "retrying"
       /\ driver' = [driver EXCEPT !.phase = "spinning"]
       /\ UNCHANGED script
    \/ /\ ~success
       /\ driver' = [phase |-> "waiting",
                     retries |-> IF driver.phase = "retrying" THEN driver.retries + 1
                                                              ELSE 0]
       /\ UNCHANGED script

Submit ==
    /\ driver.phase = "idle"
    /\ script # <<>>
    /\ driver' = [driver EXCEPT !.phase = "calling"]
    /\ UNCHANGED <<script, lostReplies, network, handler, consensus, db>>

\* After the third failed retry main returns, and with it every server stops.
RetryTimer ==
    /\ driver.phase = "waiting"
    /\ driver' = [driver EXCEPT !.phase = IF driver.retries < MaxRetries
                                          THEN "retrying" ELSE "exited"]
    /\ UNCHANGED <<script, lostReplies, network, handler, consensus, db>>

ClientDialFails ==
    /\ Calling
    /\ mu[Contact] # "awaiting"
    /\ drops < MaxDrops
    /\ drops' = drops + 1
    /\ SendReturns(FALSE)
    /\ UNCHANGED <<lostReplies, calls, handler, consensus, db>>

-----------------------------------------------------------------------------
(* HandleTransaction, status "client-request".                             *)

\* The early return on an insufficient balance leaves s.mu locked.
RefuseRequest ==
    /\ Calling
    /\ mu[Contact] = "free"
    /\ ~SufficientBalance
    /\ mu' = [mu EXCEPT ![Contact] = "leaked"]
    /\ SendReturns(FALSE)
    /\ UNCHANGED <<lostReplies, network, resume, count, consensus, db>>

\* The polling loops wait for the row locks and keep s.mu while they wait.
AwaitLocks ==
    /\ Calling
    /\ mu[Contact] = "free"
    /\ SufficientBalance
    /\ RowsLocked
    /\ mu' = [mu EXCEPT ![Contact] = "awaiting"]
    /\ UNCHANGED <<driverVars, network, resume, count, consensus, db>>

AcceptRequest ==
    /\ Calling
    /\ mu[Contact] = "awaiting" \/ (mu[Contact] = "free" /\ SufficientBalance)
    /\ ~RowsLocked
    /\ lock' = [lock EXCEPT ![Contact] = @ \cup Accounts(Current)]
    /\ assigned' = [assigned EXCEPT ![Contact] = Append(@, Current)]
    /\ calls' = calls \cup Broadcast("pre-prepare", Current,
                                     NextNumber(Contact), Contact, 0, TRUE)
    /\ mu' = [mu EXCEPT ![Contact] = "free"]
    /\ \/ SendReturns(TRUE) /\ UNCHANGED lostReplies
       \/ /\ lostReplies < MaxLostReplies
          /\ lostReplies' = lostReplies + 1
          /\ SendReturns(FALSE)
    /\ UNCHANGED <<drops, resume, count, prepares, commits, CommittedTransactions,
                   MaxExecutedSno, balance, transactions, wal>>

-----------------------------------------------------------------------------
(* HandleTransaction, the messages between servers.                        *)

ReceiveUnlocked(c, s, status) ==        \* mutant: a handler that does not take s.mu
    /\ Running
    /\ c.status = status
    /\ Calls(c, s)
    /\ mu[s] \in {"free", "awaiting"}

\* The call of c to s gets s.mu.
Receive(c, s, status) ==
    /\ Running
    /\ c.status = status
    /\ Calls(c, s)
    /\ mu[s] = "free"

\* rpc.Dial fails: PrePrepare and its like go on with the next server.
CallFails(c, s) ==
    /\ Running
    /\ Calls(c, s)
    /\ drops < MaxDrops
    /\ drops' = drops + 1
    /\ calls' = (calls \ {c}) \cup Rest(c, s)
    /\ UNCHANGED <<driverVars, handler, consensus, db>>

HandlePrePrepare(c, s) ==
    /\ Receive(c, s, "pre-prepare")
    /\ calls' = (calls \ {c}) \cup Rest(c, s)
                \cup (IF IsByzantine(c.tx, s) THEN {} ELSE ToPrimary("prepare", c, s))
    /\ UNCHANGED <<driverVars, drops, handler, consensus, db>>

HandlePrepare(c, s) ==
    /\ Receive(c, s, "prepare")
    /\ prepares' = [prepares EXCEPT ![s] = @ \cup {[tx |-> c.tx, sno |-> c.sno,
                                                    from |-> c.from]}]
    /\ LET received == Cardinality(Of(prepares'[s], c.tx))
       IN  IF ~IsByzantine(c.tx, s) /\ HasQuorum(received)
           THEN \E valid \in CombineOutcomes :
                    calls' = (calls \ {c}) \cup Rest(c, s)
                             \cup Broadcast("prepared", c.tx, c.sno, s, received, valid)
           ELSE calls' = (calls \ {c}) \cup Rest(c, s)
    /\ UNCHANGED <<driverVars, drops, handler, assigned, commits,
                   CommittedTransactions, MaxExecutedSno, db>>

HandlePrepared(c, s) ==
    /\ Receive(c, s, "prepared")
    /\ calls' = (calls \ {c}) \cup Rest(c, s)
                \cup (IF IsByzantine(c.tx, s) \/ ~c.valid THEN {}
                      ELSE ToPrimary("commit", c, s))
    /\ UNCHANGED <<driverVars, drops, handler, consensus, db>>

\* s records the decision and enters the execution loop, still holding s.mu;
\* the goroutine `rest` that called s waits for the loop to end.
Decide(s, t, n, rest) ==
    /\ CommittedTransactions' = [CommittedTransactions EXCEPT
                                    ![s] = Append(@, [tx |-> t, sno |-> n])]
    /\ mu' = [mu EXCEPT ![s] = "executing"]
    /\ count' = [count EXCEPT ![s] = MaxExecutedSno[s]]
    /\ resume' = [resume EXCEPT ![s] = rest]

HandleCommit(c, s) ==
    /\ Receive(c, s, "commit")
    /\ IF IsByzantine(c.tx, s)
       THEN /\ calls' = (calls \ {c}) \cup Rest(c, s)
            /\ UNCHANGED <<commits, CommittedTransactions, handler>>
       ELSE /\ commits' = [commits EXCEPT ![s] = @ \cup {[tx |-> c.tx, sno |-> c.sno,
                                             from |-> c.from, serial |-> c.serial]}]
            /\ LET received == Cardinality(Of(commits'[s], c.tx))
               IN  IF HasQuorum(received)
                   THEN /\ Decide(s, c.tx, c.sno, Rest(c, s))
                        /\ \E valid \in CombineOutcomes :
                              calls' = (calls \ {c})
                                  \cup Broadcast("committed", c.tx, c.sno, s, received, valid)
                   ELSE /\ calls' = (calls \ {c}) \cup Rest(c, s)
                        /\ UNCHANGED <<CommittedTransactions, handler>>
    /\ UNCHANGED <<driverVars, drops, assigned, prepares, MaxExecutedSno, db>>

HandleCommitted(c, s) ==
    /\ Receive(c, s, "committed")
    /\ IF IsByzantine(c.tx, s) \/ ~c.valid
       THEN /\ calls' = (calls \ {c}) \cup Rest(c, s)
            /\ UNCHANGED <<CommittedTransactions, handler>>
       ELSE /\ Decide(s, c.tx, c.sno, Rest(c, s))
            /\ calls' = calls \ {c}
    /\ UNCHANGED <<driverVars, drops, assigned, prepares, commits, MaxExecutedSno, db>>

-----------------------------------------------------------------------------
(* The execution loop of the commit and committed handlers.                *)

DueInAnyOrder(s) == {i \in DOMAIN CommittedTransactions[s] :      \* mutant
                        CommittedTransactions[s][i].sno > count[s]}

Due(s) == {i \in DOMAIN CommittedTransactions[s] :
              CommittedTransactions[s][i].sno = count[s] + 1}

\* The transfer of the entry at which the scan of CommittedTransactions stops.
NextToExecute(s) ==
    {CommittedTransactions[s][i].tx : i \in {k \in Due(s) : \A j \in Due(s) : k <= j}}

\* mutant: both balances are read before either is written.
TransferOfOldBalances(bal, t) ==
    [bal EXCEPT ![Source(t)]      = bal[Source(t)] - Amount(t),
                ![Destination(t)] = bal[Destination(t)] + Amount(t)]

\* UpdateClientBalance of the sender, then of the receiver.
Transfer(bal, t) ==
    LET debited == [bal EXCEPT ![Source(t)] = @ - Amount(t)]
    IN  [debited EXCEPT ![Destination(t)] = @ + Amount(t)]

InLoop(s) == Running /\ mu[s] = "executing"

\* s.mu.Lock() inside the loop, by the goroutine that already holds s.mu.
SelfDeadlock(s) ==
    /\ InLoop(s)
    /\ Due(s) # {}
    /\ ~Reentrant
    /\ mu' = [mu EXCEPT ![s] = "deadlocked"]
    /\ UNCHANGED <<driverVars, network, resume, count, consensus, db>>

\* The handler returns an error from within the loop: s.mu stays locked, the
\* caller goes on.
ReturnError(s) ==
    /\ mu' = [mu EXCEPT ![s] = "leaked"]
    /\ calls' = calls \cup resume[s]
    /\ resume' = [resume EXCEPT ![s] = {}]

\* One iteration: AddToWAL for what looks like a cross-shard transfer, then
\* CommitTransactionInDB, then the release of an intra-shard transfer's locks.
Execute(s) ==
    /\ InLoop(s)
    /\ Reentrant
    /\ \E t \in NextToExecute(s) :
        /\ \A i \in DOMAIN transactions[s] : transactions[s][i] # t
        /\ balance' = [balance EXCEPT ![s] = Transfer(@, t)]
        /\ transactions' = [transactions EXCEPT ![s] = Append(@, t)]
        /\ IF IsTransactionCrossShard(t)
           THEN /\ wal' = [wal EXCEPT ![s] = @ \cup {t}]
                /\ UNCHANGED lock
           ELSE /\ lock' = [lock EXCEPT ![s] = @ \ Accounts(t)]
                /\ UNCHANGED wal
    /\ count' = [count EXCEPT ![s] = @ + 1]
    /\ UNCHANGED <<driverVars, network, mu, resume, consensus>>

\* A transaction id that is already there: the primary key of WAL refuses it
\* before anything is changed, that of transactions when both balances have been.
\* Like Execute it is reached only if s.mu could be taken twice; in Go lines 227 and
\* 284 stop the handler first.
ExecuteAgain(s) ==
    /\ InLoop(s)
    /\ Reentrant
    /\ \E t \in NextToExecute(s) :
        /\ \E i \in DOMAIN transactions[s] : transactions[s][i] = t
        /\ balance' = IF t \in wal[s] THEN balance
                      ELSE [balance EXCEPT ![s] = Transfer(@, t)]
    /\ ReturnError(s)
    /\ UNCHANGED <<driverVars, drops, count, consensus, lock, transactions, wal>>

FinishLoopBeforeLast(s) ==              \* mutant: the counter is written back short
    /\ InLoop(s)
    /\ Due(s) = {}
    /\ MaxExecutedSno' = [MaxExecutedSno EXCEPT ![s] = count[s] - 1]
    /\ mu' = [mu EXCEPT ![s] = "free"]
    /\ calls' = calls \cup resume[s]
    /\ resume' = [resume EXCEPT ![s] = {}]
    /\ UNCHANGED <<driverVars, drops, count, assigned, prepares, commits,
                   CommittedTransactions, db>>

FinishLoop(s) ==
    /\ InLoop(s)
    /\ Due(s) = {}
    /\ MaxExecutedSno' = [MaxExecutedSno EXCEPT ![s] = count[s]]
    /\ mu' = [mu EXCEPT ![s] = "free"]
    /\ calls' = calls \cup resume[s]
    /\ resume' = [resume EXCEPT ![s] = {}]
    /\ UNCHANGED <<driverVars, drops, count, assigned, prepares, commits,
                   CommittedTransactions, db>>

-----------------------------------------------------------------------------
\* The CSV file is processed and nothing is left to deliver or to execute.
Done ==
    /\ driver.phase = "idle" /\ script = <<>>
    /\ calls = {}
    /\ \A s \in Server : mu[s] = "free"
    /\ UNCHANGED vars

Drive == Submit \/ RetryTimer \/ RefuseRequest \/ AwaitLocks \/ AcceptRequest

Handle(s) == \/ \E c \in calls : HandlePrePrepare(c, s)
             \/ \E c \in calls : HandlePrepare(c, s)
             \/ \E c \in calls : HandlePrepared(c, s)
             \/ \E c \in calls : HandleCommit(c, s)
             \/ \E c \in calls : HandleCommitted(c, s)

ExecutionStep(s) == SelfDeadlock(s) \/ Execute(s) \/ ExecuteAgain(s) \/ FinishLoop(s)

Fail == ClientDialFails \/ \E s \in Server : \E c \in calls : CallFails(c, s)

Next == \/ Drive
        \/ \E s \in Server : Handle(s)
        \/ \E s \in Server : ExecutionStep(s)
        \/ Fail
        \/ Done

Spec == Init /\ [][Next]_vars

\* main and the handlers of every server keep running: the Go scheduler starves
\* no goroutine, and sync.Mutex hands a free s.mu to one of those waiting for it.
\* Nothing makes a dial fail or a reply be lost.
FairSpec == /\ Spec
            /\ WF_vars(Drive)
            /\ \A s \in Server : WF_vars(Handle(s)) /\ WF_vars(ExecutionStep(s))

=============================================================================
