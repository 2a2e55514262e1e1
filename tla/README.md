# ShardVault: TLA+ specifications

ShardVault (`src/distributed-banking`, Go) is a sharded bank: clusters of servers
replicate a block of accounts each, agree on the transfers within a cluster with a
protocol modelled on PBFT, and are meant to run two-phase commit for transfers
between clusters. This directory holds TLA+ modules of it, the TLC instances that
check them and the TLAPS proofs about them.

File and line numbers below are those of `src/distributed-banking`; `README` is
`src/README.md`. At this commit `server/server.go` refers to functions that exist
nowhere (`send2PCCommit`, `RemoveFromWAL`, `GetWALDetails`, a method
`Database.AddToWAL`), as `README:696-698` half admits, so the models describe what the
source says and not a binary. The intra-shard code needs only `AddToWAL` of these, which
`database/util.go:141` defines as a function; the two-phase commit needs all of them, and
`CrossShard2PC` takes the others from their uses.

## 1. Inventory

| Component | State | Operations | Correct when |
|---|---|---|---|
| driver and client (`main.go:28-217`, `client/client.go`) | the CSV sets, one outstanding call, retry counter | send an intra-shard transfer, retry up to 3 times, give up; send a cross-shard transfer | every request is answered, a transfer counts once, the workload completes |
| PBFT in a cluster (`server.go:51-326`, `700-783`) | `Transactions`, `CommittedTransactions`, `MaxSequenceNumber`, `MaxExecutedSno`, `mu` | six message kinds, four sender goroutines | one order of transfers everywhere, a decision rests on a quorum, decided transfers are executed |
| tables of a server (`database/`) | `clients(balance, lock)`, `transactions`, `WAL` | balance and lock updates, inserts with primary keys | no overdraft, money moves with its record, locks cover what is pending |
| two-phase commit (`server.go:434-661`, `784-813`) | row locks, WAL, an answer channel with a 50 ms timer | coordinator handler, prepare, commit/abort | both clusters or neither apply the transfer |
| multi-destination transfers (`bonus/multidestination.go`) | row locks, balances | validate, lock all, commit and unlock | every transfer applies once, no lock is left behind, callers finish |
| SmallBank (`database/db_smallbank.go`, `bonus/smallbankbenchmark.go`) | savings and checking tables | six operations | no money appears or disappears |
| topology (`shared/*.go`, `main.go:28-64`, `219-276`) | maps of servers and ids to clusters | pure functions | the functions agree with each other; transfers go to servers with their rows |
| CSV parser and the loop of `main` | the set being parsed, the set being routed | parse a row, close a set, route a transfer | no transfer is lost or changes its set |
| queue, server status, printing, `GetBalance`, `CommittedTransactionsInDB` | – | unused, or read-only | – |

**How they interact.** `main` runs every server in one process. It takes the transfers
of the CSV file one by one and makes one RPC at a time to the contact server of the
source's cluster. The contact server numbers the transfer and starts a goroutine that
calls the active servers with `pre-prepare`. Backups answer with a `prepare` to the
cluster's leader (`GetClusterLeaderId`, not the contact server), which answers
the second and every later one with a `prepared` broadcast; backups `commit` to
the leader, which broadcasts `committed` on the second and every later one and executes. All
calls are blocking `net/rpc` calls in goroutines of their own, and every handler holds
the server's mutex `s.mu`.

A transfer between clusters goes to the source's contact server, which is the coordinator: it
locks the source, tells its cluster (which ignores the message), has a goroutine call
`Handle2PCPrepare` on each active server of the destination's cluster, waits for that goroutine or for
50 ms, decides, and answers the client. The leader among the called servers locks the
destination, numbers the transfer and starts its cluster's PBFT. The decision travels in a further goroutine,
to `Handle2PCCommit`. The bonus operations are functions on a database handle, written to be called by
handlers but called by none yet; they take no mutex.

**What is hard.** The broadcasts of different phases and transfers overtake each other;
each phase is repeated for every vote after the second; a callee that keeps its mutex
blocks the goroutine that calls it and all later servers of that broadcast; dials fail and
are not repeated; the driver retries a request that was accepted; handlers stop
while they hold `s.mu` in four different ways. Between clusters, a timer races the answers, a commit may
overtake the execution it commits, and a retry prepares the same transfer again. In the database code every
SQL statement can interleave with those of another caller, and fail alone. The full list, line by line, is under `hazards`
in `PROJECT.json`.

## 2. Plan

Done, in this order:

1. `PbftCluster`, `TransferLog` and their properties: one cluster, its driver, and what a cluster promises.
2. `PbftClusterProofs`: types, agreement, refinement, lock polling.
3. `CrossShard2PC`: driver, coordinator, participants and senders of transfers between clusters.
4. `MultiDest`, `SmallBank`: the database code that callers share without a mutex.
5. `Routing` and `RoutingProofs`: configuration, parser, and the choice of servers and protocol.
6. `PbftClusterMoneyProofs`, `PbftClusterQuorumProofs`: row locks, balances and quorums of a cluster.
7. `CrossShard2PCProofs`, `MultiDestProofs`, `SmallBankProofs`, and the rest of `RoutingProofs`: every invariant
   and action property of the runs is a theorem.

Left:

1. Two contact servers in one cluster, which `SingleContact` excludes today: with two counters
   `OrderAgreement` is not to be expected, so this takes a run with a property of its own.
2. The liveness properties, which stay with TLC.

## 3. Modules

| Module | Contents |
|---|---|
| `PbftCluster` | the cluster: state, one action per handler or way of leaving it, `Spec`, `FairSpec` |
| `TransferLog` | abstract specification: one log, each transfer accepted at most once, every server applies it in order, money and record in one step |
| `PbftClusterProperties` | invariants, action properties, liveness, the refinement mapping, the inductive invariants |
| `MCPbftCluster` | workloads for TLC |
| `PbftClusterProofs` | theorems: types, agreement, implementation of `TransferLog`, lock polling |
| `PbftClusterMoneyProofs`, `PbftClusterQuorumProofs` | theorems: locks and balances; prepares and commits |
| `CrossShard2PC` | two-phase commit between clusters: driver, coordinator, participants, sender goroutines, `Spec`, `FairSpec` |
| `CrossShard2PCProperties`, `MCCrossShard2PC`, `CrossShard2PCProofs` | its properties and invariants; two clusters of two servers and scripts for TLC; theorems |
| `MultiDest` | concurrent transfers with several destinations |
| `MultiDestProperties`, `MCMultiDest`, `MultiDestProofs` | its properties, workloads, theorems |
| `SmallBank` | concurrent SmallBank calls |
| `SmallBankProperties`, `MCSmallBank`, `SmallBankProofs` | its properties, workloads, theorems |
| `Routing` | start-up, `ParseCSV`, the loop of `main` over sets and transfers, the functions of `shared/` |
| `RoutingProperties`, `MCRouting`, `RoutingProofs` | its properties, configurations and files for TLC, theorems |
| `Lists`, `CollectionProofs` | the filter of a list; facts about finite sets, filters and sums that the proofs share |

The modules meet at three places. `Routing` says which servers and which protocol `main` chooses; the requests of
`PbftCluster` and `CrossShard2PC` are such choices. `CrossShard2PC` contains the execution of a
cluster's log as `Execute` and `ExecuteAgain`, and relies on `PbftCluster` implementing `TransferLog` for the order.
`PbftCluster` and `Routing` both contain `IsTransactionCrossShard`, as a constant there and as the code's
literals here.

### State of `PbftCluster`

| Variable | Code |
|---|---|
| `script`, `driver` | rest of the CSV transfers, and where `main` is: idle, in the first call, waiting for the retry timer, in a retry, spinning after `break` (`main.go:144`), exited (`main.go:150`); `retries` is `retryCount` |
| `calls` | goroutines of `PrePrepare`, `sendFromPrimaryWithThresholdKey` and `sendFromBackupsToPrimary`: the message and the servers still to be called, in list order |
| `mu` | `s.mu`: free, or what its holder does: `awaiting` row locks (`server.go:73-84`), `executing` the loop (`222-260`, `279-317`), `deadlocked` on itself (`227`, `284`), `leaked` by an error return (`69`, `233`, `238`) |
| `resume` | the goroutine whose call started the running execution loop, and which goes on when the loop ends |
| `assigned` | the requests a server has numbered; `MaxSequenceNumber` is its length |
| `prepares`, `commits` | the entries of `s.Transactions` that the quorum tests count. The other entries are read by nothing |
| `CommittedTransactions`, `count`, `MaxExecutedSno` | as in the code |
| `balance`, `lock`, `transactions`, `wal` | the SQLite tables of each server |

`serial` in a message tells apart the goroutines a server starts for one transfer and phase.
`valid` is whether the receivers' `verifyPublicKey` accepts the signature: single
signatures always verify; for a combined one it is any member of `CombineOutcomes`.

### Actions of `PbftCluster`

A handler runs under `s.mu` and touches other servers only through new goroutines, so it
is one step. It is cut only where the code can stop inside it: `AwaitLocks` /
`AcceptRequest` for the polling loops, and `Decide` / `Execute` / `ExecuteAgain` /
`SelfDeadlock` / `FinishLoop` for the execution loop, whose iterations are steps of their own (the
loop of the commit branch and that of the committed branch are the same text). An RPC to
a server whose `mu` is not free waits, so the sender's goroutine waits too.

| Action | Code |
|---|---|
| `Submit`, `RetryTimer` | `main.go:112-157` |
| `ClientDialFails` | `client.go:60-64` |
| `RefuseRequest` | `server.go:66-70`: the balance is too low; `s.mu` stays locked |
| `AwaitLocks` | `72-84`: a row is locked |
| `AcceptRequest` | `86-108`; the reply may be lost |
| `HandlePrePrepare`, `HandlePrepare`, `HandlePrepared`, `HandleCommit`, `HandleCommitted` | `109-131`, `132-165`, `166-187`, `188-219`, `267-278` |
| `SelfDeadlock` | `227`, `284` |
| `Execute` | `224-254` |
| `ExecuteAgain` | `232-238` for an id that is in the tables already; like `Execute` only with `Reentrant = TRUE` |
| `FinishLoop` | `257-266`, `314-320` |
| `CallFails` | `707-711` and its likes |

`Reentrant` chooses what a second `s.mu.Lock()` by the same goroutine does. `FALSE` is
Go's `sync.Mutex`. `TRUE` is what the loop is written for; without it nothing is ever
executed, and the rest of the protocol could not be examined. Every
theorem holds for both values. In the same way `CombineOutcomes = {TRUE}` is what the
protocol hopes of `shamir.Combine`; with the real libraries the combined bytes are no RSA
signature and only `FALSE` occurs.

### `CrossShard2PC`

| Variable | Code |
|---|---|
| `alive` | all servers are goroutines of one process, which a panic or a double unlock ends |
| `script`, `driver` | the cross-shard transfers left, and where `main.go:159-184` is with the first |
| `coord` | what the coordinator's handler waits for: a row lock (`server.go:459`), the answer or the timer (`496`), or the calls that announce its decision (`521`, `542`) |
| `senders` | the goroutines of `send2PCPrepare` and of the decision, with the servers still to be called; one of kind `2PCprepare` with none left offers its answer on `replyChan` |
| `mu`, `serving`, `left` | who holds a server's `s.mu`, for which caller, and which servers its `PrePrepare` has still to call |
| `assigned`, `executed` | the numbers of a cluster's leader, and `MaxExecutedSno` of each server |
| `balance`, `lock`, `transactions`, `wal`, `certified` | the tables; `certified` counts the rows that `Handle2PCCommit` inserts under ids of their own |
| `decided`, `refused` | history variables: decisions per transfer, and for each server the transfers whose abort found no WAL entry and was refused (`server.go:643-645`) |

| Action | Code |
|---|---|
| `Submit`, `RetryTimer`, `ClientDialFails` | `main.go:169-180`, `client.go:91-97` |
| `RejectSignature`, `RefuseTransfer`, `PollSource`, `StartPrepare` | `server.go:442-449`, `450-455`, `457-463`, `465-495` |
| `AnswerInTime`, `PrepareTimeout`, `Answer` | `496-521`, `498-500` with `527-542`, `522-550` |
| `CallNext`, `SkipNext` | `PrePrepare`, `700-728`, called with `s.mu` held |
| `PrepareWithoutKeys`, `ReplyAck`, `PollReceiver`, `AcceptPrepare`, `FinishPrepare` | `Handle2PCPrepare`, `551-615` |
| `Execute`, `ExecuteAgain` | `222-260` of the destination's cluster |
| `HandleCommit`, `HandleAbort` | `Handle2PCCommit`, `617-661` |
| `CallFails` | `791-795` |

Three facts of the code are constants, since with their real values little else could be seen. `KeyOutcomes`: `send2PCPrepare`
fills in `PublicKey` while `Handle2PCPrepare` reads `ClientPublicKey`, so the key is nil and checking
panics (`FALSE`); `TRUE` is the intended field. `AbortsSent`: nobody sends participants an abort
(`FALSE`), although `Handle2PCCommit` handles it. And the driver's call is taken to reach
`HandleClientCrossShardTransaction` with both active lists and a signature, where `client.go:113` names a method that does not exist.

### `MultiDest` and `SmallBank`

There is no server and no mutex: each caller is a sequence of SQL statements on a shared
handle, and one statement is one step. In `MultiDest`, `step` and `at` are where a caller is and which row its
loop is at; the callers do what the closing comment of the file asks (`multidestination.go:102-106`): `Validate` (`19-35`), `Check`
and `Set` for each row (`waitAndLock`, `93-100`), `Debit`, `Credit`, `Record`, `Unlock` (`59-90`). `LockFails`, `StatementFails`
and `UnlockFails` are the error paths. In `SmallBank` an operation is a sequence of statements (`Statements`),
with the helper that inserts a missing row in front where `db_smallbank.go` has it (`Request[o].inserts`), and
without in the version of `smallbankbenchmark.go`; `Found`, `NotFound`, `Insert`, `Update`,
`StatementFails` run them.

### `Routing`

`Configure` is `main.go:28-64`, `ParseRow`, `RefuseRow` and `FinishParsing` are `ParseCSV`, `RouteTransfer` is one iteration of `main.go:86-121`,
`NextSet` and `Finish` end the loops. Names such as `S7` and `C2` are their
numbers. The functions of `shared/` and of `main.go:219-276` are operators with the code's literals.

## 4. Runs

| Run | Configuration | Checks | Result |
|---|---|---|---|
| `healthy` | `FairSpec`, 4 servers, S4 mute for some transfers, two concurrent transfers or one with four honest servers, or two of which the first leaves S4 out, no faults, reentrant, deadlock checked | `ImplementsLog`, `WorkloadCompletes` | holds; 99,163 states |
| `faults` | 3 servers, 1 failed dial, 1 lost reply, refused signatures, reentrant | `TypeOK`, `OrderAgreement`, `DecisionAgreement`, `LocksCoverPending`, `ExecutedIsCommitted`, `NoOverdraft`, `AwaitingIsForever` | holds; 1,127,353 states |
| `as_built` | 4 servers, contact server is not the leader, 4 failed dials, not reentrant | `PrepareQuorum` | holds; 288,494 states |
| `stall` | 1 transfer, no faults, not reentrant, `FairSpec` | `DecidedIsExecuted` | violated |
| `lock_wait` | 2 transfers on the same accounts, no faults, reentrant, `FairSpec` | `RequestIsAnswered` | violated |
| `commit_votes` | 1 transfer, 4 honest servers, no faults, reentrant | `CommitQuorum` | violated |
| `cross_shard` | `FairSpec`, 2 clusters of 2, scripts of up to 2 transfers, 1 failed dial or lost reply, keys that arrive or not, aborts sent | `TypeOK`, `MoneyMatchesTables`, `OutcomesOnce`, `LocksExplained`, `CoordinatorAnswers` | holds; 861,388 states |
| `early_abort` | 1 transfer, no faults, keys arrive, aborts sent | `OutcomeUnlocks` | violated |
| `cross_atomic` | 1 transfer, no faults, keys arrive, no aborts sent | `BothOrNeither` | violated |
| `multi_dest` | `FairSpec`, workloads of 2 or 3 callers, 1 failed statement | `TypeOK`, `OutcomeIsExact`, `LoneSpenderIsSolvent`, `LocksHaveOwner`, `OrderedCallersFinish` | holds; 17,625 states |
| `small_bank` | any 2 of 16 calls, 3 of 7 of them, 1 failed statement | `TypeOK`, `TotalsAdd`, `FailuresCreateNoMoney`, `BalanceCountsOnce` | holds; 12,428 states |
| `routing` | 6 configurations, files of up to 3 rows | `TypeOK`, `ServersStoreTheRows`, `ClassificationsAgree`, `LeadersAreAtHome`, `EvenSplitServesAll`, `NothingLost` | holds; 8,664 states |

What the violated ones show:

- **stall** – the leader records its first decision and then waits for the mutex it
  holds (`server.go:227`). Nothing is ever executed. The comment at `server.go:221` promises
  execution in order.
- **lock_wait** – a second transfer on an account that is locked polls
  (`server.go:74`) with `s.mu` in hand. The handler that would release the row needs `s.mu`.
  `README:598` claims deadlock prevention.
- **commit_votes** – with three prepares the leader broadcasts `prepared` twice, and two
  commits of the same backup make a quorum (`server.go:199-205`). `README:592` speaks of a
  quorum of signatures.
- **cross_atomic** – the coordinator's cluster ignores the transfer it is told of with status `P`
  (`main.go:160`, `server.go:470`), so the source is never debited, while the destination's cluster executes
  the credit before any decision. `README:84` says that cross-shard transfers are atomic.
- **early_abort** – the timer fires while the prepare calls are under way, and the abort reaches the
  participant before it has executed the transfer, or even before it is asked to prepare. `Handle2PCCommit` finds no WAL entry and
  returns (`server.go:643-645`) before it unlocks (`655`): the row stays locked for a transfer that is
  over. `README:306` says that an abort undoes and unlocks. No execution is needed, so this does not depend on
  `stall`; it depends on aborts being sent and on the other readings of `CrossShard2PC` in section 3.

What the passing runs of the other modules show, and where their properties stop:

- **cross_shard** – with aborts that are delivered, a destination's balance always equals what the server's own tables say it
  received, in every order of prepare, execution, commit and abort. A transfer is
  decided one way and recorded once. `LocksExplained` names the causes of a locked row: its coordinator is at work; or a
  prepared transfer whose outcome the server has not heard, and that is still on its way unless a call failed or aborts
  are not sent; or an abort that was refused because it came before the execution, and then the row is locked for good,
  which is what `early_abort` shows. In the same way a credit executed after its abort is never taken back; `MoneyMatchesTables`
  counts it as received, as the tables do. All three are stated without lost replies: the retry after
  one prepares the transfer again, and the code then keeps none of them. `CoordinatorAnswers` holds with lost calls and late
  participants, but only from the prepare phase on; a coordinator that polls a
  row (the script `t1, t3`, back from the account just credited) waits for ever.
- **multi_dest** – relative updates keep balances exact even when check-then-set gives one row to two
  callers. Two callers that spend from one account can overdraw it (both validate first), and
  opposite lock orders, a row named twice or a row of another shard never finish, so the properties
  about solvency and completion say for which requests they hold.
- **small_bank** – `Risky` names the calls that lose or create money without any failure; for all others totals add
  up in every interleaving, and a failed statement can only destroy money, never create it. The comment
  `db_smallbank.go:80`, "If toUID has no row yet, insert one", describes a branch that is never taken, since an
  UPDATE that meets no row is no error; `Update` models this and `Risky` excludes it.
- **routing** – transfers reach servers that store their rows for any configuration. The two notions of
  cross-shard agree for three clusters only, the leaders fit up to three clusters of four only, and an uneven
  division leaves ids that nobody serves.

Deadlock is checked in `healthy`, where the end of the workload is the step `Done`. In the other
runs the cluster really may stop (a lost message, a kept mutex), so it is not.

**Bounds.** Three servers are the least with two backups, all of whose votes are needed; four
add a mute server, or a vote more than the quorum, which is what repeats a phase. Two
transfers are the least that can be reordered, contend for a row, or leave a gap in
the numbers. `MaxDrops` bounds failed dials (four let the driver reach its exit),
`MaxLostReplies` lost replies to the client. Amounts are chosen so that one transfer spends what another
brings, and one exceeds the balance of 10. Transfers of an account to itself stand for
transfers on other accounts, and are a corner case of the two balance updates. The workload
`t5, t6` is the change of active lists between the sets of `Lab4_Testset_1.csv`: S4 gets the decision with number 2,
lacks number 1 and executes nothing, so `WorkloadCompletes` speaks of the servers that keep up.

`cross_shard` has two clusters of a leader and a backup, the least in which a participant has somebody to announce to and somebody who only
acknowledges. Its scripts send two transfers to one row, one there and one back, one above the
balance, and an unsigned one. One fault suffices for each place where a call or the reply can
be lost; two would only combine them. `multi_dest` needs two callers for each conflict and a third to take a row that one of
them released too early; all ids, amounts and orders that its properties distinguish occur. `small_bank`
covers all pairs of calls, since a race takes two, and the triples of those that meet most. `routing` uses the ids at both borders of the blocks, contact lists that fit
and that do not, and configurations that divide 3000, do not, or make `main` panic (0 and 3001 clusters); its theorems cover
all others.

**Fairness** (`FairSpec`). Weak fairness of the driver and, for each server, of handling a
message and of a loop iteration: the Go scheduler starves no runnable goroutine and `sync.Mutex`
hands itself to a waiter. A dial that fails, a reply that is lost and a timer that
races are not fair. The menu after each set is taken to be answered with
"1 - Proceed to next set". In `CrossShard2PC` only `main`, the coordinator's handler with its timer, and the `PrePrepare` loops
are fair: `CoordinatorAnswers` must not depend on the participants. `MultiDest` is fair to every caller; weak fairness of a
caller at a locked row asks nothing of it while the row is locked. `SmallBank` and
`Routing` state safety only.

**Mutants.** For each property of a passing run the module holds a plausible mistake that
breaks it:

| Property | Mistake |
|---|---|
| `ImplementsLog` | both balances read before either is written (`TransferOfOldBalances`) |
| `WorkloadCompletes` | a broadcast stops after one call (`RestGivenUp`) |
| `TypeOK` | `MaxExecutedSno` written back one short (`FinishLoopBeforeLast`) |
| `OrderAgreement` | decisions executed as they arrive (`DueInAnyOrder`) |
| `DecisionAgreement` | numbers made from `MaxExecutedSno` (`NumberAfterExecuted`) |
| `LocksCoverPending` | the receiver's lock not looked at (`SenderLocked`) |
| `ExecutedIsCommitted`, `PrepareQuorum` | one vote too few (`HasQuorumButOne`) |
| `NoOverdraft` | the balance compared with zero (`NotOverdrawn`) |
| `AwaitingIsForever` | a handler that does not take `s.mu` (`ReceiveUnlocked`) |
| `CrossShard2PC`: `TypeOK` | the retry counter compared before it is counted (`OneRetryMore`) |
| `MoneyMatchesTables` | an abort that undoes without a WAL entry (`UndoAnyway`) |
| `OutcomesOnce` | the client learns of an abort and retries (`AbortIsFailure`) |
| `LocksExplained` | the abort path returns without unlocking (`SourceStaysLocked`) |
| `CoordinatorAnswers` | no timer beside the answer (`OnlyAnswered`) |
| `MultiDest`: `TypeOK`, `OutcomeIsExact` | a loop one row too long (`NextOfOneMore`), the first amount for all (`FirstAmount`) |
| `LoneSpenderIsSolvent` | each amount compared alone (`CoversLargest`) |
| `LocksHaveOwner`, `OrderedCallersFinish` | the source, or the last row, not unlocked (`DestinationsOnly`, `AllButLast`) |
| `SmallBank`: `TypeOK`, `TotalsAdd` | one statement too many (`ReturnsLate`), no row ensured (`DepositUnensured`) |
| `FailuresCreateNoMoney`, `BalanceCountsOnce` | credit first (`PaymentCreditFirst`), savings first (`BalanceSavingsFirst`) |
| `Routing`: `TypeOK`, `NothingLost` | a finished set stays open (`KeepOpen`), the last set forgotten (`WithoutLast`) |
| `ServersStoreTheRows`, `EvenSplitServesAll` | the active list not filtered (`AllActive`), ids counted from 0 (`ZeroBased`) |
| `ClassificationsAgree`, `LeadersAreAtHome` | blocks from 0 (`CrossZeroBased`), servers counted from 0 (`LeaderOfGroups`) |

## 5. Proofs

Every invariant and every action property that a passing run checks is a theorem, and so is the
implementation of `TransferLog`. The theorems hold for all values of the constants that satisfy the module's
assumption, so for any number of servers, accounts, transfers, callers and faults; where one needs more, the table
says so, and the hypothesis is part of the theorem, not of the module. Every inductive invariant below was checked with TLC on the instances above first.

### A cluster

Assumptions: `ClusterAssumption` (types of the constants, no server twice in an active list, no
transaction id twice in the input) and `SingleContact` (one contact server per cluster
throughout, as in both shipped CSV files). Both values of `Reentrant` are covered.

| Theorem | Statement | Argument |
|---|---|---|
| `TypeCorrect` | `Spec => []TypeOK` | inductive with `DriverOK`: the driver has a transaction in hand unless idle, and its retry counter has room |
| `OrderAgreementHolds` | `Spec => []OrderAgreement` | `LogInv` |
| `DecisionAgreementHolds` | `Spec => []DecisionAgreement` | `LogInv` |
| `ClusterImplementsLog` | `MaxLostReplies = 0` implies `Spec => ImplementsLog` | `LogInv` and `NumberedOnce` |
| `AwaitingNeverEnds` | `Spec => AwaitingIsForever` | `AwaitsHeldLocks` |
| `LocksCoverPendingHolds` | `Spec => []LocksCoverPending` | `LockInv` |
| `NoOverdraftHolds` | no negative amounts imply `Spec => []NoOverdraft` | `MoneyInv` |
| `ExecutedIsCommittedHolds` | `Spec => []ExecutedIsCommitted` | `CommitInv` |
| `PrepareQuorumHolds` | `Spec => []PrepareQuorum` | `PrepareInv` |

`OrderAgreement` is not inductive: it says nothing of the messages and decisions from which
later transfers come. `LogInv` adds that every message and every decision carries a number
that the primary's log gives to the same transfer, that position `k` of every
table holds the transfer with number `k`, and that a server's counter is the length of its table
– while it executes, and, in `MaxExecutedSno`, while its mutex is free. A handler that fails
in the loop breaks the second half of this, but keeps the mutex, so no later loop starts from the stale counter.

For the implementation of `TransferLog` the steps that need an argument are
`AcceptRequest` (the log takes a transfer once) and `ExecuteAgain` (excluded: it moves money without a
record). Both follow from `NumberedOnce`: a transfer that is numbered is not in the script
any more, or the driver spins. A lost reply breaks this: with `Reentrant = TRUE` the retry is numbered and executed again,
and both balances change before the primary key of `transactions` refuses the record (`server.go:419-430`). As Go builds `s.mu`
no transfer is executed a first time, and the retry polls the row locks.

The other invariants allow lost replies, so a transfer may have several numbers.

- `LocksCoverPending` needs that a second number is given only to a transfer that the contact server has
  executed (`RenumberedIsExecuted`): until then its own locks keep the retry waiting. Otherwise the execution under the
  first number would release the locks of the second.
- `NoOverdraft` relates one check of one balance, at the contact server, to executions that other servers do at any
  time later. `MoneyInv` says there is a ledger: the balances after each entry of the
  primary's log. Every server's balances are the ledger's at the length of its own table, or one entry further after the failed second
  execution of a retry; no entry behind a pending one touches its accounts, nor an unlocked one; and the ledger is never negative. The balance that the
  contact server compares with is then the ledger's last. The
  hypothesis is needed: nothing in the code refuses a negative amount, it passes the comparison with the balance, and
  it takes money from the receiver, whose balance nobody compares.
- `CommitInv` and `PrepareInv` follow a vote from the message to the leader's entries and on to every broadcast,
  decision and execution that rests on it. `HasQuorum` counts entries and `IsPrepared` counts their senders: with one
  number per transfer the two agree, and a transfer with a second number was executed, hence prepared, before it got it.

### Routing

`RoutingAssumption`: configurations and files are of the right types.

| Theorem | Statement | Argument |
|---|---|---|
| `RoutingTypeCorrect` | `Spec => []TypeOK` | inductive |
| `ServersStoreTheRowsHolds` | `Spec => []ServersStoreTheRows` | `RoutedInv`, and `KeepElements` for the filtered list |
| `ClassificationsAgreeHolds` | `Spec => []ClassificationsAgree` | `RoutedInv`; with 3 clusters the literals are the thirds (`ThirdsAreBlocks`) |
| `LeadersAreAtHomeHolds` | `Spec => []LeadersAreAtHome` | `RoutedInv`; the leader's literal is in the contact server's group of four |
| `EvenSplitServesAllHolds` | `Spec => []EvenSplitServesAll` | `RoutedInv`; if the clusters divide 3000, every quotient names a cluster (`EvenSplit`) |
| `NothingLostHolds` | `Spec => NothingLost` | `ParseKeeps`, `RouteKeeps` |

`RoutedInv` is inductive: it says that every entry of `routed` is the choice that `Decision` makes from the
configuration (`Chosen`), and that `main` routes only with at least one cluster and at most 3000. What is
left is arithmetic of `\div`, which `QuotientBound` does in steps of one product each.

`NothingLost` compares lists before and after a step: the transfers handled, those of the sets, those of the open set, those of
the rows to come. A step moves the border between two neighbours only. `FlattenFirst` and `FlattenLast`
take a set off either end of the list of sets, `ToParseTail` takes a row off the file, where the lists of
the rows behind it (`ListsOfTail`) must not change.

### Two-phase commit

`CrossShardAssumption` includes that no active list names a server twice and no script an id twice. Amounts may be
negative.

| Theorem | Statement | Argument |
|---|---|---|
| `CrossShardTypeCorrect` | `Spec => []TypeOK` | `BaseInv`: types with `ControlInv`, `ServingInv`, `TablesInv` |
| `OutcomesOnceHolds` | `Spec => []OutcomesOnce` | `OnceInv` |
| `LocksExplainedHolds` | `Spec => []LocksExplained` | `BaseInv`, `OnceInv`, `LocksHaveCause`, `DeliveryInv` |
| `MoneyMatchesTablesHolds` | `Spec => []MoneyMatchesTables` | `BaseInv`, `OnceInv` and sums over the tables |

`LocksHaveCause` gives every locked row to its coordinator or to a transfer prepared there whose outcome the server has not heard or
has refused. That such an outcome still comes is `DeliveryInv`: every participant of a decided transfer has heard the decision, or
is still to be called with it, or a call failed, or it is an abort and aborts are not sent.
The last three theorems say "without lost replies", and so does `OnceInv`. Its core is `OneCoordinator`: a transfer that
waits in the script has left no trace anywhere, and while its coordinator works its prepare phase is all there is.
From this follow one goroutine per transfer and phase (`OneSender`), which visits each
server once (`CallsAreNew`), one certificate for each commit (`CertifiedOnce`), and that no server executes an id again, so
`ExecuteAgain` is excluded. For the money every transfer in a server's table is a term of a sum, which `Execute` adds and
`HandleAbort` takes out together with the amount.

### Multi-destination transfers and SmallBank

| Theorem | Statement | Argument |
|---|---|---|
| `MultiDestTypeCorrect` | `Spec => []TypeOK` | `TypeInv`: types with `StepInv` |
| `LocksHaveOwnerHolds` | `Spec => []LocksHaveOwner` | `TypeInv` |
| `LoneSpenderIsSolventHolds` | no negative amounts imply `Spec => []LoneSpenderIsSolvent` | `SpenderInv` |
| `OutcomeIsExactHolds` | `Spec => []OutcomeIsExact` | `BalanceInv` |
| `SmallBankTypeCorrect` | `Spec => []TypeOK` | `RowsInv` |
| `TotalsAddHolds` | `Spec => []TotalsAdd` | `LedgerInv`, `SeenInv`, `FailedInv` |
| `FailuresCreateNoMoneyHolds` | no negative savings at the start and no negative payments imply `Spec => []FailuresCreateNoMoney` | `LedgerInv`, `SavingsInv` |
| `BalanceCountsOnceHolds` | no negative savings at the start imply `Spec => []BalanceCountsOnce` | `HoldingsInv` |

In `MultiDest` the validation and the debit are steps apart. `SpenderInv` says that what a lone spender has
validated still holds when it debits, since all others only credit its account. `BalanceInv` gives every balance
in the middle of all loops: the initial one, and for each caller that has debited, its debits and the credits up to the row it is at.
`OutcomeIsExact` is that sum once nobody is between debit and record.

In `SmallBank`, `LedgerInv` does the same for the total of both tables: `Brings` is what a call has brought into the bank when it is
at its i-th statement, less than it will have brought in the end between the two updates of a payment or an Amalgamate. What keeps an
Amalgamate from clearing more or less than it has seen is `SeenInv`, and `Risky` is the condition under which it holds. `RowsInv` says that an UPDATE
meets its row: it was there, or the call has inserted it. The hypotheses are needed: with a negative payment the update that comes first gives money, and
a failure after it creates some; so does the clearing of negative savings.

### Induction

The induction theorems of the library take a predicate as a parameter, which the provers cannot instantiate.
`CollectionProofs` derives a first-order form from well-foundedness: a set of finite sets that is not empty has a minimal member
(`SmallestSet`), a set of natural numbers a least one (`LeastNumber`). The recursive functions
in `Keep`, in `Flatten` and in the folds behind `SumFunction` are then shown to exist (`FilterExists`, `FlatExists`, `SumExists`), and their
properties by taking the least counterexample. For sums this gives that the order does not matter (`AnyOrder`) and
what changing, adding and removing one term does (`SumChanges`, `SumWith`, `SumWithout`), on which all the money proofs rest.

Only model-checked: the liveness properties `WorkloadCompletes`, `CoordinatorAnswers` and `OrderedCallersFinish`, which need fairness and so
are out of the prover's reach, and the five runs that show a violation.

## 6. Not modelled

- `CalculateNewShards`, `GetQuorumSize`, `ClearTransactions`, `GetTransaction`, `DeleteFromWAL`, the transaction queue
  and the server status: called by nothing.
- `GetBalance`, `CommittedTransactionsInDB` and the printing choices of the menu: they change no state.
- A method that does not exist: as the driver stands, a cross-shard transfer fails three times and changes nothing.
  `CrossShard2PC` models the handlers behind it.
- The PBFT of a cluster inside `CrossShard2PC`: its order is what `PbftCluster` implements, and whether an entry is executed is
  left open. The intra-shard transfers of the same cluster are left out there: they would compete for the same row locks.
- Errors of SQLite in the handlers, other than the primary keys and rows that are missing; in `MultiDest` and `SmallBank` every statement may fail.
- Restart of a server: `InitDatabase` deletes the database file and nothing is recovered, so a restart is `Init`.
- `RejectSignature` ends the process at once. In the code the deferred `Unlock` (`443`) follows the one at `447`, and a goroutine
  that takes the mutex in between survives and loses it instead.
- Signatures that do not verify for any other reason than the combination or an unsigned request.
- A Byzantine server that lies: "Byzantine" in the code is a list in the request, and the listed servers are mute.
- Timing: the retry timer may fire at any time after a failure, the 50 ms timer at any time in the prepare phase. The 5 ms
  sleep of the coordinator changes nothing, since its cluster does nothing meanwhile.
- Splitting a CSV row into its fields; a file that cannot be read and a row with too few fields end the program before it does anything.
