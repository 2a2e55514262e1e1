--------------------------- MODULE CrossShard2PC ---------------------------
(***************************************************************************)
(* Transfers between two clusters of ShardVault: the retry loop of main.go *)
(* for them, the coordinator (HandleClientCrossShardTransaction), the      *)
(* participants (Handle2PCPrepare, Handle2PCCommit) and the goroutines     *)
(* that call them.                                                         *)
(*                                                                         *)
(* Inside a cluster this module relies on what PbftCluster implements: the *)
(* leader's numbers are a log, and a server that is in the active list may *)
(* execute the log in order, or stop at some entry for ever (as with       *)
(* Reentrant = TRUE there; as Go builds s.mu nothing is executed at all).  *)
(* The statements of one execution are those of HandleTransaction.         *)
(*                                                                         *)
(* Every handler keeps s.mu until it returns.  It is cut into steps where  *)
(* it waits: for a row lock, for the answer of the prepare phase or its    *)
(* timer, and for each server that PrePrepare calls.                       *)
(*                                                                         *)
(* A definition marked "mutant" is a plausible mistake in the definition   *)
(* that follows it.  No specification uses it.                             *)
(***************************************************************************)
EXTENDS Integers, Sequences, FiniteSets, Lists

CONSTANTS
    Server,           \* the servers of all clusters
    LeaderOf,         \* GetClusterLeaderId of each server
    Account,          \* client ids
    Home,             \* the leader of the cluster that stores each account
    Tx,               \* transaction ids
    Request,          \* what each transfer asks, and the lists of its CSV set
    Scripts,          \* the sequences of cross-shard transfers in the CSV file
    InitialBalance,   \* 10 in InitDatabase
    KeyOutcomes,      \* do the keys that Handle2PCPrepare checks with arrive?
    AbortsSent,       \* does anybody send participants the abort?
    MaxFaults         \* bound on failed dials and lost replies together

ASSUME CrossShardAssumption ==
    /\ LeaderOf \in [Server -> Server]
    /\ \A s \in Server : LeaderOf[LeaderOf[s]] = LeaderOf[s]
    /\ Home \in [Account -> {LeaderOf[s] : s \in Server}]
    /\ Request \in [Tx -> [source : Account, destination : Account, amount : Int,
                           contact : Server, signed : BOOLEAN,
                           sourceActive : Seq(Server), destinationActive : Seq(Server)]]
    /\ \A t \in Tx : Home[Request[t].source] # Home[Request[t].destination]
    /\ \A t \in Tx : \A i, j \in DOMAIN Request[t].destinationActive :
          Request[t].destinationActive[i] = Request[t].destinationActive[j] => i = j
    /\ Scripts \subseteq Seq(Tx)
    /\ \A q \in Scripts : \A i, j \in DOMAIN q : q[i] = q[j] => i = j
    /\ InitialBalance \in Nat
    /\ KeyOutcomes \in SUBSET BOOLEAN
    /\ AbortsSent \in BOOLEAN
    /\ MaxFaults \in Nat

VARIABLES
    alive,            \* FALSE once a handler has panicked: all servers are one process
    script, driver,   \* transfers to do, and where main is with the first of them
    drops, lostReplies,
    coord,            \* the coordinator's handler: what it waits for
    senders,          \* goroutines of send2PCPrepare and of the decision
    mu,               \* s.mu: free, or what its holder is doing
    serving,          \* the sender goroutine whose call the participant s handles
    left,             \* the servers that the PrePrepare running at s has still to call
    assigned,         \* the requests numbered by a cluster's leader
    executed,         \* MaxExecutedSno
    balance, lock, transactions, wal,  \* the SQLite tables of each server
    certified,        \* rows with status C, under ids of their own, per transfer
    decided,          \* history: the decisions of a transfer's coordinators
    refused           \* history: the transfers whose abort a server could not undo

client  == <<script, driver, lostReplies>>
process == <<alive, drops>>
handler == <<mu, serving, left>>
cluster == <<assigned, executed, refused>>
db      == <<balance, lock, transactions, wal, certified>>
vars    == <<client, process, coord, senders, handler, cluster, db, decided>>

MaxRetries == 3

Current        == Head(script)
Contact        == Request[Current].contact
Source(t)      == Request[t].source
Destination(t) == Request[t].destination
Amount(t)      == Request[t].amount
Leader(s)      == LeaderOf[s] = s
LogOf(s)       == assigned[LeaderOf[s]]
Stores(s, a)   == Home[a] = LeaderOf[s]

Others(list, s) == Keep(list, Server \ {s})

\* A goroutine that calls the servers of `to` one after another. stale says
\* whether the coordinator's list of committed transactions, which travels in
\* the request, has any entry.
Sender(kind, t, attempt, stale, to) ==
    [kind |-> kind, tx |-> t, attempt |-> attempt, stale |-> stale, to |-> to]

SenderType == [kind : {"2PCprepare", "2PCcommit", "2PCabort"}, tx : Tx,
               attempt : 0..(MaxRetries - 1), stale : BOOLEAN, to : Seq(Server)]

\* What is left of the goroutine when a call has returned: send2PCPrepare offers
\* its answer on the channel afterwards, the others end.
Advance(p) ==
    IF p.kind # "2PCprepare" /\ Len(p.to) = 1 THEN {} ELSE {[p EXCEPT !.to = Tail(@)]}

Returned(p) == (senders \ {p}) \cup Advance(p)

-----------------------------------------------------------------------------
Init ==
    /\ alive = TRUE
    /\ script \in Scripts
    /\ driver = [phase |-> "idle", retries |-> 0]
    /\ drops = 0
    /\ lostReplies = 0
    /\ coord = "none"
    /\ senders = {}
    /\ mu = [s \in Server |-> "free"]
    /\ serving = [s \in Server |-> {}]
    /\ left = [s \in Server |-> <<>>]
    /\ assigned = [s \in Server |-> <<>>]
    /\ executed = [s \in Server |-> 0]
    /\ balance = [s \in Server |-> [a \in {b \in Account : Stores(s, b)} |-> InitialBalance]]
    /\ lock = [s \in Server |-> {}]
    /\ transactions = [s \in Server |-> {}]
    /\ wal = [s \in Server |-> {}]
    /\ certified = [s \in Server |-> [t \in Tx |-> 0]]
    /\ decided = [t \in Tx |-> {}]
    /\ refused = [s \in Server |-> {}]

-----------------------------------------------------------------------------
(* The driver: main calls the contact server of the source's cluster, one  *)
(* transfer at a time.                                                     *)

Calling == alive /\ driver.phase = "calling" /\ coord = "none"

OneRetryMore(n) == n <= MaxRetries          \* mutant: compared before it is counted

\* After the third failure main gives the transfer up and goes on.
RetriesLeft(n) == n < MaxRetries

NextTransfer ==
    /\ driver' = [phase |-> "idle", retries |-> 0]
    /\ script' = Tail(script)

Succeeds == NextTransfer

Fails ==
    LET n == driver.retries + 1 IN
    IF RetriesLeft(n)
    THEN driver' = [phase |-> "waiting", retries |-> n] /\ UNCHANGED script
    ELSE NextTransfer

Submit ==
    /\ alive
    /\ driver.phase = "idle" /\ script # <<>>
    /\ driver' = [driver EXCEPT !.phase = "calling"]
    /\ UNCHANGED <<script, lostReplies, process, coord, senders, handler, cluster, db,
                   decided>>

RetryTimer ==
    /\ alive
    /\ driver.phase = "waiting"
    /\ driver' = [driver EXCEPT !.phase = "calling"]
    /\ UNCHANGED <<script, lostReplies, process, coord, senders, handler, cluster, db,
                   decided>>

ClientDialFails ==
    /\ Calling
    /\ drops + lostReplies < MaxFaults
    /\ drops' = drops + 1
    /\ Fails
    /\ UNCHANGED <<lostReplies, alive, coord, senders, handler, cluster, db, decided>>

-----------------------------------------------------------------------------
(* The coordinator.                                                        *)

\* A bad signature: the handler unlocks s.mu, then its deferred Unlock does so
\* again, which the Go runtime answers by ending the process (unless another handler
\* takes s.mu between the two and loses it, a race that is left out).
RejectSignature ==
    /\ Calling
    /\ mu[Contact] = "free"
    /\ ~Request[Current].signed
    /\ alive' = FALSE
    /\ UNCHANGED <<client, drops, coord, senders, handler, cluster, db, decided>>

RefuseTransfer ==
    /\ Calling
    /\ mu[Contact] = "free"
    /\ Request[Current].signed
    /\ balance[Contact][Source(Current)] < Amount(Current)
    /\ Fails
    /\ UNCHANGED <<lostReplies, process, coord, senders, handler, cluster, db, decided>>

CanStart ==
    /\ Calling
    /\ mu[Contact] = "free"
    /\ Request[Current].signed
    /\ balance[Contact][Source(Current)] >= Amount(Current)

PollSource ==
    /\ CanStart
    /\ Source(Current) \in lock[Contact]
    /\ coord' = "polling"
    /\ mu' = [mu EXCEPT ![Contact] = "polling"]
    /\ UNCHANGED <<client, process, senders, serving, left, cluster, db, decided>>

\* The source is locked and send2PCPrepare started with the transactions table of
\* this moment. PrePrepare(tx), five milliseconds earlier, changes nothing anywhere:
\* the backups know no status "P".
StartPrepare ==
    /\ CanStart
    /\ Source(Current) \notin lock[Contact]
    /\ lock' = [lock EXCEPT ![Contact] = @ \cup {Source(Current)}]
    /\ senders' = senders \cup
          {Sender("2PCprepare", Current, driver.retries,
                  transactions[Contact] # {} \/ \E t \in Tx : certified[Contact][t] > 0,
                  Others(Request[Current].destinationActive, Contact))}
    /\ coord' = "preparing"
    /\ mu' = [mu EXCEPT ![Contact] = "coordinating"]
    /\ UNCHANGED <<client, process, serving, left, cluster, balance, transactions, wal,
                   certified, decided>>

Answers == {p \in senders : /\ p.kind = "2PCprepare" /\ p.to = <<>>
                            /\ p.tx = Current /\ p.attempt = driver.retries}

\* The decision, and the calls of PrePrepare(request.Transaction) that announce it
\* to the coordinator's own cluster. The source is unlocked and locked again in
\* between, under s.mu.
Decide(decision) ==
    /\ coord' = decision
    /\ decided' = [decided EXCEPT ![Current] = @ \cup {decision}]
    /\ left' = [left EXCEPT ![Contact] = Others(Request[Current].sourceActive, Contact)]
    /\ UNCHANGED <<client, process, mu, serving, cluster, db>>

AnswerInTime ==
    /\ alive
    /\ coord = "preparing"
    /\ \E p \in Answers : senders' = senders \ {p}
    /\ Decide("2PCcommit")

OnlyAnswered ==                 \* mutant: a select without the timer's case
    /\ alive
    /\ coord = "preparing"
    /\ Answers # {}
    /\ UNCHANGED senders
    /\ Decide("2PCabort")

\* The 50 ms timer. The goroutine that prepares goes on; nobody receives its answer.
PrepareTimeout ==
    /\ alive
    /\ coord = "preparing"
    /\ UNCHANGED senders
    /\ Decide("2PCabort")

AbortIsFailure(decision) == decision = "2PCcommit"   \* mutant: the client sees an abort

\* The reply is "success" after an abort as well.
ReportsSuccess(decision) == TRUE

SourceStaysLocked(decision) ==                       \* mutant: an early return
    IF decision = "2PCabort" THEN {} ELSE {Source(Current)}

\* The rows the coordinator unlocks before it returns.
Unlocked(decision) == {Source(Current)}

DecisionSender(decision) ==
    LET to == Others(Request[Current].destinationActive, Contact)
    IN  IF to = <<>> \/ (decision = "2PCabort" /\ ~AbortsSent) THEN {}
        ELSE {Sender(decision, Current, driver.retries, FALSE, to)}

\* The end of the handler; its reply may be lost.
Answer ==
    /\ alive
    /\ coord \in {"2PCcommit", "2PCabort"}
    /\ left[Contact] = <<>>
    /\ lock' = [lock EXCEPT ![Contact] = @ \ Unlocked(coord)]
    /\ senders' = senders \cup DecisionSender(coord)
    /\ mu' = [mu EXCEPT ![Contact] = "free"]
    /\ coord' = "none"
    /\ \/ /\ IF ReportsSuccess(coord) THEN Succeeds ELSE Fails
          /\ UNCHANGED lostReplies
       \/ /\ drops + lostReplies < MaxFaults
          /\ lostReplies' = lostReplies + 1
          /\ Fails
    /\ UNCHANGED <<process, serving, left, cluster, balance, transactions, wal, certified,
                   decided>>

-----------------------------------------------------------------------------
(* PrePrepare, called by the coordinator and by a participant's leader     *)
(* while they keep s.mu.                                                   *)

CallsLeft(s) == alive /\ left[s] # <<>>

\* The callee takes its s.mu. What it then does is part of its cluster's protocol.
CallNext(s) ==
    /\ CallsLeft(s)
    /\ mu[Head(left[s])] = "free"
    /\ left' = [left EXCEPT ![s] = Tail(@)]
    /\ UNCHANGED <<client, process, coord, senders, mu, serving, cluster, db, decided>>

SkipNext(s) ==
    /\ CallsLeft(s)
    /\ drops + lostReplies < MaxFaults
    /\ drops' = drops + 1
    /\ left' = [left EXCEPT ![s] = Tail(@)]
    /\ UNCHANGED <<client, alive, coord, senders, mu, serving, cluster, db, decided>>

-----------------------------------------------------------------------------
(* Handle2PCPrepare.                                                       *)

Callee(p) == Head(p.to)

\* The call of p gets its callee's s.mu.
Receives(p, kind) ==
    /\ alive
    /\ p.kind = kind
    /\ p.to # <<>>
    /\ mu[Callee(p)] = "free"

CallFails(p) ==
    /\ alive
    /\ p.to # <<>>
    /\ p \notin serving[Callee(p)]
    /\ drops + lostReplies < MaxFaults
    /\ drops' = drops + 1
    /\ senders' = Returned(p)
    /\ UNCHANGED <<client, alive, coord, handler, cluster, db, decided>>

\* send2PCPrepare fills in PublicKey, Handle2PCPrepare reads ClientPublicKey: the
\* key is nil and checking a signature with it panics.
PrepareWithoutKeys(p) ==
    /\ Receives(p, "2PCprepare")
    /\ FALSE \in KeyOutcomes
    /\ alive' = FALSE
    /\ UNCHANGED <<client, drops, coord, senders, handler, cluster, db, decided>>

\* A vote for abort, because rows of the transactions table carry no signature, or
\* the acknowledgement of a server that is not the leader. The caller reads neither.
ReplyAck(p) ==
    /\ Receives(p, "2PCprepare")
    /\ TRUE \in KeyOutcomes
    /\ p.stale \/ ~Leader(Callee(p))
    /\ senders' = Returned(p)
    /\ UNCHANGED <<client, process, coord, handler, cluster, db, decided>>

CanPrepare(p) ==
    /\ Receives(p, "2PCprepare")
    /\ TRUE \in KeyOutcomes
    /\ ~p.stale /\ Leader(Callee(p))

PollReceiver(p) ==
    LET s == Callee(p) IN
    /\ CanPrepare(p)
    /\ Destination(p.tx) \in lock[s]
    /\ mu' = [mu EXCEPT ![s] = "polling"]
    /\ serving' = [serving EXCEPT ![s] = {p}]
    /\ UNCHANGED <<client, process, coord, senders, left, cluster, db, decided>>

AcceptPrepare(p) ==
    LET s == Callee(p) IN
    /\ CanPrepare(p)
    /\ Destination(p.tx) \notin lock[s]
    /\ lock' = [lock EXCEPT ![s] = @ \cup {Destination(p.tx)}]
    /\ assigned' = [assigned EXCEPT ![s] = Append(@, p.tx)]
    /\ mu' = [mu EXCEPT ![s] = "participating"]
    /\ serving' = [serving EXCEPT ![s] = {p}]
    /\ left' = [left EXCEPT ![s] = Others(Request[p.tx].destinationActive, s)]
    /\ UNCHANGED <<client, process, coord, senders, executed, refused, balance,
                   transactions, wal, certified, decided>>

FinishPrepare(s) ==
    /\ alive
    /\ mu[s] = "participating"
    /\ left[s] = <<>>
    /\ \E p \in serving[s] : senders' = Returned(p)
    /\ mu' = [mu EXCEPT ![s] = "free"]
    /\ serving' = [serving EXCEPT ![s] = {}]
    /\ UNCHANGED <<client, process, coord, left, cluster, db, decided>>

-----------------------------------------------------------------------------
(* The cluster of the destination executes what its leader has numbered.   *)

\* The next entry of the cluster's log is announced, and s was told of it.
Executable(s, t) ==
    /\ alive
    /\ mu[s] = "free" /\ mu[LeaderOf[s]] # "participating"
    /\ executed[s] < Len(LogOf(s))
    /\ t = LogOf(s)[executed[s] + 1]
    /\ \E i \in DOMAIN Request[t].destinationActive : Request[t].destinationActive[i] = s

\* AddToWAL, the two balance updates, of which that of the source meets no row here,
\* and AddTransaction. The destination stays locked.
Execute(s, t) ==
    /\ Executable(s, t)
    /\ t \notin wal[s] \cup transactions[s]
    /\ wal' = [wal EXCEPT ![s] = @ \cup {t}]
    /\ balance' = [balance EXCEPT ![s][Destination(t)] = @ + Amount(t)]
    /\ transactions' = [transactions EXCEPT ![s] = @ \cup {t}]
    /\ executed' = [executed EXCEPT ![s] = @ + 1]
    /\ UNCHANGED <<client, process, coord, senders, handler, assigned, refused, lock,
                   certified, decided>>

\* A transfer that was prepared twice: the primary key of WAL refuses it, or after
\* its commit, when the balance is changed already, that of transactions. The error
\* return keeps s.mu.
ExecuteAgain(s, t) ==
    /\ Executable(s, t)
    /\ t \in wal[s] \cup transactions[s]
    /\ IF t \in wal[s] THEN UNCHANGED <<wal, balance>>
       ELSE /\ wal' = [wal EXCEPT ![s] = @ \cup {t}]
            /\ balance' = [balance EXCEPT ![s][Destination(t)] = @ + Amount(t)]
    /\ mu' = [mu EXCEPT ![s] = "leaked"]
    /\ UNCHANGED <<client, process, coord, senders, serving, left, cluster, lock,
                   transactions, certified, decided>>

-----------------------------------------------------------------------------
(* Handle2PCCommit.                                                        *)

HandleCommit(p) ==
    LET s == Callee(p) IN
    /\ Receives(p, "2PCcommit")
    /\ wal' = [wal EXCEPT ![s] = @ \ {p.tx}]
    /\ certified' = [certified EXCEPT ![s][p.tx] = @ + 1]
    /\ lock' = [lock EXCEPT ![s] = @ \ {Destination(p.tx)}]
    /\ senders' = Returned(p)
    /\ UNCHANGED <<client, process, coord, handler, cluster, balance, transactions, decided>>

UndoAnyway(s, t) == TRUE                \* mutant: the error of GetWALDetails is dropped

\* GetWALDetails finds the transfer.
CanUndo(s, t) == t \in wal[s]

\* Without a WAL entry the handler returns before it unlocks the destination: an abort
\* that comes before the execution leaves the row locked.
HandleAbort(p) ==
    LET s == Callee(p) IN
    /\ Receives(p, "2PCabort")
    /\ IF CanUndo(s, p.tx)
       THEN /\ wal' = [wal EXCEPT ![s] = @ \ {p.tx}]
            /\ balance' = [balance EXCEPT ![s][Destination(p.tx)] = @ - Amount(p.tx)]
            /\ lock' = [lock EXCEPT ![s] = @ \ {Destination(p.tx)}]
            /\ UNCHANGED refused
       ELSE /\ refused' = [refused EXCEPT ![s] = @ \cup {p.tx}]
            /\ UNCHANGED <<wal, balance, lock>>
    /\ senders' = Returned(p)
    /\ UNCHANGED <<client, process, coord, handler, assigned, executed, transactions,
                   certified, decided>>

-----------------------------------------------------------------------------
Drive == Submit \/ RetryTimer

Coordinate == \/ RejectSignature \/ RefuseTransfer \/ PollSource \/ StartPrepare
              \/ AnswerInTime \/ PrepareTimeout \/ Answer

Participate(p) == \/ PrepareWithoutKeys(p) \/ ReplyAck(p) \/ PollReceiver(p)
                  \/ AcceptPrepare(p) \/ HandleCommit(p) \/ HandleAbort(p)

Next == \/ Drive
        \/ Coordinate
        \/ \E p \in senders : Participate(p)
        \/ \E s \in Server : CallNext(s)
        \/ \E s \in Server : FinishPrepare(s)
        \/ \E s \in Server, t \in Tx : Execute(s, t)
        \/ \E s \in Server, t \in Tx : ExecuteAgain(s, t)
        \/ ClientDialFails
        \/ \E s \in Server : SkipNext(s)
        \/ \E p \in senders : CallFails(p)

Spec == Init /\ [][Next]_vars

\* main, the coordinator's handler with its timer, and the PrePrepare loops keep
\* running. Nothing is assumed of the cluster's protocol or of the participants.
FairSpec == /\ Spec
            /\ WF_vars(Drive)
            /\ WF_vars(Coordinate)
            /\ \A s \in Server : WF_vars(CallNext(s)) /\ WF_vars(FinishPrepare(s))

=============================================================================
