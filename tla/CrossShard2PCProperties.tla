---------------------- MODULE CrossShard2PCProperties ----------------------
(***************************************************************************)
(* What two-phase commit keeps, and what the documents promise of it and   *)
(* the code does not keep (BothOrNeither).                                 *)
(***************************************************************************)
EXTENDS CrossShard2PC, Functions

\* Every variable keeps its type; in particular the driver stops counting retries
\* at two, and only transfers that were asked for are numbered, recorded or logged.
TypeOK ==
    /\ alive \in BOOLEAN
    /\ script \in Seq(Tx)
    /\ driver \in [phase : {"idle", "calling", "waiting"}, retries : 0..(MaxRetries - 1)]
    /\ drops \in Nat /\ lostReplies \in Nat /\ drops + lostReplies <= MaxFaults
    /\ coord \in {"none", "polling", "preparing", "2PCcommit", "2PCabort"}
    /\ senders \subseteq SenderType
    /\ mu \in [Server -> {"free", "polling", "coordinating", "participating", "leaked"}]
    /\ serving \in [Server -> SUBSET SenderType]
    /\ left \in [Server -> Seq(Server)]
    /\ assigned \in [Server -> Seq(Tx)]
    /\ executed \in [Server -> Nat]
    /\ DOMAIN balance = Server
    /\ \A s \in Server : balance[s] \in [{a \in Account : Stores(s, a)} -> Int]
    /\ lock \in [Server -> SUBSET Account]
    /\ transactions \in [Server -> SUBSET Tx]
    /\ wal \in [Server -> SUBSET Tx]
    /\ certified \in [Server -> [Tx -> Nat]]
    /\ decided \in [Tx -> SUBSET {"2PCcommit", "2PCabort"}]
    /\ refused \in [Server -> SUBSET Tx]

\* s executed t and an abort undid it.
Undone(s, t) == t \in transactions[s] \ wal[s] /\ certified[s][t] = 0

Received(s, a) ==
    SumFunctionOnSet([t \in Tx |-> Amount(t)],
                     {t \in transactions[s] : Destination(t) = a /\ ~Undone(s, t)})

\* Without lost replies, every balance is the initial one and what the transfers in
\* the server's own tables bring: an abort that finds the transfer in the WAL takes
\* back exactly what was credited, one that comes before the execution takes back
\* nothing (the later credit then counts as received), and a commit that overtakes
\* the execution (Handle2PCCommit against HandleTransaction) costs nothing.
MoneyMatchesTables ==
    lostReplies = 0 =>
        \A s \in Server : \A a \in DOMAIN balance[s] :
            balance[s][a] = InitialBalance + Received(s, a)

\* Without lost replies a transfer is decided one way only, whatever calls are lost
\* and whatever the timer does, and no server records it twice or after an abort,
\* although Handle2PCCommit inserts a row under a new id each time.
OutcomesOnce ==
    lostReplies = 0 =>
        \A t \in Tx :
            /\ Cardinality(decided[t]) <= 1
            /\ \A s \in Server : certified[s][t] <= (IF "2PCcommit" \in decided[t] THEN 1 ELSE 0)

\* The coordinator is between its first and its last message.
Working == coord \in {"preparing", "2PCcommit", "2PCabort"}

\* The leader s has prepared t: it has locked the destination and numbered t.
Prepared(s, t) == t \in Range(assigned[s])

\* The decision on t has been delivered to s, whatever Handle2PCCommit made of it.
HeardOutcome(s, t) == certified[s][t] > 0 \/ Undone(s, t) \/ t \in refused[s]

\* The coordinator of t still works, or its decision is still to be delivered to s.
OutcomeIsComing(s, t) ==
    \/ Working /\ Current = t
    \/ \E p \in senders : p.tx = t /\ p.kind # "2PCprepare" /\ s \in Range(p.to)

\* Some call has failed for good, or nobody announces the abort of t.
OutcomeMayBeLost(t) == drops > 0 \/ (~AbortsSent /\ "2PCabort" \in decided[t])

AwaitsOutcome(s, t) ==
    /\ Prepared(s, t) /\ ~HeardOutcome(s, t)
    /\ OutcomeIsComing(s, t) \/ OutcomeMayBeLost(t)

\* Handle2PCCommit met the abort of t before s had executed t, and returned without
\* the unlock at its end.
AbortedTooEarly(s, t) == Prepared(s, t) /\ t \in refused[s]

CoordinatorsRow(s, a) == mu[s] = "coordinating" /\ a = Source(Current)

\* Without lost replies a locked row has one of three reasons: the coordinator at work
\* on it; a transfer that the server prepared, whose outcome it has not heard and
\* which is still on its way unless a call failed; or an abort that came before the
\* execution. A commit, and an abort that is carried out, leave no row locked,
\* however they overtake prepare phases and executions.
LocksExplained ==
    lostReplies = 0 =>
        \A s \in Server : \A a \in lock[s] :
            \/ CoordinatorsRow(s, a)
            \/ \E t \in Tx : Destination(t) = a /\ (AwaitsOutcome(s, t) \/ AbortedTooEarly(s, t))

\* A coordinator that has begun to prepare answers the client, whatever the
\* participants do: the 50 ms timer and the unlocked calls of PrePrepare see to it.
\* For transfers whose contact server is the leader, so that none of the servers it
\* calls can be polling a row. Nothing is promised once the process has ended or a
\* reply was lost: after the retry a server may execute the transfer again, fail, and
\* keep the mutex that a later coordinator's call waits for.
CoordinatorAnswers ==
    (coord \in {"preparing", "2PCcommit", "2PCabort"})
        ~> (coord = "none" \/ ~alive \/ lostReplies > 0)

-----------------------------------------------------------------------------
(* Why they hold: the parts of an inductive invariant.                     *)

Distinct(list) == \A i, j \in DOMAIN list : list[i] = list[j] => i = j

\* main has a transfer while it calls, and the coordinator works for that call.
ControlInv ==
    /\ driver.phase # "idle" => script # <<>>
    /\ coord # "none" => driver.phase = "calling"
    /\ \A s \in Server : mu[s] = "coordinating" <=> Working /\ s = Contact

\* The goroutine whose call a participant handles waits for it.
ServingInv ==
    \A s \in Server :
        /\ mu[s] \notin {"polling", "participating"} => serving[s] = {}
        /\ \A p, q \in serving[s] : p = q
        /\ \A p \in serving[s] :
              p \in senders /\ p.kind = "2PCprepare" /\ p.to # <<>> /\ Callee(p) = s

\* A transfer is still to do, and no coordinator has begun with it.
Waiting(t) == t \in Range(script) /\ ~(Working /\ t = Current)

Untouched(t) ==
    /\ decided[t] = {}
    /\ \A p \in senders : p.tx # t
    /\ \A s \in Server : t \notin Range(assigned[s]) /\ certified[s][t] = 0

Begun(t) ==
    /\ decided[t] = IF coord = "preparing" THEN {} ELSE {coord}
    /\ \A p \in senders : p.tx = t => p.kind = "2PCprepare"
    /\ \A s \in Server : certified[s][t] = 0

\* Without lost replies each transfer has one coordinator, one goroutine that prepares
\* and one that announces the decision, which starts when the first has ended if it is
\* to commit.
OneCoordinator ==
    /\ Distinct(script)
    /\ \A t \in Tx : Waiting(t) => Untouched(t)
    /\ Working => Begun(Current)

OneDecision ==
    \A t \in Tx : \E d \in {"2PCcommit", "2PCabort"} : decided[t] \subseteq {d}

OneSender ==
    /\ \A p \in senders : Distinct(p.to)
    /\ \A p, q \in senders : p.tx = q.tx /\ p.kind = q.kind => p = q
    /\ \A p \in senders : p.kind # "2PCprepare" => p.kind \in decided[p.tx]
    /\ \A p \in senders : p.kind = "2PCprepare" => "2PCcommit" \notin decided[p.tx]

\* A server that is still to be called has not done yet what it will be asked.
CallsAreNew ==
    \A p \in senders : \A s \in Range(p.to) :
        /\ p.kind = "2PCprepare" /\ p \notin serving[s] => p.tx \notin Range(assigned[s])
        /\ p.kind = "2PCcommit" => certified[s][p.tx] = 0

CertifiedOnce ==
    \A s \in Server : \A t \in Tx :
        certified[s][t] <= (IF "2PCcommit" \in decided[t] THEN 1 ELSE 0)

\* A server records what its cluster's log held up to the entry it has come to, and
\* takes a transfer out of its WAL for a decision only.
RecordsFollowLog ==
    \A s \in Server :
        /\ Distinct(assigned[s])
        /\ executed[s] <= Len(LogOf(s))
        /\ \A t \in transactions[s] : \E i \in 1..executed[s] : LogOf(s)[i] = t
        /\ \A t \in transactions[s] \ wal[s] : certified[s][t] > 0 \/ "2PCabort" \in decided[t]

Once == /\ OneCoordinator /\ OneDecision /\ OneSender
        /\ CallsAreNew /\ CertifiedOnce /\ RecordsFollowLog

OnceInv == lostReplies = 0 => Once

\* The servers that are asked to prepare t, and later told the decision.
Participants(t) == Range(Others(Request[t].destinationActive, Request[t].contact))

Started(t) == decided[t] # {} \/ (Working /\ Current = t)

\* Whoever is asked to prepare t, or has prepared it, is a participant of t, and the
\* coordinator of t has begun.
PreparesFollowStart ==
    /\ \A p \in senders : Started(p.tx) /\ Range(p.to) \subseteq Participants(p.tx)
    /\ \A s \in Server, t \in Tx : Prepared(s, t) => Started(t) /\ s \in Participants(t)

\* Every participant of a transfer that is decided has heard the decision or will.
DecisionsReachAll ==
    \A t \in Tx : decided[t] # {} =>
        \A s \in Participants(t) :
            HeardOutcome(s, t) \/ OutcomeIsComing(s, t) \/ OutcomeMayBeLost(t)

DeliveryInv == lostReplies = 0 => PreparesFollowStart /\ DecisionsReachAll

TablesInv ==
    \A s \in Server : IsFiniteSet(transactions[s]) /\ wal[s] \subseteq transactions[s]

-----------------------------------------------------------------------------
\* src/README.md:84 says "Handles cross-shard transactions atomically". When a
\* transfer is decided, its messages are delivered and its log is executed, the
\* source would be debited wherever the destination is credited.
Settled(t) ==
    /\ decided[t] # {}
    /\ senders = {}
    /\ coord = "none"
    /\ \A s \in Server : left[s] = <<>> /\ executed[s] = Len(LogOf(s))

BothOrNeither ==
    \A t \in Tx : Settled(t) =>
        \A p, q \in Server :
            (Stores(p, Source(t)) /\ Stores(q, Destination(t))) =>
                InitialBalance - balance[p][Source(t)] = balance[q][Destination(t)] - InitialBalance

\* src/README.md:306 says what a participant does with the decision: "Abort: Remove
\* from WAL, undo balance change, unlock". A participant that has heard the outcome of
\* every transfer to a row, and does not coordinate one from it, would not hold its lock.
OutcomeUnlocks ==
    \A s \in Server : \A a \in lock[s] :
        \/ CoordinatorsRow(s, a)
        \/ \E t \in Tx : Destination(t) = a /\ AwaitsOutcome(s, t)

=============================================================================
