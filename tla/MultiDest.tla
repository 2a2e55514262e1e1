----------------------------- MODULE MultiDest -----------------------------
(***************************************************************************)
(* Transfers with several destinations (bonus/multidestination.go).        *)
(* Callers run Validate, Lock and Commit one after another, as the         *)
(* comments at the end of that file ask, concurrently on one database      *)
(* handle and without a mutex: every SQL statement is a step.              *)
(***************************************************************************)
EXTENDS Integers, Sequences, Functions

CONSTANTS
    Account,          \* client ids
    Stored,           \* those that have a row in this database
    Tx,               \* transaction ids, one caller each
    Request,          \* what each of them asks
    Workloads,        \* the sets of callers that may be at work together
    InitialBalance,
    MaxErrors         \* bound on statements that fail (a busy or full database)

ASSUME MultiDestAssumption ==
    /\ Account \subseteq Nat /\ Stored \subseteq Account
    /\ Request \in [Tx -> [source : Account, destinations : Seq(Account), amounts : Seq(Int)]]
    /\ \A t \in Tx : Request[t].destinations # <<>>
    /\ Workloads \subseteq SUBSET Tx
    /\ InitialBalance \in Nat
    /\ MaxErrors \in Nat

VARIABLES
    todo,             \* the callers of this run
    step, at,         \* the statement each caller is at, and the row it is about
    alive,            \* FALSE once a caller has panicked
    errors,           \* statements that have failed
    balance, lock, transactions

db   == <<balance, lock, transactions>>
vars == <<todo, step, at, alive, errors, db>>

Source(t)       == Request[t].source
Destinations(t) == Request[t].destinations
Amounts(t)      == Request[t].amounts
Rows(t)         == <<Source(t)>> \o Destinations(t)

TotalAmt(t) == SumFunction(Amounts(t))

Init ==
    /\ todo \in Workloads
    /\ step = [t \in todo |-> "validate"]
    /\ at = [t \in todo |-> 1]
    /\ alive = TRUE
    /\ errors = 0
    /\ balance = [a \in Stored |-> InitialBalance]
    /\ lock = {}
    /\ transactions = {}

At(t, s) == alive /\ step[t] = s

Goto(t, s) ==
    /\ step' = [step EXCEPT ![t] = s]
    /\ at' = [at EXCEPT ![t] = 1]

NextOfOneMore(t, rows, s, after) ==          \* mutant: the loop's bound is off by one
    IF at[t] <= Len(rows)
    THEN step' = [step EXCEPT ![t] = s] /\ at' = [at EXCEPT ![t] = @ + 1]
    ELSE Goto(t, after)

\* The loops run over `rows`: step s for the next one, or step `after`.
NextOf(t, rows, s, after) ==
    IF at[t] < Len(rows)
    THEN step' = [step EXCEPT ![t] = s] /\ at' = [at EXCEPT ![t] = @ + 1]
    ELSE Goto(t, after)

Row(t) == Rows(t)[at[t]]

-----------------------------------------------------------------------------
CoversLargest(t) == \A i \in DOMAIN Amounts(t) : balance[Source(t)] >= Amounts(t)[i]
                                         \* mutant: each amount by itself

Covers(t) == balance[Source(t)] >= TotalAmt(t)

Validate(t) ==
    /\ At(t, "validate")
    /\ IF Source(t) \in Stored /\ Covers(t) THEN Goto(t, "check") ELSE Goto(t, "refused")
    /\ UNCHANGED <<todo, alive, errors, db>>

\* waitAndLock reads the lock in one statement and sets it in another. A row that is
\* locked, or that this database does not store, is polled for ever.
Check(t) ==
    /\ At(t, "check")
    /\ Row(t) \in Stored \ lock
    /\ step' = [step EXCEPT ![t] = "set"]
    /\ UNCHANGED <<todo, at, alive, errors, db>>

Set(t) ==
    /\ At(t, "set")
    /\ lock' = lock \cup {Row(t)}
    /\ NextOf(t, Rows(t), "check", "debit")
    /\ UNCHANGED <<todo, alive, errors, balance, transactions>>

Debit(t) ==
    /\ At(t, "debit")
    /\ balance' = [balance EXCEPT ![Source(t)] = @ - TotalAmt(t)]
    /\ Goto(t, "credit")
    /\ UNCHANGED <<todo, alive, errors, lock, transactions>>

FirstAmount(t) == Amounts(t)[1]              \* mutant: the index is forgotten

AmountAt(t) == Amounts(t)[at[t]]

Credit(t) ==
    /\ At(t, "credit")
    /\ at[t] \in DOMAIN Amounts(t)
    /\ balance' = [balance EXCEPT ![Destinations(t)[at[t]]] = @ + AmountAt(t)]
    /\ NextOf(t, Destinations(t), "credit", "record")
    /\ UNCHANGED <<todo, alive, errors, lock, transactions>>

\* There are fewer amounts than destinations: index out of range.
Panic(t) ==
    /\ At(t, "credit")
    /\ at[t] \notin DOMAIN Amounts(t)
    /\ alive' = FALSE
    /\ UNCHANGED <<todo, step, at, errors, db>>

Record(t) ==
    /\ At(t, "record")
    /\ transactions' = transactions \cup {t}
    /\ Goto(t, "unlock")
    /\ UNCHANGED <<todo, alive, errors, balance, lock>>

DestinationsOnly(t) == Destinations(t)       \* mutant: the source stays locked

AllButLast(t) == SubSeq(Rows(t), 1, Len(Destinations(t)))  \* mutant: off by one

RowsToUnlock(t) == Rows(t)

\* The loop over the source and the destinations, after the commit and, as "undo",
\* after a lock that failed.
Unlock(t) ==
    \E s \in {"unlock", "undo"} :
        /\ At(t, s)
        /\ lock' = lock \ {RowsToUnlock(t)[at[t]]}
        /\ NextOf(t, RowsToUnlock(t), s, IF s = "unlock" THEN "done" ELSE "failed")
        /\ UNCHANGED <<todo, alive, errors, balance, transactions>>

-----------------------------------------------------------------------------
(* Statements that fail.                                                   *)

Fails(t, s) ==
    /\ At(t, s)
    /\ errors < MaxErrors
    /\ errors' = errors + 1
    /\ UNCHANGED <<todo, alive, db>>

\* The source's lock fails: nothing to undo. A destination's: all rows are unlocked,
\* those that other callers hold included.
LockFails(t) ==
    /\ Fails(t, "set")
    /\ Goto(t, IF at[t] = 1 THEN "failed" ELSE "undo")

\* An error return of the validation or of the commit: what is done stays done, and
\* all rows stay locked.
StatementFails(t) ==
    /\ \E s \in {"validate", "debit", "credit", "record"} : Fails(t, s)
    /\ Goto(t, "failed")

\* The errors of UnsetLock are dropped.
UnlockFails(t) ==
    \E s \in {"unlock", "undo"} :
        /\ Fails(t, s)
        /\ NextOf(t, RowsToUnlock(t), s, IF s = "unlock" THEN "done" ELSE "failed")

-----------------------------------------------------------------------------
Call(t) == \/ Validate(t) \/ Check(t) \/ Set(t) \/ Debit(t) \/ Credit(t) \/ Panic(t)
           \/ Record(t) \/ Unlock(t)

Error(t) == LockFails(t) \/ StatementFails(t) \/ UnlockFails(t)

Next == \E t \in todo : Call(t) \/ Error(t)

Spec == Init /\ [][Next]_vars

\* Every caller keeps running; a poll that meets a free row again and again gets it.
FairSpec == Spec /\ \A t \in Tx : WF_vars(t \in todo /\ Call(t))

=============================================================================
