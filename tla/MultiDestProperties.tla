------------------------ MODULE MultiDestProperties ------------------------
(***************************************************************************)
(* What concurrent transfers with several destinations keep.               *)
(***************************************************************************)
EXTENDS MultiDest, FiniteSets

\* Every variable keeps its type; a caller never gets past the rows of its request.
TypeOK ==
    /\ todo \in Workloads
    /\ step \in [todo -> {"validate", "check", "set", "undo", "debit", "credit", "record",
                          "unlock", "done", "refused", "failed"}]
    /\ at \in [todo -> Nat] /\ \A t \in todo : at[t] \in 1..Len(Rows(t))
    /\ alive \in BOOLEAN
    /\ errors \in 0..MaxErrors
    /\ balance \in [Stored -> Int]
    /\ lock \subseteq Stored
    /\ transactions \subseteq todo

To(t, a) == {i \in DOMAIN Destinations(t) : Destinations(t)[i] = a}

Spent(t, a) == IF a = Source(t) THEN TotalAmt(t) ELSE 0

\* What t brings to the account a.
Effect(t, a) == SumFunctionOnSet(Amounts(t), To(t, a)) - Spent(t, a)

\* Whenever no caller is between its debit and its record and no statement has failed,
\* the balances are those of the recorded transfers, each applied once: the relative
\* updates of CommitMultiDestTransaction lose nothing, although waitAndLock may give
\* one row to two callers.
OutcomeIsExact ==
    (errors = 0 /\ \A t \in todo : step[t] \notin {"credit", "record"}) =>
        \A a \in Stored :
            balance[a] = InitialBalance
                         + SumFunctionOnSet([t \in todo |-> Effect(t, a)], transactions)

\* An account that one caller spends from is never overdrawn, whatever arrives
\* meanwhile: the validation before the locks is enough for it. (Two callers can
\* overdraw it: both validate before either locks.)
LoneSpenderIsSolvent ==
    \A a \in Stored :
        (\A t, u \in todo : Source(t) = a /\ Source(u) = a => t = u) => balance[a] >= 0

\* t has set the lock of its i-th row and not come to unlock it.
Holds(t, i) ==
    \/ step[t] \in {"check", "set"} /\ i < at[t]
    \/ step[t] \in {"debit", "credit", "record"}
    \/ step[t] = "unlock" /\ i >= at[t]

\* Without failed statements every locked row has an owner that is still at work,
\* even when another caller unlocked it too early and a third one took it.
LocksHaveOwner ==
    errors = 0 =>
        \A a \in lock : \E t \in todo : \E i \in DOMAIN Rows(t) : Rows(t)[i] = a /\ Holds(t, i)

\* All requests lock stored rows in the order of their ids, each row once.
Ordered ==
    \A t \in todo : /\ \A i, j \in DOMAIN Rows(t) : i < j => Rows(t)[i] < Rows(t)[j]
                    /\ \A i \in DOMAIN Rows(t) : Rows(t)[i] \in Stored

\* src/README.md:598 says "Deadlock prevention through ordered locking": callers that
\* ask in a common order all finish. (Nothing in LockClientsForMultiDest sorts the
\* rows, so the order is up to the requests.)
OrderedCallersFinish ==
    <>(\/ ~Ordered \/ ~alive \/ errors > 0
       \/ \A t \in todo : step[t] \in {"done", "refused"})

-----------------------------------------------------------------------------
(* Why they hold: the parts of an inductive invariant.                     *)

\* A row that is about to be locked was found in the database; a destination that is
\* credited, and every one of a recorded transfer, has an amount.
StepInv ==
    \A t \in todo :
        /\ step[t] = "set" => Row(t) \in Stored
        /\ step[t] = "credit" => at[t] \in DOMAIN Destinations(t)
        /\ step[t] \in {"check", "set", "debit"} => Source(t) \in Stored
        /\ errors = 0 => step[t] \notin {"undo", "failed"}

\* The validation of a lone spender is still good when it comes to the debit.
SpenderInv ==
    \A t \in todo :
        (/\ \A u \in todo : Source(u) = Source(t) => u = t
         /\ step[t] \in {"check", "set", "debit"})
        => Covers(t)

\* The callers that have debited their source, and what the others have credited.
Debited == {t \in todo : step[t] \in {"credit", "record", "unlock", "done"}}

Credited(t, a) == {i \in To(t, a) : step[t] = "credit" => i < at[t]}

Moved(t, a) == SumFunctionOnSet(Amounts(t), Credited(t, a)) - Spent(t, a)

\* Every balance is the initial one and what the callers have moved so far.
BalanceInv ==
    errors = 0 =>
        /\ IsFiniteSet(Debited)
        /\ transactions = {t \in todo : step[t] \in {"unlock", "done"}}
        /\ \A t \in Debited : \A a \in Account : Credited(t, a) \subseteq DOMAIN Amounts(t)
        /\ \A a \in Stored :
              balance[a] = InitialBalance
                           + SumFunctionOnSet([t \in todo |-> Moved(t, a)], Debited)

=============================================================================
