------------------------ MODULE SmallBankProperties ------------------------
(***************************************************************************)
(* What concurrent SmallBank calls keep.                                   *)
(***************************************************************************)
EXTENDS SmallBank, Functions

\* Every variable keeps its type; a call never runs past its last statement.
TypeOK ==
    /\ todo \in Workloads
    /\ pc \in [todo -> Nat] /\ \A o \in todo : pc[o] \in DOMAIN Statements(o)
    /\ status \in [todo -> {"running", "inserting", "done", "failed"}]
    /\ seen \in [todo -> Int]
    /\ DOMAIN bal = Table
    /\ \A t \in Table : DOMAIN bal[t] \subseteq Uid /\ \A u \in DOMAIN bal[t] : bal[t][u] \in Int
    /\ errors \in 0..MaxErrors

Total(tables) == SumFunction(tables["checking"]) + SumFunction(tables["savings"])

\* What a successful call brings into the bank.
Net(o) == CASE Request[o].op \in {"DepositChecking", "TransactSavings"} -> Request[o].amount
            [] Request[o].op = "WriteCheck" -> -Request[o].amount
            [] OTHER -> 0

Expected == Total(Initial)
            + SumFunction([o \in todo |-> IF status[o] = "done" THEN Net(o) ELSE 0])

Is(o, ops) == Request[o].op \in ops

\* Calls that lose or double money when all goes well: a bonus update of a missing
\* row, an Amalgamate into a missing checking row, and an Amalgamate next to another
\* call that writes the same savings between its SELECT and its clearing UPDATE.
Risky(o) ==
    \/ /\ ~Request[o].inserts
       /\ \/ Is(o, {"DepositChecking", "SendPayment", "WriteCheck"})
             /\ {Request[o].from, Request[o].to} \ DOMAIN Initial["checking"] # {}
          \/ Is(o, {"TransactSavings"}) /\ Request[o].from \notin DOMAIN Initial["savings"]
    \/ /\ Is(o, {"Amalgamate"})
       /\ \/ Request[o].to \notin DOMAIN Initial["checking"]
          \/ \E p \in todo \ {o} : /\ Is(p, {"Amalgamate", "TransactSavings"})
                                   /\ Request[p].from = Request[o].from

AllSafe == \A o \in todo : ~Risky(o)

\* Without risky calls and failed statements, once all calls have returned the bank
\* holds what the successful ones brought in: concurrent updates lose nothing, and a
\* call that lost the race to insert a row has changed nothing.
TotalsAdd ==
    (errors = 0 /\ AllSafe /\ \A o \in todo : status[o] \in {"done", "failed"}) =>
        Total(bal) = Expected

\* At no moment, and whatever statement fails, is there more money than the
\* successful calls account for: SendPayment and Amalgamate take before they give.
FailuresCreateNoMoney == AllSafe => Total(bal) <= Expected

\* The amount in a row, if there is one.
In(tables, table, u) == IF u \in DOMAIN tables[table] THEN tables[table][u] ELSE 0

Holdings(tables, u) == In(tables, "checking", u) + In(tables, "savings", u)

\* All calls but o move money only from a user's savings to his checking account.
OnlyAmalgamates(o) ==
    \A p \in todo \ {o} : \/ Is(p, {"Amalgamate"}) /\ ~Risky(p) /\ Request[p].from = Request[p].to
                          \/ Is(p, {"Balance"})

\* Balance reads checking and then savings, in two statements. When the user's money
\* is only moved from savings to checking meanwhile, it may miss some of it but never
\* counts any twice.
BalanceCountsOnce ==
    \A o \in todo :
        (Is(o, {"Balance"}) /\ status[o] = "done" /\ OnlyAmalgamates(o))
        => seen[o] <= Holdings(Initial, Request[o].from)

-----------------------------------------------------------------------------
(* The inductive invariants behind them.                                   *)

\* Rows never vanish, a call that inserts missing rows has those it selected, and a call
\* is done at its last statement.
RowsInv ==
    /\ \A o \in todo : status[o] = "inserting" => Request[o].inserts /\ At(o).kind = "select"
    /\ \A o \in todo : status[o] = "done" => Returns(o)
    /\ \A t \in Table : IsFiniteSet(DOMAIN bal[t]) /\ DOMAIN Initial[t] \subseteq DOMAIN bal[t]
    /\ \A o \in todo : \A i \in 1..(pc[o] - 1) :
          (Request[o].inserts /\ Statements(o)[i].kind = "select") => HasRow(Statements(o)[i])

\* An Amalgamate that is about to clear the savings has seen what is there.
SeenInv ==
    \A o \in todo :
        /\ (Is(o, {"Amalgamate", "Balance"}) /\ pc[o] = 1) => seen[o] = 0
        /\ (AllSafe /\ Is(o, {"Amalgamate"}) /\ pc[o] = 2) =>
               /\ Request[o].from \in DOMAIN bal["savings"]
               /\ bal["savings"][Request[o].from] = seen[o]

\* What a call has brought into the bank when it is at its i-th statement and has seen n:
\* a payment takes before it gives, and an Amalgamate clears before it adds.
Brings(o, state, i, n) ==
    CASE state = "done" -> Net(o)
      [] state # "done" /\ i = Len(Statements(o)) /\ Is(o, {"SendPayment"}) -> -Request[o].amount
      [] state # "done" /\ i = Len(Statements(o)) /\ Is(o, {"Amalgamate"}) -> -n
      [] OTHER -> 0

Brought(o) == Brings(o, status[o], pc[o], seen[o])

LedgerInv ==
    AllSafe => Total(bal) = Total(Initial) + SumFunction([o \in todo |-> Brought(o)])

\* Without failed statements a call fails at a SELECT only.
FailedInv ==
    errors = 0 => \A o \in todo : status[o] = "failed" => At(o).kind = "select"

\* Savings that only an Amalgamate writes do not become negative.
SavingsInv ==
    AllSafe => \A o \in todo : Is(o, {"Amalgamate"}) =>
        In(bal, "savings", Request[o].from) >= 0 /\ seen[o] >= 0

\* What the accounts of the user hold, with what an Amalgamate has cleared and not
\* added, and what Balance has read of them.
HoldingsInv ==
    \A o \in todo :
        (Is(o, {"Balance"}) /\ OnlyAmalgamates(o)) =>
            LET u == Request[o].from IN
            /\ In(bal, "savings", u) >= 0
            /\ Holdings(bal, u) <= Holdings(Initial, u)
            /\ \A p \in todo :
                  (Is(p, {"Amalgamate"}) /\ Request[p].from = u /\ pc[p] = 3 /\ status[p] = "running")
                  => Holdings(bal, u) + seen[p] <= Holdings(Initial, u)
            /\ pc[o] = 2 => /\ status[o] = "done" => seen[o] <= Holdings(Initial, u)
                            /\ status[o] # "done" =>
                                   seen[o] + In(bal, "savings", u) <= Holdings(Initial, u)

=============================================================================
