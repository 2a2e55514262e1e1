----------------------------- MODULE SmallBank -----------------------------
(***************************************************************************)
(* The six SmallBank operations, in the version of database/db_smallbank.go*)
(* (which inserts missing rows) and in that of bonus/smallbankbenchmark.go *)
(* (which does not).  Concurrent callers share a database handle; there is *)
(* no mutex and no database transaction, so every SQL statement is a step. *)
(***************************************************************************)
EXTENDS Integers, Sequences, FiniteSets

CONSTANTS
    Uid,              \* users
    Op,               \* calls, each made once
    Request,          \* operation, users, amount, and whether it inserts missing rows
    Workloads,        \* the sets of calls that may be made together
    Initial,          \* the two tables before them
    MaxErrors         \* bound on statements that fail (a busy or full database)

Table == {"checking", "savings"}

Operations == {"Amalgamate", "Balance", "DepositChecking", "SendPayment", "TransactSavings",
               "WriteCheck"}

ASSUME SmallBankAssumption ==
    /\ \A o \in Op : /\ Request[o].op \in Operations
                     /\ Request[o].from \in Uid /\ Request[o].to \in Uid
                     /\ Request[o].amount \in Int
                     /\ Request[o].inserts \in BOOLEAN
    /\ Workloads \subseteq SUBSET Op /\ \A w \in Workloads : IsFiniteSet(w)
    /\ DOMAIN Initial = Table
    /\ \A t \in Table : /\ IsFiniteSet(DOMAIN Initial[t]) /\ DOMAIN Initial[t] \subseteq Uid
                        /\ \A u \in DOMAIN Initial[t] : Initial[t][u] \in Int
    /\ MaxErrors \in Nat

VARIABLES
    todo,             \* the calls of this run
    pc,               \* the statement each call is at
    status,           \* running, inserting a missing row, or how the call returned
    seen,             \* what its SELECTs have returned, added up
    bal,              \* the tables, as functions of the users that have a row
    errors            \* statements that have failed

vars == <<todo, pc, status, seen, bal, errors>>

-----------------------------------------------------------------------------
(* The statements of each operation.                                       *)

Select(table, u)    == [kind |-> "select", table |-> table, uid |-> u, amount |-> 0]
Clear(u)            == [kind |-> "clear", table |-> "savings", uid |-> u, amount |-> 0]
Add(table, u, n)    == [kind |-> "add", table |-> table, uid |-> u, amount |-> n]
AddSeen(table, u)   == [kind |-> "addSeen", table |-> table, uid |-> u, amount |-> 0]

\* getCheckingBalance and getSavingsBalance, which the database version calls first.
Ensure(o, table, u) == IF Request[o].inserts THEN <<Select(table, u)>> ELSE <<>>

Amalgamate(o) ==
    <<Select("savings", Request[o].from), Clear(Request[o].from),
      AddSeen("checking", Request[o].to)>>

BalanceSavingsFirst(o) ==                       \* mutant: the reads are swapped
    <<Select("savings", Request[o].from), Select("checking", Request[o].from)>>

Balance(o) == <<Select("checking", Request[o].from), Select("savings", Request[o].from)>>

DepositUnensured(o) == <<Add("checking", Request[o].from, Request[o].amount)>>
                                                \* mutant: the row is taken for granted

DepositChecking(o) ==
    Ensure(o, "checking", Request[o].from)
        \o <<Add("checking", Request[o].from, Request[o].amount)>>

PaymentCreditFirst(o) ==                        \* mutant: the updates are swapped
    Ensure(o, "checking", Request[o].from) \o Ensure(o, "checking", Request[o].to)
        \o <<Add("checking", Request[o].to, Request[o].amount),
             Add("checking", Request[o].from, -Request[o].amount)>>

SendPayment(o) ==
    Ensure(o, "checking", Request[o].from) \o Ensure(o, "checking", Request[o].to)
        \o <<Add("checking", Request[o].from, -Request[o].amount),
             Add("checking", Request[o].to, Request[o].amount)>>

TransactSavings(o) ==
    Ensure(o, "savings", Request[o].from)
        \o <<Add("savings", Request[o].from, Request[o].amount)>>

WriteCheck(o) ==
    Ensure(o, "checking", Request[o].from)
        \o <<Add("checking", Request[o].from, -Request[o].amount)>>

Statements(o) ==
    CASE Request[o].op = "Amalgamate"      -> Amalgamate(o)
      [] Request[o].op = "Balance"         -> Balance(o)
      [] Request[o].op = "DepositChecking" -> DepositChecking(o)
      [] Request[o].op = "SendPayment"     -> SendPayment(o)
      [] Request[o].op = "TransactSavings" -> TransactSavings(o)
      [] Request[o].op = "WriteCheck"      -> WriteCheck(o)

-----------------------------------------------------------------------------
Init ==
    /\ todo \in Workloads
    /\ pc = [o \in todo |-> 1]
    /\ status = [o \in todo |-> "running"]
    /\ seen = [o \in todo |-> 0]
    /\ bal = Initial
    /\ errors = 0

At(o)     == Statements(o)[pc[o]]
HasRow(s) == s.uid \in DOMAIN bal[s.table]

Running(o, kind) == status[o] = "running" /\ At(o).kind = kind

ReturnsLate(o) == pc[o] > Len(Statements(o))    \* mutant: one statement too many

\* The statement is the last one.
Returns(o) == pc[o] = Len(Statements(o))

Advance(o) ==
    IF Returns(o)
    THEN status' = [status EXCEPT ![o] = "done"] /\ UNCHANGED pc
    ELSE status' = [status EXCEPT ![o] = "running"] /\ pc' = [pc EXCEPT ![o] = @ + 1]

Fail(o) == status' = [status EXCEPT ![o] = "failed"] /\ UNCHANGED pc

Found(o) ==
    /\ Running(o, "select")
    /\ HasRow(At(o))
    /\ seen' = [seen EXCEPT ![o] = @ + bal[At(o).table][At(o).uid]]
    /\ Advance(o)
    /\ UNCHANGED <<todo, bal, errors>>

\* No row: the database version goes on to insert one. In the bonus version Balance
\* counts nothing, and Amalgamate returns the error.
NotFound(o) ==
    /\ Running(o, "select")
    /\ ~HasRow(At(o))
    /\ IF Request[o].inserts
       THEN status' = [status EXCEPT ![o] = "inserting"] /\ UNCHANGED pc
       ELSE IF Request[o].op = "Balance" THEN Advance(o) ELSE Fail(o)
    /\ UNCHANGED <<todo, seen, bal, errors>>

\* The row may have been inserted by somebody else since, which the primary key does
\* not allow twice.
Insert(o) ==
    LET s == At(o) IN
    /\ status[o] = "inserting"
    /\ IF HasRow(s)
       THEN Fail(o) /\ UNCHANGED bal
       ELSE /\ bal' = [bal EXCEPT ![s.table] =
                           [u \in DOMAIN @ \cup {s.uid} |-> IF u = s.uid THEN 0 ELSE @[u]]]
            /\ Advance(o)
    /\ UNCHANGED <<todo, seen, errors>>

\* An UPDATE of a row that is not there changes nothing, and that is no error: the
\* branch for sql.ErrNoRows in Amalgamate is never taken.
Update(o) ==
    LET s == At(o) IN
    /\ status[o] = "running" /\ s.kind # "select"
    /\ bal' = IF ~HasRow(s) THEN bal
              ELSE [bal EXCEPT ![s.table][s.uid] = CASE s.kind = "clear"   -> 0
                                                     [] s.kind = "add"     -> @ + s.amount
                                                     [] s.kind = "addSeen" -> @ + seen[o]]
    /\ Advance(o)
    /\ UNCHANGED <<todo, seen, errors>>

\* A statement fails; what the call has done before stays done.
StatementFails(o) ==
    /\ status[o] \in {"running", "inserting"}
    /\ errors < MaxErrors
    /\ errors' = errors + 1
    /\ Fail(o)
    /\ UNCHANGED <<todo, seen, bal>>

Next == \E o \in todo : Found(o) \/ NotFound(o) \/ Insert(o) \/ Update(o) \/ StatementFails(o)

Spec == Init /\ [][Next]_vars

=============================================================================
