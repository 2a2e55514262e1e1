---------------------------- MODULE TransferLog ----------------------------
(***************************************************************************)
(* What one cluster promises its clients, whatever protocol it runs: there *)
(* is one log of accepted transfers, a transfer enters it at most once,    *)
(* and every server applies the log in order, moving the money and         *)
(* recording the transfer in a single step.                                *)
(***************************************************************************)
EXTENDS Integers, Sequences

CONSTANTS
    Server,           \* the replicas
    Account,          \* the accounts they all hold
    Tx,               \* transfers
    Request,          \* what each transfer asks: source, destination, amount
    InitialBalance

VARIABLES
    log,              \* the transfers accepted so far, in order
    applied,          \* what each server has recorded
    accounts          \* the balances each server stores

vars == <<log, applied, accounts>>

Init ==
    /\ log = <<>>
    /\ applied = [s \in Server |-> <<>>]
    /\ accounts = [s \in Server |-> [a \in Account |-> InitialBalance]]

Accept(t) ==
    /\ \A i \in DOMAIN log : log[i] # t
    /\ log' = Append(log, t)
    /\ UNCHANGED <<applied, accounts>>

Moved(bal, t) ==
    [a \in Account |-> bal[a]
        - (IF a = Request[t].source THEN Request[t].amount ELSE 0)
        + (IF a = Request[t].destination THEN Request[t].amount ELSE 0)]

Apply(s) ==
    /\ Len(applied[s]) < Len(log)
    /\ LET t == log[Len(applied[s]) + 1] IN
        /\ applied' = [applied EXCEPT ![s] = Append(@, t)]
        /\ accounts' = [accounts EXCEPT ![s] = Moved(@, t)]
    /\ UNCHANGED log

Next == (\E t \in Tx : Accept(t)) \/ (\E s \in Server : Apply(s))

Spec == Init /\ [][Next]_vars

=============================================================================
