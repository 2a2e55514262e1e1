---------------------------- MODULE MCSmallBank ----------------------------
(***************************************************************************)
(* The calls, users and tables on which TLC checks SmallBankProperties.    *)
(***************************************************************************)
EXTENDS SmallBankProperties, TLC

Call(op, from, to, amount, inserts) ==
    [op |-> op, from |-> from, to |-> to, amount |-> amount, inserts |-> inserts]

MCRequest ==
    <<Call("DepositChecking", 1, 1, 5, TRUE),  Call("DepositChecking", 3, 3, 4, TRUE),
      Call("SendPayment", 1, 3, 6, TRUE),      Call("SendPayment", 2, 1, 3, FALSE),
      Call("Amalgamate", 1, 2, 0, TRUE),       Call("Amalgamate", 1, 1, 0, FALSE),
      Call("Balance", 1, 1, 0, TRUE),          Call("Balance", 3, 3, 0, FALSE),
      Call("TransactSavings", 2, 2, -7, TRUE), Call("TransactSavings", 3, 3, 2, TRUE),
      Call("WriteCheck", 3, 3, 9, TRUE),       Call("WriteCheck", 2, 2, 1, FALSE),
      Call("Amalgamate", 3, 1, 0, FALSE),      Call("TransactSavings", 1, 1, 2, FALSE),
      Call("Amalgamate", 3, 3, 0, TRUE),       Call("DepositChecking", 3, 3, 1, FALSE)>>

\* Any two calls, and three of those that meet most: inserts of one row, payments
\* from and to it, and an Amalgamate seen by Balance.
MCWorkloads == {w \in SUBSET Op : \/ Cardinality(w) \in 1..2
                                  \/ Cardinality(w) = 3 /\ w \subseteq {2, 3, 5, 6, 7, 9, 11}}

\* User 3 has no row yet.
MCInitial == [checking |-> 1 :> 10 @@ 2 :> 10, savings |-> 1 :> 10 @@ 2 :> 10]

=============================================================================
