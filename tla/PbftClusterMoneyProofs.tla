------------------------ MODULE PbftClusterMoneyProofs ------------------------
(***************************************************************************)
(* Theorems about the row locks of PbftCluster and the money they protect: *)
(* the contact server's locks cover exactly the transfers it has still to  *)
(* execute, and no account is overdrawn anywhere, retries included.        *)
(***************************************************************************)
EXTENDS PbftClusterProofs

-----------------------------------------------------------------------------
(* Steps, as the primary's log and the tables see them.                    *)

\* The contact server numbers the driver's transfer, and is free to do so.
Accepted(t) ==
    /\ t \in Tx /\ t = Current
    /\ Calling /\ Contact = Primary
    /\ mu[Primary] = "free" /\ SufficientBalance
    /\ Accounts(t) \cap lock[Primary] = {}
    /\ lock' = [lock EXCEPT ![Primary] = @ \cup Accounts(t)]
    /\ assigned' = [assigned EXCEPT ![Primary] = Append(@, t)]
    /\ UNCHANGED <<transactions, balance>>
    /\ mu' = [mu EXCEPT ![Primary] = "free"]

\* s executes the entry of the log that follows its table.
Executed(s, t) ==
    /\ t \in Tx
    /\ Len(transactions[s]) + 1 \in DOMAIN assigned[Primary]
    /\ assigned[Primary][Len(transactions[s]) + 1] = t
    /\ mu[s] = "executing"
    /\ transactions' = [transactions EXCEPT ![s] = Append(@, t)]
    /\ balance' = [balance EXCEPT ![s] = Transfer(@, t)]
    /\ lock' = IF IsTransactionCrossShard(t) THEN lock
               ELSE [lock EXCEPT ![s] = @ \ Accounts(t)]
    /\ UNCHANGED <<assigned, mu>>

\* s finds that entry in its table already, and stops for ever.
ExecutedTwice(s, t) ==
    /\ t \in Tx
    /\ Len(transactions[s]) + 1 \in DOMAIN assigned[Primary]
    /\ assigned[Primary][Len(transactions[s]) + 1] = t
    /\ mu[s] = "executing" /\ mu' = [mu EXCEPT ![s] = "leaked"]
    /\ balance' \in {balance, [balance EXCEPT ![s] = Transfer(@, t)]}
    /\ UNCHANGED <<assigned, lock, transactions>>

\* Any other step. What has stopped for ever stays so.
NoMoney ==
    /\ UNCHANGED <<assigned, lock, transactions, balance>>
    /\ \A s \in Server : mu[s] = "leaked" => mu'[s] = "leaked"

LEMMA ExecuteIsExecuted ==
    ASSUME TypeInv, LogInv, NEW s \in Server, Execute(s)
    PROVE  \E t \in Tx : Executed(s, t)
<1>1. PICK t \in NextToExecute(s) :
        /\ balance' = [balance EXCEPT ![s] = Transfer(@, t)]
        /\ transactions' = [transactions EXCEPT ![s] = Append(@, t)]
        /\ IF IsTransactionCrossShard(t) THEN lock' = lock
           ELSE lock' = [lock EXCEPT ![s] = @ \ Accounts(t)]
  BY Zenon DEF Execute
<1>2. mu[s] = "executing" /\ assigned' = assigned /\ mu' = mu
  BY Zenon DEF Execute, InLoop, consensus
<1>3. t \in Tx /\ NumberedBy(t, count[s] + 1) /\ count[s] = Len(transactions[s])
  BY <1>2, NextToExecuteType, NextIsNumbered DEF LogInv, CountersMatchTable
<1> QED BY <1>1, <1>2, <1>3 DEF Executed, NumberedBy

LEMMA ExecuteAgainIsExecutedTwice ==
    ASSUME TypeInv, LogInv, NEW s \in Server, ExecuteAgain(s)
    PROVE  \E t \in Tx : ExecutedTwice(s, t)
<1>1. PICK t \in NextToExecute(s) :
        balance' \in {balance, [balance EXCEPT ![s] = Transfer(@, t)]}
  BY Zenon DEF ExecuteAgain
<1>2. /\ mu[s] = "executing" /\ mu' = [mu EXCEPT ![s] = "leaked"]
      /\ UNCHANGED <<assigned, lock, transactions>>
  BY Zenon DEF ExecuteAgain, ReturnError, InLoop, consensus
<1>3. t \in Tx /\ NumberedBy(t, count[s] + 1) /\ count[s] = Len(transactions[s])
  BY <1>2, NextToExecuteType, NextIsNumbered DEF LogInv, CountersMatchTable
<1> QED BY <1>1, <1>2, <1>3 DEF ExecutedTwice, NumberedBy

\* Nobody who polls the locks gets on, so whoever is accepted has just been found to
\* have the money.
LEMMA AcceptIsAccepted ==
    ASSUME TypeInv, LogInv, AwaitsHeldLocks, AcceptRequest
    PROVE  \E t \in Tx : Accepted(t)
<1>1. Current \in Tx /\ Contact = Primary /\ Primary \in Server /\ Calling
  BY ContactIsPrimary, SingleContact DEF AcceptRequest, LogInv
<1>2. Accounts(Current) \cap lock[Primary] = {}
  BY <1>1 DEF AcceptRequest, RowsLocked
<1>3. mu[Primary] = "free" /\ SufficientBalance
  BY <1>1, <1>2 DEF AcceptRequest, AwaitsHeldLocks
<1>4. /\ lock' = [lock EXCEPT ![Primary] = @ \cup Accounts(Current)]
      /\ assigned' = [assigned EXCEPT ![Primary] = Append(@, Current)]
      /\ UNCHANGED <<transactions, balance>>
      /\ mu' = [mu EXCEPT ![Primary] = "free"]
  BY <1>1, Zenon DEF AcceptRequest
<1> QED BY <1>1, <1>2, <1>3, <1>4 DEF Accepted

LEMMA MoneySteps ==
    ASSUME TypeInv, LogInv, AwaitsHeldLocks, [Next]_vars
    PROVE  \/ NoMoney
           \/ \E t \in Tx : Accepted(t)
           \/ \E s \in Server, t \in Tx : Executed(s, t) \/ ExecutedTwice(s, t)
<1>1. CASE Submit \/ RetryTimer \/ RefuseRequest \/ AwaitLocks
  <2>1. mu' = mu \/ \E x \in {"leaked", "awaiting"} :
                       mu[Contact] = "free" /\ mu' = [mu EXCEPT ![Contact] = x]
    BY <1>1, Zenon DEF Submit, RetryTimer, RefuseRequest, AwaitLocks, handler
  <2>2. UNCHANGED <<assigned, lock, transactions, balance>>
    BY <1>1, Zenon DEF Submit, RetryTimer, RefuseRequest, AwaitLocks, consensus, db
  <2> QED BY <2>1, <2>2 DEF NoMoney, TypeInv, TypeOK
<1>2. CASE AcceptRequest
  BY <1>2, AcceptIsAccepted
<1>3. CASE Fail
  BY <1>3, Zenon DEF Fail, ClientDialFails, CallFails, handler, consensus, db, NoMoney
<1>4. ASSUME NEW s \in Server, Handle(s) PROVE NoMoney
  <2>1. UNCHANGED assigned /\ UNCHANGED db
    BY <1>4 DEF Handle, HandlePrePrepare, HandlePrepare, HandlePrepared, HandleCommit,
                HandleCommitted, consensus
  <2>2. mu' = mu \/ (mu[s] = "free" /\ mu' = [mu EXCEPT ![s] = "executing"])
    BY <1>4, Zenon DEF Handle, HandlePrePrepare, HandlePrepare, HandlePrepared,
                       HandleCommit, HandleCommitted, Receive, Decide, handler
  <2> QED BY <2>1, <2>2 DEF NoMoney, db, TypeInv, TypeOK
<1>5. ASSUME NEW s \in Server, SelfDeadlock(s) \/ FinishLoop(s) PROVE NoMoney
  <2>1. /\ mu[s] = "executing"
        /\ \E x \in {"deadlocked", "free"} : mu' = [mu EXCEPT ![s] = x]
        /\ UNCHANGED assigned /\ UNCHANGED db
    BY <1>5, Zenon DEF SelfDeadlock, FinishLoop, InLoop, consensus
  <2> QED BY <2>1 DEF NoMoney, db, TypeInv, TypeOK
<1>6. CASE Done \/ UNCHANGED vars
  BY <1>6 DEF Done, vars, handler, consensus, db, NoMoney
<1> QED BY <1>1, <1>2, <1>3, <1>4, <1>5, <1>6, ExecuteIsExecuted, ExecuteAgainIsExecutedTwice
        DEF Next, Drive, ExecutionStep

-----------------------------------------------------------------------------
(* Row locks.                                                              *)

\* The primary's table is a prefix of its log.
LEMMA TableWithinLog ==
    ASSUME TypeInv, LogInv, NEW s \in Server
    PROVE  /\ assigned[Primary] \in Seq(Tx)
           /\ transactions[s] \in Seq(Tx)
           /\ Len(transactions[s]) <= Len(assigned[Primary])
           /\ \A k \in DOMAIN transactions[s] : transactions[s][k] = assigned[Primary][k]
<1>1. assigned[Primary] \in Seq(Tx) /\ transactions[s] \in Seq(Tx)
  BY SingleContact DEF TypeInv, TypeOK
<1>2. \A k \in 1..Len(transactions[s]) :
         k \in 1..Len(assigned[Primary]) /\ assigned[Primary][k] = transactions[s][k]
  BY <1>1 DEF LogInv, TransfersNumbered, NumberedBy
<1>3. Len(transactions[s]) \in Nat /\ Len(assigned[Primary]) \in Nat
  BY <1>1
<1>4. Len(transactions[s]) <= Len(assigned[Primary])
  <2>1. CASE Len(transactions[s]) = 0
    BY <1>3, <2>1
  <2>2. CASE Len(transactions[s]) # 0
    BY <1>2, <1>3, <2>2
  <2> QED BY <2>1, <2>2
<1> QED BY <1>1, <1>2, <1>4

LEMMA LockInit == Init => LockInv
BY SingleContact DEF Init, LockInv, LocksCoverPending, Holding, RenumberedIsExecuted

\* A step that changes neither the log nor the locks and the table of the primary.
LEMMA LocksKept ==
    ASSUME LockInv,
           assigned'[Primary] = assigned[Primary],
           lock'[Primary] = lock[Primary],
           transactions'[Primary] = transactions[Primary]
    PROVE  LockInv'
BY DEF LockInv, LocksCoverPending, Holding, RenumberedIsExecuted

\* What holds its accounts, holds rows that are locked.
LEMMA HoldingIsLocked ==
    ASSUME LockInv, NEW i \in Holding
    PROVE  Accounts(assigned[Primary][i]) \subseteq lock[Primary]
BY DEF LockInv, LocksCoverPending

LEMMA LockAccepted ==
    ASSUME TypeInv, LogInv, LockInv, NEW t \in Tx, Accepted(t)
    PROVE  LockInv'
<1> DEFINE log == assigned[Primary]
           n == Len(log) + 1
           m == Len(transactions[Primary])
<1>1. /\ log \in Seq(Tx) /\ m \in Nat /\ m <= Len(log) /\ n \in Nat
      /\ DOMAIN log = 1..Len(log) /\ n \notin DOMAIN log
      /\ \A k \in 1..m : k \in DOMAIN transactions[Primary] /\ transactions[Primary][k] = log[k]
  BY TableWithinLog, SingleContact
<1>2. /\ transactions' = transactions
      /\ assigned'[Primary] = Append(log, t)
      /\ lock'[Primary] = lock[Primary] \cup Accounts(t)
      /\ Accounts(t) \cap lock[Primary] = {}
  BY SingleContact DEF Accepted, TypeInv, TypeOK
<1>3. /\ DOMAIN assigned'[Primary] = DOMAIN log \cup {n}
      /\ \A k \in DOMAIN log : assigned'[Primary][k] = log[k]
      /\ assigned'[Primary][n] = t
  BY <1>1, <1>2
<1>4. Holding' = Holding \cup {n}
  BY <1>1, <1>2, <1>3 DEF Holding
<1>5. Holding \subseteq DOMAIN log
  BY DEF Holding
<1>6. LocksCoverPending'
  <2>1. lock'[Primary] = UNION {Accounts(assigned'[Primary][i]) : i \in Holding'}
    BY <1>2, <1>3, <1>4, <1>5 DEF LockInv, LocksCoverPending
  <2>2. \A i \in Holding : Accounts(log[i]) \cap Accounts(t) = {}
    BY <1>2, HoldingIsLocked
  <2>3. \A i, j \in Holding' : i # j =>
           Accounts(assigned'[Primary][i]) \cap Accounts(assigned'[Primary][j]) = {}
    BY <1>3, <1>4, <1>5, <2>2 DEF LockInv, LocksCoverPending
  <2> QED BY <2>1, <2>3 DEF LocksCoverPending, Accounts, Source, Destination
<1>7. RenumberedIsExecuted'
  <2>1. ASSUME NEW i \in DOMAIN log, log[i] = t
        PROVE  \E k \in DOMAIN transactions[Primary] : transactions[Primary][k] = t
    <3>1. Source(t) \in Accounts(t)
      BY DEF Accounts
    <3>2. i \notin Holding
      BY <1>2, <2>1, <3>1, HoldingIsLocked
    <3>3. i \in 1..m
      BY <1>1, <3>2 DEF Holding
    <3> QED BY <1>1, <2>1, <3>3
  <2> QED BY <1>1, <1>2, <1>3, <2>1 DEF LockInv, RenumberedIsExecuted
<1> QED BY <1>6, <1>7 DEF LockInv

LEMMA LockExecuted ==
    ASSUME TypeInv, LogInv, LockInv, NEW s \in Server, NEW t \in Tx, Executed(s, t)
    PROVE  LockInv'
<1> DEFINE log == assigned[Primary]
           tab == transactions[Primary]
           n == Len(tab) + 1
<1>1. CASE s # Primary
  BY <1>1, LocksKept, SingleContact DEF Executed, TypeInv, TypeOK
<1>2. CASE s = Primary
  <2>1. /\ log \in Seq(Tx) /\ tab \in Seq(Tx) /\ n \in Nat /\ DOMAIN log = 1..Len(log)
    BY TableWithinLog, SingleContact
  <2>2. /\ n \in DOMAIN log /\ log[n] = t
        /\ assigned' = assigned
        /\ transactions'[Primary] = Append(tab, t)
    BY <1>2, SingleContact DEF Executed, TypeInv, TypeOK
  <2>3. Len(transactions'[Primary]) = n
    BY <2>1, <2>2
  <2>4. n \in Holding
    BY <2>1, <2>2 DEF Holding
  <2>5. LocksCoverPending'
    <3>1. CASE IsTransactionCrossShard(t)
      <4>1. lock' = lock
        BY <3>1 DEF Executed
      <4>2. Holding' = Holding
        BY <2>1, <2>2, <2>3, <3>1 DEF Holding, IsTransactionCrossShard, Source, Destination
      <4> QED BY <2>2, <4>1, <4>2 DEF LockInv, LocksCoverPending, Accounts, Source, Destination
    <3>2. CASE ~IsTransactionCrossShard(t)
      <4>1. lock'[Primary] = lock[Primary] \ Accounts(t)
        BY <1>2, <3>2, SingleContact DEF Executed, TypeInv, TypeOK
      <4>2. Holding' = Holding \ {n}
        BY <2>1, <2>2, <2>3, <3>2 DEF Holding, IsTransactionCrossShard, Source, Destination
      <4>3. \A i \in Holding \ {n} : Accounts(log[i]) \cap Accounts(t) = {}
        BY <2>2, <2>4 DEF LockInv, LocksCoverPending
      <4>4. lock'[Primary] = UNION {Accounts(log[i]) : i \in Holding \ {n}}
        BY <2>2, <2>4, <4>1, <4>3 DEF LockInv, LocksCoverPending
      <4> QED BY <2>2, <4>2, <4>4
              DEF LockInv, LocksCoverPending, Accounts, Source, Destination
    <3> QED BY <3>1, <3>2
  <2>6. RenumberedIsExecuted'
    <3>1. \A k \in DOMAIN tab : k \in DOMAIN transactions'[Primary]
                                /\ transactions'[Primary][k] = tab[k]
      BY <2>1, <2>2
    <3> QED BY <2>2, <3>1 DEF LockInv, RenumberedIsExecuted
  <2> QED BY <2>5, <2>6 DEF LockInv
<1> QED BY <1>1, <1>2

LEMMA LockStep ==
    ASSUME TypeInv, LogInv, AwaitsHeldLocks, LockInv, [Next]_vars
    PROVE  LockInv'
<1>1. CASE NoMoney
  BY <1>1, LocksKept DEF NoMoney
<1>2. ASSUME NEW s \in Server, NEW t \in Tx, ExecutedTwice(s, t) PROVE LockInv'
  BY <1>2, LocksKept DEF ExecutedTwice
<1> QED BY <1>1, <1>2, MoneySteps, LockAccepted, LockExecuted

\* What these proofs know of the primary's log and of the driver.
LEMMA LogAndAwait == Spec => [](TypeInv /\ LogInv /\ AwaitsHeldLocks)
BY LogInvariant, AwaitInvariant, PTL

LEMMA LockInvariant == Spec => [](TypeInv /\ LogInv /\ AwaitsHeldLocks /\ LockInv)
<1>1. Init => LockInv
  BY LockInit
<1>2. TypeInv /\ LogInv /\ AwaitsHeldLocks /\ LockInv /\ [Next]_vars => LockInv'
  BY LockStep
<1> QED BY <1>1, <1>2, LogAndAwait, PTL DEF Spec

\* The rows locked at the contact server are exactly the accounts of the transfers that
\* it has numbered and not executed, or that count as cross-shard; and no two of these
\* transfers share an account. For any servers, workload, lost calls and lost replies.
THEOREM LocksCoverPendingHolds == Spec => []LocksCoverPending
<1>1. LockInv => LocksCoverPending
  BY DEF LockInv
<1> QED BY <1>1, LockInvariant, PTL

-----------------------------------------------------------------------------
(* Money.                                                                  *)

\* An account after a transfer.
LEMMA TransferAt ==
    ASSUME NEW bal \in [Account -> Int], NEW t \in Tx, NEW a \in Account
    PROVE  /\ Transfer(bal, t)[a] = bal[a] - (IF a = Source(t) THEN Amount(t) ELSE 0)
                                           + (IF a = Destination(t) THEN Amount(t) ELSE 0)
           /\ a \notin Accounts(t) => Transfer(bal, t)[a] = bal[a]
<1>1. Source(t) \in Account /\ Destination(t) \in Account /\ Amount(t) \in Int
  BY RequestType
<1>2. Transfer(bal, t)[a] = bal[a] - (IF a = Source(t) THEN Amount(t) ELSE 0)
                                   + (IF a = Destination(t) THEN Amount(t) ELSE 0)
  BY TransferMoves DEF Log!Moved, Source, Destination, Amount
<1> QED BY <1>1, <1>2 DEF Accounts

LEMMA MoneyInit == Init => MoneyInv
<1> SUFFICES ASSUME Init PROVE MoneyInv
  OBVIOUS
<1> DEFINE h == [k \in {0} |-> [a \in Account |-> InitialBalance]]
<1>1. assigned[Primary] = <<>> /\ transactions[Primary] = <<>>
  BY SingleContact DEF Init
<1>2. IsLedger(h)
  BY <1>1, ClusterAssumption DEF IsLedger
<1>3. BalancesFollow(h)
  BY DEF Init, BalancesFollow
<1>4. LocksReserve(h)
  BY <1>1 DEF LocksReserve, Holding
<1>5. Solvent(h)
  BY ClusterAssumption DEF Solvent
<1> QED BY <1>2, <1>3, <1>4, <1>5 DEF MoneyInv

LEMMA MoneyKept ==
    ASSUME TypeInv, NoMoney, MoneyInv
    PROVE  MoneyInv'
<1>1. PICK h : IsLedger(h) /\ BalancesFollow(h) /\ LocksReserve(h) /\ Solvent(h)
  BY DEF MoneyInv
<1>2. BalancesFollow(h)'
  BY <1>1 DEF NoMoney, BalancesFollow
<1>3. IsLedger(h)' /\ LocksReserve(h)' /\ Solvent(h)'
  BY <1>1 DEF NoMoney, IsLedger, LocksReserve, Solvent, Holding
<1> QED BY <1>2, <1>3 DEF MoneyInv

\* The accepted transfer becomes the last entry of the ledger. Its source is not locked,
\* so that it has there what the contact server has just compared with the amount.
LEMMA MoneyAccepted ==
    ASSUME TypeInv, LogInv, LockInv, MoneyInv, NEW t \in Tx, Accepted(t), Amount(t) >= 0
    PROVE  MoneyInv'
<1> DEFINE log == assigned[Primary]
           n == Len(log) + 1
           m == Len(transactions[Primary])
<1>1. /\ log \in Seq(Tx) /\ m \in Nat /\ m <= Len(log) /\ n \in Nat /\ Len(log) \in Nat
      /\ DOMAIN log = 1..Len(log)
  BY TableWithinLog, SingleContact
<1>2. /\ transactions' = transactions /\ balance' = balance
      /\ assigned'[Primary] = Append(log, t)
      /\ lock'[Primary] = lock[Primary] \cup Accounts(t)
      /\ Accounts(t) \cap lock[Primary] = {}
      /\ mu[Primary] = "free"
      /\ \A s \in Server : mu[s] = "leaked" => mu'[s] = "leaked"
  BY SingleContact DEF Accepted, TypeInv, TypeOK
<1>3. /\ DOMAIN assigned'[Primary] = DOMAIN log \cup {n}
      /\ \A k \in DOMAIN log : assigned'[Primary][k] = log[k]
      /\ assigned'[Primary][n] = t
      /\ Len(assigned'[Primary]) = n
  BY <1>1, <1>2
<1>4. PICK h : IsLedger(h) /\ BalancesFollow(h) /\ LocksReserve(h) /\ Solvent(h)
  BY DEF MoneyInv
<1>5. h \in [0..Len(log) -> [Account -> Int]]
  BY <1>4 DEF IsLedger
<1> DEFINE last == Transfer(h[Len(log)], t)
<1>6. /\ h[Len(log)] \in [Account -> Int] /\ last \in [Account -> Int]
      /\ \A a \in Account \ Accounts(t) : last[a] = h[Len(log)][a]
  <2>1. h[Len(log)] \in [Account -> Int]
    BY <1>1, <1>5
  <2> QED BY <2>1, TransferType, TransferAt
<1> HIDE DEF last
<1>p. PICK g : g = [k \in 0..n |-> IF k = n THEN last ELSE h[k]]
  OBVIOUS
<1>7. /\ g[n] = last
      /\ DOMAIN h = 0..Len(log) /\ DOMAIN g = DOMAIN h \cup {n} /\ n \notin DOMAIN h
      /\ \A k \in DOMAIN h : g[k] = h[k]
      /\ g \in [0..n -> [Account -> Int]]
  BY <1>1, <1>5, <1>6, <1>p
<1>8. IsLedger(g)'
  <2>2. \A k \in DOMAIN log : k - 1 \in DOMAIN h /\ k \in DOMAIN h
    BY <1>1, <1>7
  <2>3. n - 1 = Len(log) /\ Len(log) \in DOMAIN h /\ 0 \in DOMAIN h
    BY <1>1, <1>7
  <2>4. g[0] = [a \in Account |-> InitialBalance]
    BY <1>4, <1>7, <2>3 DEF IsLedger
  <2>5. \A k \in DOMAIN log : g[k] = Transfer(g[k - 1], log[k])
    BY <1>4, <1>7, <2>2 DEF IsLedger
  <2>6. g[n] = Transfer(g[n - 1], t)
    BY <1>7, <2>3 DEF last
  <2>7. \A k \in DOMAIN assigned'[Primary] : g[k] = Transfer(g[k - 1], assigned'[Primary][k])
    BY <1>3, <2>5, <2>6
  <2> QED BY <1>3, <1>7, <2>4, <2>7 DEF IsLedger, Transfer, Source, Destination, Amount
<1>9. BalancesFollow(g)'
  <2>1. \A s \in Server : Len(transactions[s]) \in DOMAIN h
    BY <1>1, <1>7, TableWithinLog
  <2> QED BY <1>2, <1>4, <1>7, <2>1 DEF BalancesFollow
<1>10. Holding' = Holding \cup {n} /\ Holding \subseteq DOMAIN log /\ n \notin Holding
  BY <1>1, <1>2, <1>3 DEF Holding
<1>11. LocksReserve(g)'
  <2>1. ASSUME NEW a \in Account \ lock'[Primary], NEW k \in DOMAIN g, k >= m
        PROVE  g[k][a] = g[m][a]
    <3>1. a \in Account \ lock[Primary] /\ a \notin Accounts(t) /\ m \in DOMAIN h
          /\ Len(log) \in DOMAIN h
      BY <1>1, <1>2, <1>7, <2>1
    <3>2. k \in DOMAIN h => h[k][a] = h[m][a]
      BY <1>4, <2>1, <3>1 DEF LocksReserve
    <3>3. last[a] = h[m][a]
      BY <1>1, <1>4, <1>6, <3>1 DEF LocksReserve
    <3> QED BY <1>7, <3>1, <3>2, <3>3
  <2>2. ASSUME NEW i \in Holding', NEW a \in Accounts(assigned'[Primary][i]),
               NEW k \in DOMAIN g, k >= i
        PROVE  g[k][a] = g[i][a]
    <3>1. CASE i = n
      BY <1>1, <1>7, <2>2, <3>1
    <3>2. CASE i \in Holding
      <4>1. i \in DOMAIN log /\ a \in Accounts(log[i]) /\ i \in DOMAIN h /\ i <= Len(log)
        BY <1>1, <1>3, <1>7, <1>10, <2>2, <3>2
      <4>2. a \in lock[Primary] /\ a \in Account
        BY <3>2, <4>1, HoldingIsLocked, SingleContact DEF TypeInv, TypeOK
      <4>3. a \notin Accounts(t)
        BY <1>2, <4>2
      <4>4. k \in DOMAIN h => h[k][a] = h[i][a]
        BY <1>4, <2>2, <3>2, <4>1 DEF LocksReserve
      <4>5. last[a] = h[i][a]
        <5>1. Len(log) \in DOMAIN h /\ Len(log) >= i
          BY <1>1, <1>7, <4>1
        <5>2. h[Len(log)][a] = h[i][a]
          BY <1>4, <3>2, <4>1, <5>1 DEF LocksReserve
        <5> QED BY <1>6, <4>2, <4>3, <5>2
      <4> QED BY <1>7, <4>1, <4>4, <4>5
    <3> QED BY <1>10, <3>1, <3>2
  <2> QED BY <1>2, <2>1, <2>2 DEF LocksReserve, Accounts, Source, Destination
<1>12. Solvent(g)'
  <2>1. Source(t) \in Account /\ Destination(t) \in Account /\ Amount(t) \in Int
    BY RequestType
  <2>2. balance[Primary] = h[m] /\ balance[Primary][Source(t)] >= Amount(t)
    BY <1>2, <1>4, SingleContact DEF BalancesFollow, Accepted, SufficientBalance
  <2>3. h[Len(log)][Source(t)] = h[m][Source(t)]
    <3>1. Source(t) \notin lock[Primary]
      BY <1>2 DEF Accounts
    <3>2. Len(log) \in DOMAIN h /\ Len(log) >= m
      BY <1>1, <1>7
    <3> QED BY <1>4, <2>1, <3>1, <3>2 DEF LocksReserve
  <2>4. \A a \in Account : h[Len(log)][a] >= 0 /\ h[Len(log)][a] \in Int
    <3>1. Len(log) \in DOMAIN h
      BY <1>1, <1>7
    <3> QED BY <1>4, <1>6, <3>1 DEF Solvent
  <2>5. \A a \in Account : last[a] >= 0
    <3> SUFFICES ASSUME NEW a \in Account PROVE last[a] >= 0
      OBVIOUS
    <3>1. last[a] = h[Len(log)][a] - (IF a = Source(t) THEN Amount(t) ELSE 0)
                                   + (IF a = Destination(t) THEN Amount(t) ELSE 0)
      BY <1>6, TransferAt DEF last
    <3>2. h[Len(log)][Source(t)] >= Amount(t)
      BY <2>2, <2>3
    <3> HIDE DEF log
    <3> QED BY <2>1, <2>4, <3>1, <3>2
  <2> QED BY <1>4, <1>7, <2>5 DEF Solvent
<1> QED BY <1>8, <1>9, <1>11, <1>12 DEF MoneyInv

LEMMA MoneyExecuted ==
    ASSUME TypeInv, LogInv, LockInv, MoneyInv, NEW s \in Server, NEW t \in Tx, Executed(s, t)
    PROVE  MoneyInv'
<1> DEFINE log == assigned[Primary]
           n == Len(transactions[s]) + 1
<1>1. /\ log \in Seq(Tx) /\ Len(log) \in Nat /\ DOMAIN log = 1..Len(log)
      /\ transactions[s] \in Seq(Tx) /\ n - 1 = Len(transactions[s]) /\ n \in Nat
  BY TableWithinLog
<1>2. /\ n \in DOMAIN log /\ log[n] = t
      /\ mu[s] = "executing"
      /\ transactions'[s] = Append(transactions[s], t)
      /\ balance'[s] = Transfer(balance[s], t)
      /\ \A r \in Server \ {s} : transactions'[r] = transactions[r] /\ balance'[r] = balance[r]
      /\ assigned' = assigned /\ mu' = mu
  BY DEF Executed, TypeInv, TypeOK
<1>3. Len(transactions'[s]) = n
  BY <1>1, <1>2
<1>4. PICK h : IsLedger(h) /\ BalancesFollow(h) /\ LocksReserve(h) /\ Solvent(h)
  BY DEF MoneyInv
<1>5. IsLedger(h)' /\ Solvent(h)'
  BY <1>2, <1>4 DEF IsLedger, Solvent
<1>6. BalancesFollow(h)'
  <2>1. balance[s] = h[n - 1]
    BY <1>1, <1>2, <1>4 DEF BalancesFollow
  <2>2. balance'[s] = h[n]
    BY <1>2, <1>4, <2>1 DEF IsLedger
  <2> QED BY <1>2, <1>3, <1>4, <2>2 DEF BalancesFollow
<1>7. LocksReserve(h)'
  <2>1. CASE s # Primary
    BY <1>2, <1>4, <2>1, SingleContact DEF Executed, LocksReserve, Holding, TypeInv, TypeOK
  <2>2. CASE s = Primary
    <3>1. n \in Holding /\ Accounts(t) \subseteq Account
      BY <1>1, <1>2, <2>2, RequestType DEF Holding
    <3>2. /\ Holding' \subseteq Holding
          /\ lock'[Primary] \in {lock[Primary], lock[Primary] \ Accounts(t)}
      BY <1>1, <1>2, <1>3, <2>2, SingleContact
         DEF Executed, Holding, IsTransactionCrossShard, Source, Destination, TypeInv, TypeOK
    <3>3. n \in DOMAIN h /\ n - 1 \in DOMAIN h
      BY <1>1, <1>2, <1>4 DEF IsLedger
    <3>4. ASSUME NEW a \in Account \ lock'[Primary], NEW k \in DOMAIN h, k >= n
          PROVE  h[k][a] = h[n][a]
      <4>1. CASE a \in Accounts(t)
        BY <1>2, <1>4, <3>1, <3>4, <4>1 DEF LocksReserve
      <4>2. CASE a \in Account \ lock[Primary]
        <5>1. k \in Nat
          BY <1>4, <3>4 DEF IsLedger
        <5>2. h[k][a] = h[n - 1][a] /\ h[n][a] = h[n - 1][a]
          BY <1>1, <1>4, <2>2, <3>3, <3>4, <4>2, <5>1 DEF LocksReserve
        <5> QED BY <5>2
      <4> QED BY <3>2, <3>4, <4>1, <4>2
    <3>5. \A i \in Holding' : \A a \in Accounts(log[i]) : \A k \in DOMAIN h :
             k >= i => h[k][a] = h[i][a]
      BY <1>4, <3>2 DEF LocksReserve
    <3> QED BY <1>2, <1>3, <2>2, <3>4, <3>5 DEF LocksReserve, Accounts, Source, Destination
  <2> QED BY <2>1, <2>2
<1> QED BY <1>4, <1>5, <1>6, <1>7 DEF MoneyInv

LEMMA MoneyExecutedTwice ==
    ASSUME TypeInv, LogInv, MoneyInv, NEW s \in Server, NEW t \in Tx, ExecutedTwice(s, t)
    PROVE  MoneyInv'
<1> DEFINE n == Len(transactions[s]) + 1
<1>1. PICK h : IsLedger(h) /\ BalancesFollow(h) /\ LocksReserve(h) /\ Solvent(h)
  BY DEF MoneyInv
<1>2. /\ UNCHANGED <<assigned, lock, transactions>>
      /\ mu[s] = "executing" /\ mu'[s] = "leaked"
      /\ balance'[s] \in {balance[s], Transfer(balance[s], t)}
      /\ \A r \in Server \ {s} : balance'[r] = balance[r] /\ mu'[r] = mu[r]
      /\ n \in DOMAIN assigned[Primary] /\ assigned[Primary][n] = t
  BY DEF ExecutedTwice, TypeInv, TypeOK
<1>3. IsLedger(h)' /\ LocksReserve(h)' /\ Solvent(h)'
  BY <1>1, <1>2 DEF IsLedger, LocksReserve, Solvent, Holding
<1>4. BalancesFollow(h)'
  <2>1. balance[s] = h[Len(transactions[s])]
    BY <1>1, <1>2 DEF BalancesFollow
  <2>2. n - 1 = Len(transactions[s])
    BY TableWithinLog
  <2>3. h[n] = Transfer(h[n - 1], assigned[Primary][n])
    BY <1>1, <1>2 DEF IsLedger
  <2>4. n \in DOMAIN h
    BY <1>1, <1>2, TableWithinLog DEF IsLedger
  <2> QED BY <1>1, <1>2, <2>1, <2>2, <2>3, <2>4 DEF BalancesFollow
<1> QED BY <1>1, <1>3, <1>4 DEF MoneyInv

LEMMA MoneyStep ==
    ASSUME \A t \in Tx : Amount(t) >= 0,
           TypeInv, LogInv, AwaitsHeldLocks, LockInv, MoneyInv, [Next]_vars
    PROVE  MoneyInv'
BY MoneySteps, MoneyKept, MoneyAccepted, MoneyExecuted, MoneyExecutedTwice

\* No account is overdrawn at any server, although only the contact server looks at a
\* balance and the other servers execute the transfer later: for any servers, any
\* workload without negative amounts, lost calls, lost replies and repeated requests.
THEOREM NoOverdraftHolds ==
    ASSUME \A t \in Tx : Amount(t) >= 0
    PROVE  Spec => []NoOverdraft
<1>1. Init => MoneyInv
  BY MoneyInit
<1>2. TypeInv /\ LogInv /\ AwaitsHeldLocks /\ LockInv /\ MoneyInv /\ [Next]_vars => MoneyInv'
  BY MoneyStep
<1>3. TypeInv /\ LogInv /\ MoneyInv => NoOverdraft
  <2> SUFFICES ASSUME TypeInv, LogInv, MoneyInv, NEW s \in Server, NEW a \in Account
               PROVE  balance[s][a] >= 0
    BY DEF NoOverdraft
  <2>1. PICK h : IsLedger(h) /\ BalancesFollow(h) /\ Solvent(h)
    BY DEF MoneyInv
  <2>2. Len(transactions[s]) \in DOMAIN h
    BY <2>1, TableWithinLog DEF IsLedger
  <2>3. \E k \in DOMAIN h : balance[s] = h[k]
    BY <2>1, <2>2 DEF BalancesFollow
  <2> QED BY <2>1, <2>3 DEF Solvent
<1> QED BY <1>1, <1>2, <1>3, LockInvariant, PTL DEF Spec

=============================================================================
