------------------------- MODULE PbftClusterProofs -------------------------
(***************************************************************************)
(* Theorems about PbftCluster for any servers, accounts, transfers and     *)
(* scripts: type correctness, agreement on the order of transfers, and the *)
(* implementation of TransferLog when no reply to the client is lost.      *)
(***************************************************************************)
EXTENDS PbftClusterProperties, SequenceTheorems, FiniteSetTheorems, TLAPS

-----------------------------------------------------------------------------
(* The operators the model is built from.                                  *)

LEMMA RequestType ==
    ASSUME NEW t \in Tx
    PROVE  /\ Source(t) \in Account
           /\ Destination(t) \in Account
           /\ Amount(t) \in Int
           /\ Request[t].contact \in Server
           /\ Accounts(t) \subseteq Account
           /\ ActiveServers(t) \subseteq Server
<1>1. Request[t] \in [source : Account, destination : Account, amount : Int,
                      contact : Server, active : Seq(Server), byzantine : SUBSET Server]
  BY ClusterAssumption
<1>2. ActiveServers(t) \subseteq Server
  BY <1>1, ElementOfSeq DEF ActiveServers
<1> QED BY <1>1, <1>2 DEF Source, Destination, Amount, Accounts

\* An element of a log that has been extended.
LEMMA AppendElement ==
    ASSUME NEW S, NEW q \in Seq(S), NEW x \in S, NEW i \in DOMAIN Append(q, x)
    PROVE  \/ i \in DOMAIN q /\ Append(q, x)[i] = q[i]
           \/ i = Len(q) + 1 /\ Append(q, x)[i] = x
<1>1. i \in 1..(Len(q) + 1) /\ DOMAIN q = 1..Len(q)
  BY AppendProperties
<1> QED BY <1>1, AppendProperties

LEMMA BroadcastType ==
    ASSUME NEW status \in {"pre-prepare", "prepared", "committed"}, NEW t \in Tx,
           NEW n \in Nat, NEW s \in Server, NEW serial \in Nat, NEW valid \in BOOLEAN
    PROVE  /\ Broadcast(status, t, n, s, serial, valid) \subseteq Message
           /\ \A m \in Broadcast(status, t, n, s, serial, valid) :
                 m.tx = t /\ m.sno = n /\ m.status = status
BY RequestType DEF Broadcast, Message

LEMMA ToPrimaryType ==
    ASSUME NEW status \in {"prepare", "commit"}, NEW c \in Message, NEW s \in Server
    PROVE  /\ ToPrimary(status, c, s) \subseteq Message
           /\ \A m \in ToPrimary(status, c, s) :
                 m.tx = c.tx /\ m.sno = c.sno /\ m.status = status
BY ClusterAssumption DEF ToPrimary, Message

\* The rest of a broadcast carries the same message.
LEMMA RestType ==
    ASSUME NEW c \in Message, NEW s \in Server
    PROVE  /\ Rest(c, s) \subseteq Message
           /\ \A m \in Rest(c, s) : m.tx = c.tx /\ m.sno = c.sno /\ m.status = c.status
BY DEF Rest, Message

LEMMA TransferType ==
    ASSUME NEW bal \in [Account -> Int], NEW t \in Tx
    PROVE  Transfer(bal, t) \in [Account -> Int]
BY RequestType DEF Transfer

-----------------------------------------------------------------------------
(* Type correctness.                                                       *)

LEMMA CurrentType ==
    ASSUME TypeOK, DriverOK, driver.phase # "idle"
    PROVE  Current \in Tx /\ Contact \in Server /\ Tail(script) \in Seq(Tx)
<1>1. script \in Seq(Tx) /\ script # <<>>
  BY DEF TypeOK, DriverOK
<1>2. Head(script) \in Tx /\ Tail(script) \in Seq(Tx)
  BY <1>1
<1> QED BY <1>2, RequestType DEF Current, Contact

LEMMA SendReturnsType ==
    ASSUME TypeOK, DriverOK, Calling, NEW success \in BOOLEAN, SendReturns(success)
    PROVE  script' \in Seq(Tx) /\ driver' \in DriverType /\ DriverOK'
<1> USE DEF MaxRetries, DriverType
<1>1. /\ Tail(script) \in Seq(Tx) /\ script \in Seq(Tx) /\ script # <<>>
      /\ driver \in DriverType
  BY CurrentType DEF Calling, DriverOK, TypeOK
<1>2. CASE driver' = [phase |-> "idle", retries |-> 0] /\ script' = Tail(script)
  BY <1>1, <1>2 DEF DriverOK
<1>3. CASE driver' = [driver EXCEPT !.phase = "spinning"] /\ UNCHANGED script
  BY <1>1, <1>3 DEF DriverOK
<1>4. CASE /\ driver' = [phase |-> "waiting",
                         retries |-> IF driver.phase = "retrying" THEN driver.retries + 1
                                                                  ELSE 0]
           /\ UNCHANGED script
  <2>1. driver.phase = "retrying" => driver.retries + 1 \in 0..MaxRetries
    BY <1>1 DEF DriverOK
  <2> QED BY <1>1, <1>4, <2>1 DEF DriverOK
<1> QED BY <1>2, <1>3, <1>4 DEF SendReturns

TypeInv == TypeOK /\ DriverOK

LEMMA TypeInit == Init => TypeInv
<1> SUFFICES ASSUME Init PROVE TypeInv
  OBVIOUS
<1>1. script \in Seq(Tx)
  BY ClusterAssumption DEF Init
<1>2. driver \in DriverType /\ DriverOK
  BY DEF Init, DriverType, DriverOK, MaxRetries
<1>3. \A s \in Server : IsFiniteSet(prepares[s]) /\ IsFiniteSet(commits[s])
  BY FS_EmptySet DEF Init
<1> QED BY <1>1, <1>2, <1>3, ClusterAssumption DEF Init, TypeInv, TypeOK

LEMMA TypeDrive == ASSUME TypeInv, Drive PROVE TypeInv'
<1> USE DEF TypeInv
<1>1. CASE Submit
  BY <1>1 DEF Submit, TypeOK, DriverOK, DriverType, network, handler, consensus, db
<1>2. CASE RetryTimer
  BY <1>2 DEF RetryTimer, TypeOK, DriverOK, DriverType, network, handler, consensus, db
<1>3. CASE RefuseRequest
  <2>1. script' \in Seq(Tx) /\ driver' \in DriverType /\ DriverOK'
    BY <1>3, SendReturnsType DEF RefuseRequest
  <2> QED BY <1>3, <2>1 DEF RefuseRequest, TypeOK, network, consensus, db
<1>4. CASE AwaitLocks
  BY <1>4 DEF AwaitLocks, TypeOK, DriverOK, driverVars, network, consensus, db
<1>5. CASE AcceptRequest
  <2>1. script' \in Seq(Tx) /\ driver' \in DriverType /\ DriverOK'
    BY <1>5, SendReturnsType DEF AcceptRequest
  <2>2. Current \in Tx /\ Contact \in Server
    BY <1>5, CurrentType DEF AcceptRequest, Calling
  <2>3. NextNumber(Contact) \in Nat
    BY <2>2 DEF TypeOK, NextNumber
  <2>4. calls' \in SUBSET Message
    <3>1. Broadcast("pre-prepare", Current, NextNumber(Contact), Contact, 0, TRUE)
            \subseteq Message
      BY <2>2, <2>3, BroadcastType
    <3> QED BY <1>5, <3>1, Zenon DEF AcceptRequest, TypeOK
  <2>5. lostReplies' \in Nat
    <3>1. lostReplies' = lostReplies \/ lostReplies' = lostReplies + 1
      BY <1>5, Zenon DEF AcceptRequest
    <3> QED BY <3>1 DEF TypeOK
  <2>6. /\ assigned' \in [Server -> Seq(Tx)]
        /\ lock' \in [Server -> SUBSET Account]
    BY <1>5, <2>2, RequestType DEF AcceptRequest, TypeOK
  <2> QED BY <1>5, <2>1, <2>4, <2>5, <2>6 DEF AcceptRequest, TypeOK
<1> QED BY <1>1, <1>2, <1>3, <1>4, <1>5 DEF Drive

LEMMA TypeFail == ASSUME TypeInv, Fail PROVE TypeInv'
<1> USE DEF TypeInv
<1>1. CASE ClientDialFails
  <2>1. script' \in Seq(Tx) /\ driver' \in DriverType /\ DriverOK'
    BY <1>1, SendReturnsType DEF ClientDialFails
  <2>2. drops' \in Nat
    <3>1. drops' = drops + 1
      BY <1>1, Zenon DEF ClientDialFails
    <3> QED BY <3>1 DEF TypeOK
  <2> QED BY <1>1, <2>1, <2>2, Zenon DEF ClientDialFails, TypeOK, handler, consensus, db
<1>2. ASSUME NEW s \in Server, NEW c \in calls, CallFails(c, s) PROVE TypeInv'
  <2>1. Rest(c, s) \subseteq Message
    BY RestType DEF TypeOK
  <2>2. calls' \in SUBSET Message /\ drops' \in Nat
    BY <1>2, <2>1 DEF CallFails, TypeOK
  <2> QED BY <1>2, <2>2 DEF CallFails, TypeOK, DriverOK, driverVars, handler, consensus, db
<1> QED BY <1>1, <1>2 DEF Fail

\* Every handler sends only what BroadcastType, ToPrimaryType and RestType describe.
LEMMA ReceiveType ==
    ASSUME TypeInv, NEW s \in Server, NEW c \in calls
    PROVE  /\ c \in Message /\ c.tx \in Tx /\ c.sno \in Nat /\ c.from \in Server
           /\ c.serial \in Nat
           /\ Rest(c, s) \subseteq Message
           /\ (calls \ {c}) \cup Rest(c, s) \subseteq Message
<1>1. c \in Message /\ calls \subseteq Message
  BY DEF TypeInv, TypeOK
<1>2. Rest(c, s) \subseteq Message
  BY <1>1, RestType
<1> QED BY <1>1, <1>2 DEF Message

LEMMA DecideType ==
    ASSUME TypeInv, NEW s \in Server, NEW t \in Tx, NEW n \in Nat,
           NEW rest \in SUBSET Message, Decide(s, t, n, rest)
    PROVE  /\ CommittedTransactions' \in [Server -> Seq([tx : Tx, sno : Nat])]
           /\ mu' \in [Server -> {"free", "awaiting", "executing", "deadlocked", "leaked"}]
           /\ count' \in [Server -> Nat]
           /\ resume' \in [Server -> SUBSET Message]
<1> DEFINE D == [tx : Tx, sno : Nat]
           d == [tx |-> t, sno |-> n]
<1>1. d \in D
  OBVIOUS
<1>2. CommittedTransactions' \in [Server -> Seq(D)]
  <2> HIDE DEF D, d
  <2>1. CommittedTransactions \in [Server -> Seq(D)]
    BY DEF TypeInv, TypeOK, D
  <2>2. CommittedTransactions' = [CommittedTransactions EXCEPT ![s] = Append(@, d)]
    BY DEF Decide, d
  <2> QED BY <1>1, <2>1, <2>2
<1> QED BY <1>2 DEF Decide, TypeInv, TypeOK

LEMMA TypeHandle == ASSUME TypeInv, NEW s \in Server, Handle(s) PROVE TypeInv'
<1> DEFINE Left(c) == (calls \ {c}) \cup Rest(c, s)
<1>0. ASSUME driverVars' = driverVars, TypeOK'
      PROVE  TypeInv'
  BY <1>0 DEF TypeInv, DriverOK, driverVars
<1>1. ASSUME NEW c \in calls, HandlePrePrepare(c, s) PROVE TypeInv'
  <2>1. ToPrimary("prepare", c, s) \subseteq Message
    BY ReceiveType, ToPrimaryType
  <2>2. calls' \in SUBSET Message
    BY <1>1, <2>1, ReceiveType, Zenon DEF HandlePrePrepare
  <2> QED BY <1>0, <1>1, <2>2
          DEF HandlePrePrepare, TypeInv, TypeOK, driverVars, handler, consensus, db
<1>2. ASSUME NEW c \in calls, HandlePrepare(c, s) PROVE TypeInv'
  <2> DEFINE entry == [tx |-> c.tx, sno |-> c.sno, from |-> c.from]
             received == Cardinality(Of(prepares'[s], c.tx))
  <2>1. entry \in [tx : Tx, sno : Nat, from : Server]
    BY ReceiveType
  <2>2. prepares' = [prepares EXCEPT ![s] = @ \cup {entry}]
    BY <1>2 DEF HandlePrepare
  <2>3. /\ prepares' \in [Server -> SUBSET [tx : Tx, sno : Nat, from : Server]]
        /\ \A r \in Server : IsFiniteSet(prepares'[r])
    <3> HIDE DEF entry
    <3>1. \A r \in Server : IsFiniteSet(prepares[r] \cup {entry}) /\ IsFiniteSet(prepares[r])
      BY FS_AddElement DEF TypeInv, TypeOK
    <3> QED BY <2>1, <2>2, <3>1 DEF TypeInv, TypeOK
  <2>4. received \in Nat
    BY <2>3, FS_Subset, FS_CardinalityType DEF Of
  <2>5. calls' \in SUBSET Message
    <3> HIDE DEF received
    <3>1. CASE calls' = Left(c)
      BY <3>1, ReceiveType
    <3>2. ASSUME NEW valid \in BOOLEAN,
                 calls' = Left(c) \cup Broadcast("prepared", c.tx, c.sno, s, received, valid)
          PROVE  calls' \in SUBSET Message
      BY <2>4, <3>2, ReceiveType, BroadcastType
    <3> QED BY <1>2, <3>1, <3>2, ClusterAssumption, Zenon DEF HandlePrepare, received
  <2> QED BY <1>0, <1>2, <2>3, <2>5
          DEF HandlePrepare, TypeInv, TypeOK, driverVars, handler, db
<1>3. ASSUME NEW c \in calls, HandlePrepared(c, s) PROVE TypeInv'
  <2>1. ToPrimary("commit", c, s) \subseteq Message
    BY ReceiveType, ToPrimaryType
  <2>2. calls' \in SUBSET Message
    BY <1>3, <2>1, ReceiveType, Zenon DEF HandlePrepared
  <2> QED BY <1>0, <1>3, <2>2
          DEF HandlePrepared, TypeInv, TypeOK, driverVars, handler, consensus, db
<1>4. ASSUME NEW c \in calls, HandleCommit(c, s) PROVE TypeInv'
  <2> DEFINE E == [tx : Tx, sno : Nat, from : Server, serial : Nat]
             entry == [tx |-> c.tx, sno |-> c.sno, from |-> c.from, serial |-> c.serial]
             received == Cardinality(Of(commits'[s], c.tx))
  <2>1. CASE IsByzantine(c.tx, s)
    <3>1. /\ calls' = Left(c)
          /\ UNCHANGED <<commits, CommittedTransactions, handler>>
      BY <1>4, <2>1 DEF HandleCommit
    <3>2. calls' \in SUBSET Message
      BY <3>1, ReceiveType
    <3> QED BY <1>0, <1>4, <3>1, <3>2
            DEF HandleCommit, TypeInv, TypeOK, driverVars, handler, db
  <2>2. CASE ~IsByzantine(c.tx, s)
    <3>1. entry \in E
      BY ReceiveType
    <3>2. commits' = [commits EXCEPT ![s] = @ \cup {entry}]
      BY <1>4, <2>2 DEF HandleCommit
    <3>3. /\ commits' \in [Server -> SUBSET E]
          /\ \A r \in Server : IsFiniteSet(commits'[r])
      <4>1. commits \in [Server -> SUBSET E]
        BY DEF TypeInv, TypeOK
      <4> HIDE DEF entry, E
      <4>2. \A r \in Server : IsFiniteSet(commits[r] \cup {entry}) /\ IsFiniteSet(commits[r])
        BY FS_AddElement DEF TypeInv, TypeOK
      <4> QED BY <3>1, <3>2, <4>1, <4>2
    <3>4. received \in Nat
      BY <3>3, FS_Subset, FS_CardinalityType DEF Of
    <3> HIDE DEF received, E
    <3>5. CASE HasQuorum(received)
      <4>1. /\ Decide(s, c.tx, c.sno, Rest(c, s))
            /\ \E valid \in BOOLEAN :
                  calls' = (calls \ {c})
                             \cup Broadcast("committed", c.tx, c.sno, s, received, valid)
        BY <1>4, <2>2, <3>5, ClusterAssumption, Zenon DEF HandleCommit, received
      <4>2. calls' \in SUBSET Message
        BY <4>1, <3>4, ReceiveType, BroadcastType DEF TypeInv, TypeOK
      <4>3. /\ CommittedTransactions' \in [Server -> Seq([tx : Tx, sno : Nat])]
            /\ mu' \in [Server -> {"free", "awaiting", "executing", "deadlocked", "leaked"}]
            /\ count' \in [Server -> Nat]
            /\ resume' \in [Server -> SUBSET Message]
        BY <4>1, ReceiveType, DecideType
      <4> QED BY <1>0, <1>4, <3>3, <4>2, <4>3
              DEF HandleCommit, TypeInv, TypeOK, driverVars, db, E
    <3>6. CASE ~HasQuorum(received)
      <4>1. /\ calls' = Left(c)
            /\ UNCHANGED <<CommittedTransactions, handler>>
        BY <1>4, <2>2, <3>6, Zenon DEF HandleCommit, received
      <4>2. calls' \in SUBSET Message
        BY <4>1, ReceiveType
      <4> QED BY <1>0, <1>4, <3>3, <4>1, <4>2
              DEF HandleCommit, TypeInv, TypeOK, driverVars, handler, db, E
    <3> QED BY <3>5, <3>6
  <2> QED BY <2>1, <2>2
<1>5. ASSUME NEW c \in calls, HandleCommitted(c, s) PROVE TypeInv'
  <2>1. CASE IsByzantine(c.tx, s) \/ ~c.valid
    <3>1. /\ calls' = Left(c)
          /\ UNCHANGED <<CommittedTransactions, handler>>
      BY <1>5, <2>1, Zenon DEF HandleCommitted
    <3>2. calls' \in SUBSET Message
      BY <3>1, ReceiveType
    <3> QED BY <1>0, <1>5, <3>1, <3>2
            DEF HandleCommitted, TypeInv, TypeOK, driverVars, handler, db
  <2>2. CASE ~(IsByzantine(c.tx, s) \/ ~c.valid)
    <3>1. Decide(s, c.tx, c.sno, Rest(c, s)) /\ calls' = calls \ {c}
      BY <1>5, <2>2, Zenon DEF HandleCommitted
    <3>2. /\ CommittedTransactions' \in [Server -> Seq([tx : Tx, sno : Nat])]
          /\ mu' \in [Server -> {"free", "awaiting", "executing", "deadlocked", "leaked"}]
          /\ count' \in [Server -> Nat]
          /\ resume' \in [Server -> SUBSET Message]
      BY <3>1, ReceiveType, DecideType
    <3> QED BY <1>0, <1>5, <3>1, <3>2
            DEF HandleCommitted, TypeInv, TypeOK, driverVars, db
  <2> QED BY <2>1, <2>2
<1> QED BY <1>1, <1>2, <1>3, <1>4, <1>5 DEF Handle

LEMMA CommittedType ==
    ASSUME TypeInv, NEW s \in Server, NEW i \in DOMAIN CommittedTransactions[s]
    PROVE  CommittedTransactions[s][i] \in [tx : Tx, sno : Nat]
<1>1. CommittedTransactions[s] \in Seq([tx : Tx, sno : Nat])
  BY DEF TypeInv, TypeOK
<1>2. i \in 1..Len(CommittedTransactions[s])
  BY <1>1
<1> QED BY <1>1, <1>2, ElementOfSeq

\* The loop executes a transfer of CommittedTransactions.
LEMMA NextToExecuteType ==
    ASSUME TypeInv, NEW s \in Server, NEW t \in NextToExecute(s)
    PROVE  t \in Tx
<1>1. PICK i \in Due(s) : t = CommittedTransactions[s][i].tx
  BY DEF NextToExecute
<1>2. CommittedTransactions[s][i] \in [tx : Tx, sno : Nat]
  BY CommittedType DEF Due
<1> QED BY <1>1, <1>2

LEMMA TypeExecution ==
    ASSUME TypeInv, NEW s \in Server, ExecutionStep(s)
    PROVE  TypeInv'
<1>0. ASSUME driverVars' = driverVars, TypeOK'
      PROVE  TypeInv'
  BY <1>0 DEF TypeInv, DriverOK, driverVars
<1>1. CASE SelfDeadlock(s)
  BY <1>0, <1>1 DEF SelfDeadlock, TypeInv, TypeOK, driverVars, network, consensus, db
<1>2. CASE Execute(s)
  <2>1. PICK t \in NextToExecute(s) :
          /\ balance' = [balance EXCEPT ![s] = Transfer(@, t)]
          /\ transactions' = [transactions EXCEPT ![s] = Append(@, t)]
          /\ \/ /\ wal' = [wal EXCEPT ![s] = @ \cup {t}]
                /\ UNCHANGED lock
             \/ /\ lock' = [lock EXCEPT ![s] = @ \ Accounts(t)]
                /\ UNCHANGED wal
    BY <1>2, Zenon DEF Execute
  <2>2. t \in Tx
    BY NextToExecuteType
  <2>3. balance' \in [Server -> [Account -> Int]]
    BY <2>1, <2>2, TransferType DEF TypeInv, TypeOK
  <2>4. transactions' \in [Server -> Seq(Tx)]
    BY <2>1, <2>2 DEF TypeInv, TypeOK
  <2>5. /\ wal' \in [Server -> SUBSET Tx]
        /\ lock' \in [Server -> SUBSET Account]
    <3>1. wal \in [Server -> SUBSET Tx] /\ lock \in [Server -> SUBSET Account]
      BY DEF TypeInv, TypeOK
    <3>2. CASE wal' = [wal EXCEPT ![s] = @ \cup {t}] /\ lock' = lock
      BY <2>2, <3>1, <3>2
    <3>3. CASE lock' = [lock EXCEPT ![s] = @ \ Accounts(t)] /\ wal' = wal
      BY <3>1, <3>3
    <3> QED BY <2>1, <3>2, <3>3
  <2>6. count' \in [Server -> Nat]
    BY <1>2 DEF Execute, TypeInv, TypeOK
  <2> QED BY <1>0, <1>2, <2>3, <2>4, <2>5, <2>6
          DEF Execute, TypeInv, TypeOK, driverVars, network, consensus
<1>3. CASE ExecuteAgain(s)
  <2>1. PICK t \in NextToExecute(s) :
          balance' = IF t \in wal[s] THEN balance
                     ELSE [balance EXCEPT ![s] = Transfer(@, t)]
    BY <1>3 DEF ExecuteAgain
  <2>2. balance' \in [Server -> [Account -> Int]]
    BY <2>1, NextToExecuteType, TransferType DEF TypeInv, TypeOK
  <2>3. calls' \in SUBSET Message /\ resume' \in [Server -> SUBSET Message]
    BY <1>3 DEF ExecuteAgain, ReturnError, TypeInv, TypeOK
  <2> QED BY <1>0, <1>3, <2>2, <2>3
          DEF ExecuteAgain, ReturnError, TypeInv, TypeOK, driverVars, consensus
<1>4. CASE FinishLoop(s)
  <2>1. calls' \in SUBSET Message /\ resume' \in [Server -> SUBSET Message]
    BY <1>4 DEF FinishLoop, TypeInv, TypeOK
  <2> QED BY <1>0, <1>4, <2>1 DEF FinishLoop, TypeInv, TypeOK, driverVars, db
<1> QED BY <1>1, <1>2, <1>3, <1>4 DEF ExecutionStep

LEMMA TypeStutter == ASSUME TypeInv, UNCHANGED vars PROVE TypeInv'
BY DEF TypeInv, TypeOK, DriverOK, vars, driverVars, network, handler, consensus, db

LEMMA TypeStep == ASSUME TypeInv, [Next]_vars PROVE TypeInv'
<1>1. CASE Done \/ UNCHANGED vars
  BY <1>1, TypeStutter DEF Done
<1> QED BY <1>1, TypeDrive, TypeFail, TypeHandle, TypeExecution DEF Next

\* Every variable stays within its type, and the driver is at work on a transaction
\* of its script whenever it is not idle.
THEOREM TypeCorrect == Spec => []TypeOK
<1>1. Init => TypeInv
  BY TypeInit
<1>2. TypeInv /\ [Next]_vars => TypeInv'
  BY TypeStep
<1>3. TypeInv => TypeOK
  BY DEF TypeInv
<1> QED BY <1>1, <1>2, <1>3, PTL DEF Spec

-----------------------------------------------------------------------------
(* Agreement on the order of transfers.                                    *)

\* The contact server's numbers are never taken back.
LEMMA NumbersStay ==
    ASSUME TypeInv, NEW t \in Tx, NEW n, NumberedBy(t, n),
           NEW r \in Server, NEW u \in Tx,
           \/ assigned' = assigned
           \/ assigned' = [assigned EXCEPT ![r] = Append(@, u)]
    PROVE  NumberedBy(t, n)'
<1>1. assigned \in [Server -> Seq(Tx)] /\ Primary \in Server
  BY SingleContact DEF TypeInv, TypeOK
<1>2. CASE assigned'[Primary] = assigned[Primary]
  BY <1>2 DEF NumberedBy
<1>3. CASE assigned'[Primary] = Append(assigned[Primary], u)
  <2>1. assigned[Primary] \in Seq(Tx)
    BY <1>1
  <2>2. n \in 1..Len(assigned[Primary]) /\ assigned[Primary][n] = t
    BY <2>1 DEF NumberedBy
  <2> QED BY <1>3, <2>1, <2>2 DEF NumberedBy
<1> QED BY <1>1, <1>2, <1>3

LEMMA ScriptStays ==
    ASSUME TypeInv, ScriptForPrimary, Calling, NEW success \in BOOLEAN, SendReturns(success)
    PROVE  ScriptForPrimary'
<1>1. script \in Seq(Tx) /\ script # <<>>
  BY CurrentType DEF TypeInv, TypeOK, DriverOK, Calling
<1>2. CASE script' = Tail(script)
  <2>1. \A i \in DOMAIN Tail(script) : i + 1 \in DOMAIN script /\ Tail(script)[i] = script[i + 1]
    BY <1>1
  <2> QED BY <1>2, <2>1 DEF ScriptForPrimary
<1>3. CASE script' = script
  BY <1>3 DEF ScriptForPrimary
<1> QED BY <1>2, <1>3 DEF SendReturns

LEMMA ContactIsPrimary ==
    ASSUME TypeInv, ScriptForPrimary, Calling
    PROVE  Current \in Tx /\ Contact = Primary
<1>1. script \in Seq(Tx) /\ script # <<>>
  BY DEF TypeInv, TypeOK, DriverOK, Calling
<1>2. 1 \in DOMAIN script /\ Head(script) = script[1]
  BY <1>1
<1> QED BY <1>1, <1>2, CurrentType DEF ScriptForPrimary, Current, Contact, TypeInv, Calling

LEMMA LogInit == Init => LogInv
<1> SUFFICES ASSUME Init PROVE LogInv
  OBVIOUS
<1>1. ScriptForPrimary
  BY SingleContact DEF Init, ScriptForPrimary
<1> QED BY <1>1 DEF Init, LogInv, MessagesNumbered, DecisionsNumbered, TransfersNumbered,
                    CountersMatchTable

\* Steps of the driver: only AcceptRequest makes a number, and the pre-prepare it
\* sends carries that number.
LEMMA LogDrive ==
    ASSUME TypeInv, LogInv, Drive
    PROVE  LogInv'
<1> DEFINE Same == UNCHANGED <<assigned, CommittedTransactions, transactions, resume, count,
                              MaxExecutedSno>>
<1>1. CASE Submit \/ RetryTimer
  BY <1>1 DEF Submit, RetryTimer, network, handler, consensus, db, LogInv, ScriptForPrimary,
              MessagesNumbered, DecisionsNumbered, TransfersNumbered, CountersMatchTable,
              NumberedBy
<1>2. CASE RefuseRequest \/ AwaitLocks
  <2>1. ScriptForPrimary'
    BY <1>2, ScriptStays DEF RefuseRequest, AwaitLocks, driverVars, LogInv, ScriptForPrimary
  <2>2. Same /\ calls' = calls
    BY <1>2, Zenon DEF RefuseRequest, AwaitLocks, network, consensus, db
  <2>3. \E a \in {"leaked", "awaiting"} :
          mu' = [mu EXCEPT ![Contact] = a] /\ (a = "awaiting" => mu[Contact] = "free")
    BY <1>2, Zenon DEF RefuseRequest, AwaitLocks
  <2>4. MessagesNumbered' /\ DecisionsNumbered' /\ TransfersNumbered'
    BY <2>2 DEF LogInv, MessagesNumbered, DecisionsNumbered, TransfersNumbered, NumberedBy
  <2>5. CountersMatchTable'
    BY <2>2, <2>3 DEF LogInv, CountersMatchTable, TypeInv, TypeOK
  <2> QED BY <2>1, <2>4, <2>5 DEF LogInv
<1>3. CASE AcceptRequest
  <2>1. Current \in Tx /\ Contact = Primary /\ Primary \in Server
    BY <1>3, ContactIsPrimary, SingleContact DEF AcceptRequest, LogInv
  <2>2. ScriptForPrimary'
    BY <1>3, ScriptStays DEF AcceptRequest, LogInv
  <2>3. PICK t \in Tx, n \in Nat : t = Current /\ n = Len(assigned[Primary]) + 1
    BY <2>1 DEF TypeInv, TypeOK
  <2>4. /\ UNCHANGED <<CommittedTransactions, transactions, resume, count, MaxExecutedSno>>
        /\ assigned' = [assigned EXCEPT ![Primary] = Append(@, t)]
        /\ mu' = [mu EXCEPT ![Primary] = "free"]
        /\ mu[Primary] \in {"free", "awaiting"}
        /\ calls' = calls \cup Broadcast("pre-prepare", t, n, Primary, 0, TRUE)
    BY <1>3, <2>1, <2>3, Zenon DEF AcceptRequest, NextNumber
  <2>5. NumberedBy(t, n)'
    <3>1. assigned'[Primary] = Append(assigned[Primary], t) /\ assigned[Primary] \in Seq(Tx)
      BY <2>1, <2>4 DEF TypeInv, TypeOK
    <3> QED BY <2>3, <3>1 DEF NumberedBy
  <2>6. \A u \in Tx : \A k : NumberedBy(u, k) => NumberedBy(u, k)'
    BY <2>1, <2>4, NumbersStay
  <2>7. MessagesNumbered'
    <3>1. \A c \in Broadcast("pre-prepare", t, n, Primary, 0, TRUE) : c.tx = t /\ c.sno = n
      BY DEF Broadcast
    <3>2. /\ \A c \in calls : c.tx \in Tx
          /\ \A r \in Server : \A c \in resume[r] : c.tx \in Tx
      BY DEF TypeInv, TypeOK, Message
    <3>3. \A c \in calls' : NumberedBy(c.tx, c.sno)'
      BY <2>4, <2>5, <2>6, <3>1, <3>2 DEF LogInv, MessagesNumbered
    <3>4. \A r \in Server : \A c \in resume'[r] : NumberedBy(c.tx, c.sno)'
      BY <2>4, <2>6, <3>2 DEF LogInv, MessagesNumbered
    <3> QED BY <3>3, <3>4 DEF MessagesNumbered
  <2>8. DecisionsNumbered'
    <3>1. \A r \in Server : \A i \in DOMAIN CommittedTransactions[r] :
             CommittedTransactions[r][i].tx \in Tx
      BY CommittedType
    <3> QED BY <2>4, <2>6, <3>1 DEF LogInv, DecisionsNumbered
  <2>9. TransfersNumbered'
    <3>1. \A r \in Server : \A k \in DOMAIN transactions[r] : transactions[r][k] \in Tx
      BY ElementOfSeq DEF TypeInv, TypeOK
    <3> QED BY <2>4, <2>6, <3>1 DEF LogInv, TransfersNumbered
  <2>10. CountersMatchTable'
    BY <2>1, <2>4 DEF LogInv, CountersMatchTable, TypeInv, TypeOK
  <2> QED BY <2>2, <2>7, <2>8, <2>9, <2>10 DEF LogInv
<1> QED BY <1>1, <1>2, <1>3 DEF Drive
\* A decision about a numbered transfer keeps every entry numbered, and the loop
\* starts counting at the length of the transactions table.
LEMMA LogDecide ==
    ASSUME TypeInv, LogInv, NEW s \in Server, NEW t \in Tx, NEW n \in Nat,
           NEW rest \in SUBSET Message, Decide(s, t, n, rest),
           mu[s] = "free", NumberedBy(t, n),
           \A c \in rest : NumberedBy(c.tx, c.sno),
           UNCHANGED <<assigned, transactions, MaxExecutedSno>>
    PROVE  /\ DecisionsNumbered' /\ CountersMatchTable'
           /\ \A r \in Server : \A c \in resume'[r] : NumberedBy(c.tx, c.sno)'
<1>1. \A u, k : NumberedBy(u, k) => NumberedBy(u, k)'
  BY DEF NumberedBy
<1>2. DecisionsNumbered'
  <2> DEFINE D == [tx : Tx, sno : Nat]
             d == [tx |-> t, sno |-> n]
  <2>1. CommittedTransactions' = [CommittedTransactions EXCEPT ![s] = Append(@, d)]
    BY DEF Decide
  <2>2. SUFFICES ASSUME NEW r \in Server, NEW i \in DOMAIN CommittedTransactions'[r]
                 PROVE  NumberedBy(CommittedTransactions'[r][i].tx, CommittedTransactions'[r][i].sno)
    BY <1>1 DEF DecisionsNumbered, NumberedBy
  <2>3. \/ i \in DOMAIN CommittedTransactions[r]
           /\ CommittedTransactions'[r][i] = CommittedTransactions[r][i]
        \/ CommittedTransactions'[r][i] = d
    <3>1. d \in D /\ CommittedTransactions \in [Server -> Seq(D)]
      BY DEF TypeInv, TypeOK
    <3> HIDE DEF D, d
    <3>2. CommittedTransactions'[r] \in {CommittedTransactions[r],
                                         Append(CommittedTransactions[r], d)}
      BY <2>1, <3>1
    <3>3. CommittedTransactions[r] \in Seq(D)
      BY <3>1
    <3>4. \A k \in DOMAIN Append(CommittedTransactions[r], d) :
             \/ /\ k \in DOMAIN CommittedTransactions[r]
                /\ Append(CommittedTransactions[r], d)[k] = CommittedTransactions[r][k]
             \/ Append(CommittedTransactions[r], d)[k] = d
      BY <3>1, <3>3, AppendElement, Zenon
    <3> QED BY <3>2, <3>4, Zenon
  <2> QED BY <2>3 DEF LogInv, DecisionsNumbered
<1>3. CountersMatchTable'
  BY DEF Decide, LogInv, CountersMatchTable, TypeInv, TypeOK
<1>4. \A r \in Server : \A c \in resume'[r] : NumberedBy(c.tx, c.sno)'
  BY <1>1 DEF Decide, LogInv, MessagesNumbered, TypeInv, TypeOK
<1> QED BY <1>2, <1>3, <1>4

\* Handling a message: whatever it sends, and whatever it decides, is about the
\* transfer and the number of that message.
LEMMA LogHandling ==
    ASSUME TypeInv, LogInv, NEW s \in Server, NEW c \in calls,
           \A m \in calls' : m \in calls \/ (m.tx = c.tx /\ m.sno = c.sno),
           UNCHANGED <<script, assigned, transactions, MaxExecutedSno>>,
           \/ UNCHANGED <<CommittedTransactions, handler>>
           \/ mu[s] = "free" /\ Decide(s, c.tx, c.sno, Rest(c, s))
    PROVE  LogInv'
<1>1. NumberedBy(c.tx, c.sno) /\ ScriptForPrimary'
  BY DEF LogInv, MessagesNumbered, ScriptForPrimary
<1>2. \A u, k : NumberedBy(u, k) => NumberedBy(u, k)'
  BY DEF NumberedBy
<1>3. \A m \in calls' : NumberedBy(m.tx, m.sno)'
  BY <1>1, <1>2 DEF LogInv, MessagesNumbered
<1>4. TransfersNumbered'
  BY <1>2 DEF LogInv, TransfersNumbered
<1>5. CASE UNCHANGED <<CommittedTransactions, handler>>
  BY <1>1, <1>2, <1>3, <1>4, <1>5
     DEF handler, LogInv, MessagesNumbered, DecisionsNumbered, CountersMatchTable
<1>6. CASE mu[s] = "free" /\ Decide(s, c.tx, c.sno, Rest(c, s))
  <2>1. c \in Message /\ c.tx \in Tx /\ c.sno \in Nat /\ Rest(c, s) \subseteq Message
    BY ReceiveType
  <2>2. \A m \in Rest(c, s) : NumberedBy(m.tx, m.sno)
    BY <1>1, <2>1, RestType
  <2>3. /\ DecisionsNumbered' /\ CountersMatchTable'
        /\ \A r \in Server : \A m \in resume'[r] : NumberedBy(m.tx, m.sno)'
    BY <1>1, <1>6, <2>1, <2>2, LogDecide
  <2> QED BY <1>1, <1>3, <1>4, <2>3 DEF LogInv, MessagesNumbered
<1> QED BY <1>5, <1>6

LEMMA LogHandle == ASSUME TypeInv, LogInv, NEW s \in Server, Handle(s) PROVE LogInv'
<1> DEFINE Left(c) == (calls \ {c}) \cup Rest(c, s)
           About(c, M) == \A m \in M : m \in calls \/ (m.tx = c.tx /\ m.sno = c.sno)
<1>0. ASSUME NEW c \in calls PROVE About(c, Left(c))
  BY ReceiveType, RestType
<1>b. ASSUME NEW c \in calls, NEW status, NEW serial, NEW valid
      PROVE  About(c, Broadcast(status, c.tx, c.sno, s, serial, valid))
  BY DEF Broadcast
<1>t. ASSUME NEW c \in calls, NEW status
      PROVE  About(c, ToPrimary(status, c, s))
  BY DEF ToPrimary
<1>1. ASSUME NEW c \in calls, HandlePrePrepare(c, s) PROVE LogInv'
  <2>1. calls' \in {Left(c), Left(c) \cup ToPrimary("prepare", c, s)}
    BY <1>1, Zenon DEF HandlePrePrepare
  <2>2. About(c, calls')
    BY <1>0, <1>t, <2>1, Zenon
  <2> QED BY <1>1, <2>2, LogHandling DEF HandlePrePrepare, driverVars, consensus, db
<1>2. ASSUME NEW c \in calls, HandlePrepare(c, s) PROVE LogInv'
  <2>1. \/ calls' = Left(c)
        \/ \E serial, valid :
              calls' = Left(c) \cup Broadcast("prepared", c.tx, c.sno, s, serial, valid)
    BY <1>2, Zenon DEF HandlePrepare
  <2>2. About(c, calls')
    <3>1. CASE calls' = Left(c)
      BY <1>0, <3>1, Zenon
    <3>2. ASSUME NEW serial, NEW valid,
                 calls' = Left(c) \cup Broadcast("prepared", c.tx, c.sno, s, serial, valid)
          PROVE  About(c, calls')
      BY <1>0, <1>b, <3>2
    <3> QED BY <2>1, <3>1, <3>2, Zenon
  <2> QED BY <1>2, <2>2, LogHandling DEF HandlePrepare, driverVars, db
<1>3. ASSUME NEW c \in calls, HandlePrepared(c, s) PROVE LogInv'
  <2>1. calls' \in {Left(c), Left(c) \cup ToPrimary("commit", c, s)}
    BY <1>3, Zenon DEF HandlePrepared
  <2>2. About(c, calls')
    BY <1>0, <1>t, <2>1, Zenon
  <2> QED BY <1>3, <2>2, LogHandling DEF HandlePrepared, driverVars, consensus, db
<1>4. ASSUME NEW c \in calls, HandleCommit(c, s) PROVE LogInv'
  <2>1. \/ calls' = Left(c) /\ UNCHANGED <<CommittedTransactions, handler>>
        \/ /\ Decide(s, c.tx, c.sno, Rest(c, s))
           /\ \E serial, valid :
                calls' = (calls \ {c}) \cup Broadcast("committed", c.tx, c.sno, s, serial, valid)
    BY <1>4, Zenon DEF HandleCommit
  <2>2. About(c, calls')
    <3>1. CASE calls' = Left(c)
      BY <1>0, <3>1, Zenon
    <3>2. ASSUME NEW serial, NEW valid,
                 calls' = (calls \ {c})
                            \cup Broadcast("committed", c.tx, c.sno, s, serial, valid)
          PROVE  About(c, calls')
      BY <1>b, <3>2
    <3> QED BY <2>1, <3>1, <3>2, Zenon
  <2> QED BY <1>4, <2>1, <2>2, LogHandling DEF HandleCommit, Receive, driverVars, db
<1>5. ASSUME NEW c \in calls, HandleCommitted(c, s) PROVE LogInv'
  <2>1. \/ calls' = Left(c) /\ UNCHANGED <<CommittedTransactions, handler>>
        \/ calls' = calls \ {c} /\ Decide(s, c.tx, c.sno, Rest(c, s))
    BY <1>5, Zenon DEF HandleCommitted
  <2>2. About(c, calls')
    BY <1>0, <2>1, Zenon
  <2> QED BY <1>5, <2>1, <2>2, LogHandling DEF HandleCommitted, Receive, driverVars, db
<1> QED BY <1>1, <1>2, <1>3, <1>4, <1>5 DEF Handle

LEMMA LogFail == ASSUME TypeInv, LogInv, Fail PROVE LogInv'
<1>1. CASE ClientDialFails
  <2>1. ScriptForPrimary'
    BY <1>1, ScriptStays DEF ClientDialFails, LogInv
  <2>2. UNCHANGED <<calls, handler, consensus, db>>
    BY <1>1, Zenon DEF ClientDialFails
  <2> QED BY <2>1, <2>2 DEF handler, consensus, db, LogInv, MessagesNumbered,
                            DecisionsNumbered, TransfersNumbered, CountersMatchTable, NumberedBy
<1>2. ASSUME NEW s \in Server, NEW c \in calls, CallFails(c, s) PROVE LogInv'
  <2>1. \A m \in calls' : m \in calls \/ (m.tx = c.tx /\ m.sno = c.sno)
    BY <1>2, ReceiveType, RestType DEF CallFails
  <2> QED BY <1>2, <2>1, LogHandling DEF CallFails, driverVars, handler, consensus, db
<1> QED BY <1>1, <1>2 DEF Fail

\* The transfer that is next carries the number that follows the counter.
LEMMA NextIsNumbered ==
    ASSUME TypeInv, LogInv, NEW s \in Server, NEW t \in NextToExecute(s)
    PROVE  NumberedBy(t, count[s] + 1)
<1>1. PICK i \in Due(s) : t = CommittedTransactions[s][i].tx
  BY DEF NextToExecute
<1> QED BY <1>1 DEF Due, LogInv, DecisionsNumbered

LEMMA LogExecution ==
    ASSUME TypeInv, LogInv, NEW s \in Server, ExecutionStep(s)
    PROVE  LogInv'
<1>1. \A u, k : assigned' = assigned /\ NumberedBy(u, k) => NumberedBy(u, k)'
  BY DEF NumberedBy
<1>2. ASSUME UNCHANGED <<script, assigned, CommittedTransactions>>,
             \A m \in calls' : m \in calls \cup resume[s],
             resume' \in {resume, [resume EXCEPT ![s] = {}]}
      PROVE  ScriptForPrimary' /\ MessagesNumbered' /\ DecisionsNumbered'
  BY <1>1, <1>2 DEF LogInv, ScriptForPrimary, MessagesNumbered, DecisionsNumbered, TypeInv, TypeOK
<1>3. CASE SelfDeadlock(s)
  <2>1. TransfersNumbered' /\ CountersMatchTable'
    BY <1>1, <1>3 DEF SelfDeadlock, consensus, db, LogInv, TransfersNumbered,
                      CountersMatchTable, TypeInv, TypeOK
  <2> QED BY <1>2, <1>3, <2>1 DEF SelfDeadlock, driverVars, network, consensus, LogInv
<1>4. CASE Execute(s)
  <2>1. PICK t \in NextToExecute(s) :
          transactions' = [transactions EXCEPT ![s] = Append(@, t)]
    BY <1>4, Zenon DEF Execute
  <2>2. /\ UNCHANGED <<script, assigned, CommittedTransactions, calls, mu, resume,
                       MaxExecutedSno>>
        /\ mu[s] = "executing" /\ count' = [count EXCEPT ![s] = @ + 1]
    BY <1>4, Zenon DEF Execute, InLoop, driverVars, network, consensus
  <2>3. t \in Tx /\ NumberedBy(t, count[s] + 1) /\ transactions[s] \in Seq(Tx)
    BY NextToExecuteType, NextIsNumbered DEF TypeInv, TypeOK
  <2>4. count[s] = Len(transactions[s])
    BY <2>2 DEF LogInv, CountersMatchTable
  <2>5. /\ transactions'[s] = Append(transactions[s], t)
        /\ \A r \in Server : r # s => transactions'[r] = transactions[r]
        /\ count'[s] = count[s] + 1
        /\ \A r \in Server : r # s => count'[r] = count[r]
    BY <2>1, <2>2 DEF TypeInv, TypeOK
  <2>6. TransfersNumbered'
    <3>1. \A k \in DOMAIN transactions'[s] : NumberedBy(transactions'[s][k], k)
      BY <2>3, <2>4, <2>5, AppendElement DEF LogInv, TransfersNumbered
    <3> QED BY <2>2, <2>5, <3>1 DEF LogInv, TransfersNumbered, NumberedBy
  <2>7. CountersMatchTable'
    <3>1. count'[s] = Len(transactions'[s])
      BY <2>3, <2>4, <2>5
    <3> QED BY <2>2, <2>5, <3>1 DEF LogInv, CountersMatchTable
  <2> QED BY <1>2, <2>2, <2>6, <2>7 DEF LogInv
<1>5. CASE ExecuteAgain(s)
  <2>1. /\ UNCHANGED <<script, assigned, CommittedTransactions, MaxExecutedSno, count,
                       transactions>>
        /\ mu' = [mu EXCEPT ![s] = "leaked"]
        /\ calls' = calls \cup resume[s]
        /\ resume' = [resume EXCEPT ![s] = {}]
    BY <1>5, Zenon DEF ExecuteAgain, ReturnError, driverVars, consensus
  <2>2. TransfersNumbered' /\ CountersMatchTable'
    BY <1>1, <2>1 DEF LogInv, TransfersNumbered, CountersMatchTable, TypeInv, TypeOK
  <2> QED BY <1>2, <2>1, <2>2 DEF LogInv
<1>6. CASE FinishLoop(s)
  <2>1. /\ UNCHANGED <<script, assigned, CommittedTransactions, count, transactions>>
        /\ mu[s] = "executing"
        /\ mu' = [mu EXCEPT ![s] = "free"]
        /\ MaxExecutedSno' = [MaxExecutedSno EXCEPT ![s] = count[s]]
        /\ calls' = calls \cup resume[s]
        /\ resume' = [resume EXCEPT ![s] = {}]
    BY <1>6, Zenon DEF FinishLoop, InLoop, driverVars, db
  <2>2. TransfersNumbered' /\ CountersMatchTable'
    BY <1>1, <2>1 DEF LogInv, TransfersNumbered, CountersMatchTable, TypeInv, TypeOK
  <2> QED BY <1>2, <2>1, <2>2 DEF LogInv
<1> QED BY <1>3, <1>4, <1>5, <1>6 DEF ExecutionStep

LEMMA LogInvariant == Spec => [](TypeInv /\ LogInv)
<1>1. Init => TypeInv /\ LogInv
  BY TypeInit, LogInit
<1>2. TypeInv /\ LogInv /\ [Next]_vars => (TypeInv /\ LogInv)'
  <2> SUFFICES ASSUME TypeInv, LogInv, [Next]_vars PROVE TypeInv' /\ LogInv'
    OBVIOUS
  <2>1. CASE Done \/ UNCHANGED vars
    <3>1. UNCHANGED vars
      BY <2>1 DEF Done
    <3> QED BY <3>1, TypeStutter
            DEF vars, driverVars, network, handler, consensus, db, LogInv, ScriptForPrimary,
                MessagesNumbered, DecisionsNumbered, TransfersNumbered,
                CountersMatchTable, NumberedBy
  <2>2. CASE Next /\ ~Done
    BY <2>2, TypeDrive, TypeFail, TypeHandle, TypeExecution,
       LogDrive, LogFail, LogHandle, LogExecution DEF Next
  <2> QED BY <2>1, <2>2
<1> QED BY <1>1, <1>2, PTL DEF Spec

\* Two servers never execute different transfers at one position of their tables,
\* for any number of servers, whatever messages are lost or overtake each other,
\* with lost replies, repeated requests and either kind of mutex.
THEOREM OrderAgreementHolds == Spec => []OrderAgreement
<1>1. LogInv => OrderAgreement
  BY DEF LogInv, TransfersNumbered, NumberedBy, OrderAgreement
<1> QED BY <1>1, LogInvariant, PTL

\* Nor do two servers record decisions for different transfers under one number.
THEOREM DecisionAgreementHolds == Spec => []DecisionAgreement
<1>1. LogInv => DecisionAgreement
  BY DEF LogInv, DecisionsNumbered, NumberedBy, DecisionAgreement
<1> QED BY <1>1, LogInvariant, PTL
-----------------------------------------------------------------------------
(* Implementation of TransferLog.  Its log is the primary's, and it allows *)
(* neither a second acceptance of a transfer nor money that moves without  *)
(* a record: both need that a transfer is numbered at most once, which     *)
(* holds as long as no reply to the client is lost.                        *)

LEMMA OnceInit == Init => NumberedOnce
<1>1. \A q \in Scripts : \A i, j \in DOMAIN q : q[i] = q[j] => i = j
  BY ClusterAssumption
<1> QED BY <1>1, SingleContact DEF Init, NumberedOnce

\* A call that brings no new number keeps the script, or moves on.
LEMMA OnceRefused ==
    ASSUME TypeInv, NumberedOnce, Calling, SendReturns(FALSE), lostReplies' = lostReplies,
           assigned' = assigned
    PROVE  NumberedOnce'
<1>1. script' = script /\ driver.phase # "spinning"
  BY DEF SendReturns, Calling
<1> QED BY <1>1 DEF NumberedOnce

LEMMA OnceAccepted ==
    ASSUME TypeInv, ScriptForPrimary, NumberedOnce, MaxLostReplies = 0, AcceptRequest
    PROVE  /\ NumberedOnce'
           /\ assigned'[Primary] = Append(assigned[Primary], Current)
           /\ Current \in Tx
           /\ \A i \in DOMAIN assigned[Primary] : assigned[Primary][i] # Current
<1>1. Calling /\ Current \in Tx /\ Contact = Primary /\ Primary \in Server
  BY ContactIsPrimary, SingleContact DEF AcceptRequest
<1>2. script \in Seq(Tx) /\ script # <<>> /\ assigned[Primary] \in Seq(Tx)
  BY <1>1 DEF TypeInv, TypeOK, DriverOK, Calling
<1>3. Current = script[1] /\ 1 \in DOMAIN script
  BY <1>2 DEF Current
<1>4. \A i \in DOMAIN assigned[Primary] : assigned[Primary][i] # Current
  BY <1>1, <1>3 DEF NumberedOnce, Calling
<1>5. assigned'[Primary] = Append(assigned[Primary], Current)
  <2>1. assigned' = [assigned EXCEPT ![Primary] = Append(@, Current)]
    BY <1>1, Zenon DEF AcceptRequest
  <2> QED BY <1>1, <2>1 DEF TypeInv, TypeOK
<1>6. lostReplies' = 0 /\ SendReturns(TRUE)
  <2>1. \/ SendReturns(TRUE) /\ lostReplies' = lostReplies
        \/ lostReplies < MaxLostReplies
    BY Zenon DEF AcceptRequest
  <2>2. ~(lostReplies < MaxLostReplies)
    BY DEF NumberedOnce
  <2> QED BY <2>1, <2>2, Zenon DEF NumberedOnce
<1>7. \A i \in DOMAIN assigned'[Primary] :
         \/ i \in DOMAIN assigned[Primary] /\ assigned'[Primary][i] = assigned[Primary][i]
         \/ i = Len(assigned[Primary]) + 1 /\ assigned'[Primary][i] = Current
  BY <1>1, <1>2, <1>5, AppendElement
<1>8. \A i, j \in DOMAIN assigned'[Primary] :
         assigned'[Primary][i] = assigned'[Primary][j] => i = j
  BY <1>4, <1>7 DEF NumberedOnce
<1>9. CASE script' = Tail(script)
  <2>1. \A i \in DOMAIN Tail(script) :
           /\ i + 1 \in DOMAIN script /\ i \in Nat /\ i + 1 # 1
           /\ Tail(script)[i] = script[i + 1]
    BY <1>2
  <2>2. \A i, j \in DOMAIN script' : script'[i] = script'[j] => i = j
    BY <1>9, <2>1 DEF NumberedOnce
  <2>3. \A i \in DOMAIN script' : script'[i] # Current
    BY <1>3, <1>9, <2>1 DEF NumberedOnce
  <2>4. \A i \in DOMAIN script' : \A j \in DOMAIN assigned'[Primary] :
           script'[i] # assigned'[Primary][j]
    BY <1>1, <1>7, <1>9, <2>1, <2>3 DEF NumberedOnce, Calling
  <2> QED BY <1>1, <1>4, <1>5, <1>6, <1>8, <2>2, <2>4 DEF NumberedOnce
<1>10. CASE script' = script /\ driver'.phase = "spinning"
  BY <1>1, <1>4, <1>5, <1>6, <1>8, <1>10 DEF NumberedOnce
<1>11. \/ script' = Tail(script)
       \/ script' = script /\ driver' = [driver EXCEPT !.phase = "spinning"]
  BY <1>6, Zenon DEF SendReturns
<1> QED BY <1>9, <1>10, <1>11 DEF TypeInv, TypeOK, DriverType

LEMMA OnceStep ==
    ASSUME TypeInv, ScriptForPrimary, NumberedOnce, MaxLostReplies = 0, [Next]_vars
    PROVE  NumberedOnce'
<1>1. ASSUME UNCHANGED <<driverVars, assigned>> PROVE NumberedOnce'
  BY <1>1 DEF NumberedOnce, driverVars
<1>2. CASE Submit \/ RetryTimer
  BY <1>2 DEF Submit, RetryTimer, consensus, NumberedOnce
<1>3. CASE RefuseRequest
  BY <1>3, OnceRefused, Zenon DEF RefuseRequest, consensus
<1>4. CASE AwaitLocks
  BY <1>1, <1>4 DEF AwaitLocks, consensus
<1>5. CASE AcceptRequest
  BY <1>5, OnceAccepted
<1>6. CASE ClientDialFails
  BY <1>6, OnceRefused, Zenon DEF ClientDialFails, consensus
<1>7. ASSUME NEW s \in Server, NEW c \in calls, CallFails(c, s) PROVE NumberedOnce'
  BY <1>1, <1>7 DEF CallFails, consensus
<1>8. ASSUME NEW s \in Server, Handle(s) PROVE NumberedOnce'
  <2>1. UNCHANGED driverVars /\ UNCHANGED assigned
    BY <1>8 DEF Handle, HandlePrePrepare, HandlePrepare, HandlePrepared, HandleCommit,
                HandleCommitted, consensus
  <2> QED BY <1>1, <2>1
<1>9. ASSUME NEW s \in Server, ExecutionStep(s) PROVE NumberedOnce'
  <2>1. UNCHANGED driverVars /\ UNCHANGED assigned
    BY <1>9 DEF ExecutionStep, SelfDeadlock, Execute, ExecuteAgain, FinishLoop, consensus
  <2> QED BY <1>1, <2>1
<1>10. CASE Done \/ UNCHANGED vars
  BY <1>1, <1>10 DEF Done, vars, consensus
<1> QED BY <1>2, <1>3, <1>4, <1>5, <1>6, <1>7, <1>8, <1>9, <1>10 DEF Next, Drive, Fail

\* The two updates of CommitTransactionInDB move the amount.
LEMMA TransferMoves ==
    ASSUME NEW bal \in [Account -> Int], NEW t \in Tx
    PROVE  Transfer(bal, t) = Log!Moved(bal, t)
<1>1. Source(t) \in Account /\ Destination(t) \in Account /\ Amount(t) \in Int
  BY RequestType
<1>2. Log!Moved(bal, t) =
         [a \in Account |-> bal[a] - (IF a = Source(t) THEN Amount(t) ELSE 0)
                                  + (IF a = Destination(t) THEN Amount(t) ELSE 0)]
  BY DEF Log!Moved, Source, Destination, Amount
<1>3. ASSUME NEW a \in Account
      PROVE  Transfer(bal, t)[a] = bal[a] - (IF a = Source(t) THEN Amount(t) ELSE 0)
                                         + (IF a = Destination(t) THEN Amount(t) ELSE 0)
  <2> DEFINE debited == [bal EXCEPT ![Source(t)] = @ - Amount(t)]
  <2>1. Transfer(bal, t) = [debited EXCEPT ![Destination(t)] = @ + Amount(t)]
    BY DEF Transfer
  <2>2. /\ debited \in [Account -> Int]
        /\ debited[a] = bal[a] - (IF a = Source(t) THEN Amount(t) ELSE 0)
    BY <1>1
  <2> HIDE DEF debited
  <2>3. Transfer(bal, t)[a] = debited[a] + (IF a = Destination(t) THEN Amount(t) ELSE 0)
    BY <1>1, <2>1, <2>2
  <2> QED BY <2>2, <2>3
<1> QED BY <1>2, <1>3, TransferType

\* No transfer is due a second time.
LEMMA NothingTwice ==
    ASSUME TypeInv, LogInv, NumberedOnce, NEW s \in Server, mu[s] = "executing",
           NEW t \in NextToExecute(s), NEW k \in DOMAIN transactions[s]
    PROVE  transactions[s][k] # t
<1>1. NumberedBy(t, count[s] + 1) /\ NumberedBy(transactions[s][k], k)
  BY NextIsNumbered DEF LogInv, TransfersNumbered
<1>2. k \in 1..count[s] /\ count[s] \in Nat
  BY DEF LogInv, CountersMatchTable, TypeInv, TypeOK
<1>3. k # count[s] + 1
  BY <1>2
<1> QED BY <1>1, <1>3 DEF NumberedBy, NumberedOnce

LEMMA ExecuteApplies ==
    ASSUME TypeInv, LogInv, NEW s \in Server, Execute(s)
    PROVE  Log!Apply(s)
<1>1. PICK t \in NextToExecute(s) :
        /\ balance' = [balance EXCEPT ![s] = Transfer(@, t)]
        /\ transactions' = [transactions EXCEPT ![s] = Append(@, t)]
  BY Zenon DEF Execute
<1>2. mu[s] = "executing" /\ assigned' = assigned
  BY Zenon DEF Execute, InLoop, consensus
<1>3. t \in Tx /\ NumberedBy(t, count[s] + 1) /\ count[s] = Len(transactions[s])
  BY <1>2, NextToExecuteType, NextIsNumbered DEF LogInv, CountersMatchTable
<1>4. assigned[Primary] \in Seq(Tx) /\ transactions[s] \in Seq(Tx)
  BY SingleContact DEF TypeInv, TypeOK
<1>5. /\ Len(transactions[s]) < Len(assigned[Primary])
      /\ assigned[Primary][Len(transactions[s]) + 1] = t
  BY <1>3, <1>4 DEF NumberedBy
<1>6. balance' = [balance EXCEPT ![s] = Log!Moved(@, t)]
  BY <1>1, <1>3, TransferMoves DEF TypeInv, TypeOK
<1> QED BY <1>1, <1>2, <1>5, <1>6 DEF Log!Apply

LEMMA StepImplements ==
    ASSUME TypeInv, LogInv, NumberedOnce, MaxLostReplies = 0, [Next]_vars
    PROVE  [Log!Next]_(Log!vars)
<1>1. ASSUME UNCHANGED <<assigned, transactions, balance>> PROVE UNCHANGED Log!vars
  BY <1>1 DEF Log!vars
<1>2. CASE Submit \/ RetryTimer \/ RefuseRequest \/ AwaitLocks
  BY <1>1, <1>2, Zenon DEF Submit, RetryTimer, RefuseRequest, AwaitLocks, consensus, db
<1>3. CASE AcceptRequest
  <2>1. Log!Accept(Current)
    BY <1>3, OnceAccepted DEF AcceptRequest, LogInv, Log!Accept
  <2> QED BY <1>3, <2>1, OnceAccepted DEF LogInv, Log!Next
<1>4. CASE Fail
  BY <1>1, <1>4, Zenon DEF Fail, ClientDialFails, CallFails, consensus, db
<1>5. ASSUME NEW s \in Server, Handle(s) PROVE UNCHANGED Log!vars
  <2>1. UNCHANGED assigned /\ UNCHANGED db
    BY <1>5 DEF Handle, HandlePrePrepare, HandlePrepare, HandlePrepared, HandleCommit,
                HandleCommitted, consensus
  <2> QED BY <1>1, <2>1 DEF db
<1>6. ASSUME NEW s \in Server, ExecutionStep(s) PROVE [Log!Next]_(Log!vars)
  <2>1. CASE SelfDeadlock(s) \/ FinishLoop(s)
    BY <1>1, <2>1, Zenon DEF SelfDeadlock, FinishLoop, consensus, db
  <2>2. CASE Execute(s)
    BY <2>2, ExecuteApplies DEF Log!Next
  <2>3. CASE ExecuteAgain(s)
    BY <2>3, NothingTwice DEF ExecuteAgain, InLoop
  <2> QED BY <1>6, <2>1, <2>2, <2>3 DEF ExecutionStep
<1>7. CASE Done \/ UNCHANGED vars
  BY <1>1, <1>7 DEF Done, vars, consensus, db
<1> QED BY <1>2, <1>3, <1>4, <1>5, <1>6, <1>7 DEF Next, Drive

\* As long as no reply to the client is lost, the cluster is a replicated log: it
\* accepts every transfer at most once, and every server applies the transfers in
\* the order of the primary's numbers, money and record together. Dials may fail,
\* signatures may be refused, handlers may stop for ever with s.mu in hand.
THEOREM ClusterImplementsLog ==
    ASSUME MaxLostReplies = 0
    PROVE  Spec => ImplementsLog
<1>1. Init => Log!Init
  BY SingleContact DEF Init, Log!Init
<1>2. Init => NumberedOnce
  BY OnceInit
<1>3. TypeInv /\ LogInv /\ NumberedOnce /\ [Next]_vars => NumberedOnce'
  BY OnceStep DEF LogInv
<1>4. TypeInv /\ LogInv /\ NumberedOnce /\ [Next]_vars => [Log!Next]_(Log!vars)
  BY StepImplements
<1> QED BY <1>1, <1>2, <1>3, <1>4, LogInvariant, PTL DEF Spec, ImplementsLog, Log!Spec
-----------------------------------------------------------------------------
(* Polling of the row locks never ends.                                    *)

\* The step of a handler that does not poll changes neither the locks nor the
\* driver of a server that does.
LEMMA AwaitKept ==
    ASSUME TypeInv, AwaitsHeldLocks, UNCHANGED <<script, driver>>,
           \A r \in Server : mu'[r] = "awaiting" =>
               mu[r] = "awaiting" /\ lock'[r] = lock[r]
    PROVE  AwaitsHeldLocks'
BY DEF AwaitsHeldLocks, Calling, Contact, Current

LEMMA AwaitDrive == ASSUME TypeInv, AwaitsHeldLocks, Drive PROVE AwaitsHeldLocks'
<1>1. CASE Submit \/ RetryTimer
  <2>1. ~Calling /\ mu' = mu
    BY <1>1 DEF Submit, RetryTimer, Calling, handler
  <2> QED BY <2>1 DEF AwaitsHeldLocks
<1>2. CASE RefuseRequest \/ AcceptRequest
  <2>1. PICK a \in {"leaked", "free"} : mu' = [mu EXCEPT ![Contact] = a]
    BY <1>2, Zenon DEF RefuseRequest, AcceptRequest
  <2> QED BY <2>1 DEF AwaitsHeldLocks, TypeInv, TypeOK
<1>3. CASE AwaitLocks
  <2>1. /\ Calling /\ mu' = [mu EXCEPT ![Contact] = "awaiting"]
        /\ UNCHANGED <<script, driver, lock>>
        /\ Accounts(Current) \cap lock[Contact] # {}
    BY <1>3, Zenon DEF AwaitLocks, RowsLocked, driverVars, db
  <2> QED BY <2>1 DEF AwaitsHeldLocks, Calling, Contact, Current, TypeInv, TypeOK
<1> QED BY <1>1, <1>2, <1>3 DEF Drive

LEMMA AwaitStep == ASSUME TypeInv, AwaitsHeldLocks, [Next]_vars PROVE AwaitsHeldLocks'
<1>1. CASE ClientDialFails
  BY <1>1, Zenon DEF ClientDialFails, handler, AwaitsHeldLocks
<1>2. ASSUME NEW s \in Server, NEW c \in calls, CallFails(c, s) PROVE AwaitsHeldLocks'
  BY <1>2, AwaitKept DEF CallFails, driverVars, handler, db
<1>3. ASSUME NEW s \in Server, Handle(s) PROVE AwaitsHeldLocks'
  <2>1. UNCHANGED driverVars /\ UNCHANGED db
    BY <1>3 DEF Handle, HandlePrePrepare, HandlePrepare, HandlePrepared, HandleCommit,
                HandleCommitted
  <2>2. mu' = mu \/ mu' = [mu EXCEPT ![s] = "executing"]
    BY <1>3, Zenon DEF Handle, HandlePrePrepare, HandlePrepare, HandlePrepared,
                       HandleCommit, HandleCommitted, Decide, handler
  <2> QED BY <2>1, <2>2, AwaitKept DEF driverVars, db, TypeInv, TypeOK
<1>4. ASSUME NEW s \in Server, ExecutionStep(s) PROVE AwaitsHeldLocks'
  <2>1. mu[s] = "executing" /\ UNCHANGED driverVars
    BY <1>4 DEF ExecutionStep, SelfDeadlock, Execute, ExecuteAgain, FinishLoop, InLoop
  <2>2. \/ mu' = mu
        \/ \E a \in {"deadlocked", "leaked", "free"} : mu' = [mu EXCEPT ![s] = a]
    BY <1>4, Zenon DEF ExecutionStep, SelfDeadlock, Execute, ExecuteAgain, FinishLoop,
                       ReturnError
  <2>3. lock' = lock \/ \E A : lock' = [lock EXCEPT ![s] = A]
    BY <1>4, Zenon DEF ExecutionStep, SelfDeadlock, Execute, ExecuteAgain, FinishLoop, db
  <2> QED BY <2>1, <2>2, <2>3, AwaitKept DEF driverVars, TypeInv, TypeOK
<1>5. CASE Done \/ UNCHANGED vars
  BY <1>5, AwaitKept DEF Done, vars, driverVars, handler, db
<1> QED BY <1>1, <1>2, <1>3, <1>4, <1>5, AwaitDrive DEF Next, Fail

LEMMA AwaitInvariant == Spec => [](TypeInv /\ AwaitsHeldLocks)
<1>1. Init => TypeInv /\ AwaitsHeldLocks
  BY TypeInit DEF Init, AwaitsHeldLocks
<1>2. TypeInv /\ AwaitsHeldLocks /\ [Next]_vars => (TypeInv /\ AwaitsHeldLocks)'
  BY TypeStep, AwaitStep
<1> QED BY <1>1, <1>2, PTL DEF Spec

\* A client request that meets a locked row is never answered, and its server
\* handles nothing any more: nobody else can release the lock.
THEOREM AwaitingNeverEnds == Spec => AwaitingIsForever
<1>1. ASSUME TypeInv, AwaitsHeldLocks, [Next]_vars, NEW s \in Server, mu[s] = "awaiting"
      PROVE  mu'[s] = "awaiting"
  <2>1. /\ Calling /\ s = Contact /\ Accounts(Current) \cap lock[s] # {}
        /\ mu[s] \notin {"free", "executing"}
    BY <1>1 DEF AwaitsHeldLocks
  <2>2. CASE Drive
    BY <2>1, <2>2, Zenon DEF Drive, Submit, RetryTimer, RefuseRequest, AwaitLocks, AcceptRequest,
                      RowsLocked, Calling, handler, Contact, Current
  <2>3. CASE Fail
    BY <1>1, <2>3, Zenon DEF Fail, ClientDialFails, CallFails, handler
  <2>4. ASSUME NEW r \in Server, Handle(r) PROVE mu'[s] = "awaiting"
    <3>1. \/ mu' = mu
          \/ mu[r] = "free" /\ mu' = [mu EXCEPT ![r] = "executing"]
      BY <2>4, Zenon DEF Handle, HandlePrePrepare, HandlePrepare, HandlePrepared,
                         HandleCommit, HandleCommitted, Receive, Decide, handler
    <3> QED BY <1>1, <3>1 DEF TypeInv, TypeOK
  <2>5. ASSUME NEW r \in Server, ExecutionStep(r) PROVE mu'[s] = "awaiting"
    <3>1. mu[r] = "executing"
      BY <2>5 DEF ExecutionStep, SelfDeadlock, Execute, ExecuteAgain, FinishLoop, InLoop
    <3>2. \/ mu' = mu
          \/ \E a \in {"deadlocked", "leaked", "free"} : mu' = [mu EXCEPT ![r] = a]
      BY <2>5, Zenon DEF ExecutionStep, SelfDeadlock, Execute, ExecuteAgain, FinishLoop,
                         ReturnError
    <3> QED BY <1>1, <3>1, <3>2 DEF TypeInv, TypeOK
  <2>6. CASE Done \/ UNCHANGED vars
    BY <1>1, <2>6 DEF Done, vars, handler
  <2> QED BY <1>1, <2>2, <2>3, <2>4, <2>5, <2>6 DEF Next
<1>2. TypeInv /\ AwaitsHeldLocks /\ [Next]_vars =>
         \A s \in Server : mu[s] = "awaiting" => mu'[s] = "awaiting"
  BY <1>1
<1> QED BY <1>2, AwaitInvariant, PTL DEF Spec, AwaitingIsForever

=============================================================================
