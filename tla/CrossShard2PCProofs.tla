------------------------ MODULE CrossShard2PCProofs ------------------------
(***************************************************************************)
(* Theorems about CrossShard2PC, for all servers, clusters, transfers and  *)
(* numbers of faults.                                                      *)
(***************************************************************************)
EXTENDS CrossShard2PCProperties, CollectionProofs

-----------------------------------------------------------------------------
(* Types.                                                                  *)

\* What a transfer asks for.
LEMMA RequestType ==
    ASSUME NEW t \in Tx
    PROVE  /\ Source(t) \in Account /\ Destination(t) \in Account /\ Amount(t) \in Int
           /\ Request[t].contact \in Server
           /\ Request[t].sourceActive \in Seq(Server)
           /\ Request[t].destinationActive \in Seq(Server)
           /\ Distinct(Request[t].destinationActive)
BY CrossShardAssumption DEF Source, Destination, Amount, Distinct

LEMMA LeaderType ==
    ASSUME NEW s \in Server
    PROVE  LeaderOf[s] \in Server /\ Leader(LeaderOf[s])
BY CrossShardAssumption DEF Leader

\* The servers but one are a list of servers.
LEMMA OthersType ==
    ASSUME NEW list \in Seq(Server), NEW s
    PROVE  Others(list, s) \in Seq(Server)
<1>1. Keep(list, Server \ {s}) \in Seq(Server \cap (Server \ {s}))
  BY KeepElements
<1> QED BY <1>1 DEF Others

\* While main calls, there is a transfer it calls for.
LEMMA CurrentType ==
    ASSUME TypeOK, ControlInv, driver.phase # "idle"
    PROVE  /\ script # <<>> /\ Current \in Tx /\ Contact \in Server
           /\ Tail(script) \in Seq(Tx)
<1>1. script \in Seq(Tx) /\ script # <<>>
  BY DEF TypeOK, ControlInv
<1>2. Current \in Tx /\ Tail(script) \in Seq(Tx)
  BY <1>1 DEF Current
<1> QED BY <1>1, <1>2, RequestType DEF Contact

\* A goroutine whose call has returned is a goroutine or gone.
LEMMA ReturnedType ==
    ASSUME TypeOK, NEW p \in SenderType, p.to # <<>>
    PROVE  Returned(p) \subseteq SenderType
<1>1. [p EXCEPT !.to = Tail(@)] \in SenderType
  <2>1. Tail(p.to) \in Seq(Server)
    BY DEF SenderType
  <2> QED BY <2>1 DEF SenderType
<1>2. Advance(p) \subseteq SenderType
  BY <1>1 DEF Advance
<1> QED BY <1>2 DEF Returned, TypeOK

\* After a failed attempt main has a legal state again.
LEMMA FailsType ==
    ASSUME TypeOK, ControlInv, driver.phase = "calling", Fails \/ Succeeds
    PROVE  /\ script' \in Seq(Tx)
           /\ driver' \in [phase : {"idle", "calling", "waiting"}, retries : 0..(MaxRetries - 1)]
           /\ driver'.phase # "idle" => script' # <<>>
           /\ script' = script \/ script' = Tail(script)
<1>1. script \in Seq(Tx) /\ script # <<>> /\ Tail(script) \in Seq(Tx)
  BY CurrentType DEF TypeOK
<1>2. driver.retries \in 0..2
  BY DEF TypeOK, MaxRetries
<1>3. CASE NextTransfer
  BY <1>1, <1>3 DEF NextTransfer, MaxRetries
<1>4. CASE /\ driver.retries + 1 < 3
           /\ driver' = [phase |-> "waiting", retries |-> driver.retries + 1]
           /\ script' = script
  <2>1. driver.retries + 1 \in 0..2
    BY <1>2, <1>4
  <2> QED BY <1>1, <1>4, <2>1 DEF MaxRetries
<1>5. \/ NextTransfer
      \/ /\ driver.retries + 1 < 3
         /\ driver' = [phase |-> "waiting", retries |-> driver.retries + 1]
         /\ script' = script
  BY DEF Fails, Succeeds, RetriesLeft, MaxRetries
<1> QED BY <1>3, <1>4, <1>5


LEMMA TypeStep ==
    ASSUME TypeOK, ControlInv, ServingInv, [Next]_vars
    PROVE  TypeOK'
<1> USE DEF client, process, handler, cluster, db
<1>1. CASE Submit
  <2>1. driver' \in [phase : {"idle", "calling", "waiting"}, retries : 0..(MaxRetries - 1)]
    BY <1>1 DEF Submit, TypeOK
  <2> QED BY <1>1, <2>1 DEF Submit, TypeOK
<1>2. CASE RetryTimer
  <2>1. driver' \in [phase : {"idle", "calling", "waiting"}, retries : 0..(MaxRetries - 1)]
    BY <1>2 DEF RetryTimer, TypeOK
  <2> QED BY <1>2, <2>1 DEF RetryTimer, TypeOK
<1>3. CASE ClientDialFails
  <2>1. /\ script' \in Seq(Tx)
        /\ driver' \in [phase : {"idle", "calling", "waiting"}, retries : 0..(MaxRetries - 1)]
    BY <1>3, FailsType DEF ClientDialFails, Calling
  <2>2. drops' \in Nat /\ lostReplies' \in Nat /\ drops' + lostReplies' <= MaxFaults
    BY <1>3, CrossShardAssumption DEF ClientDialFails, TypeOK
  <2> QED BY <1>3, <2>1, <2>2 DEF ClientDialFails, TypeOK
<1>4. CASE RejectSignature
  BY <1>4 DEF RejectSignature, TypeOK
<1>5. CASE RefuseTransfer
  <2>1. /\ script' \in Seq(Tx)
        /\ driver' \in [phase : {"idle", "calling", "waiting"}, retries : 0..(MaxRetries - 1)]
    BY <1>5, FailsType DEF RefuseTransfer, Calling
  <2> QED BY <1>5, <2>1 DEF RefuseTransfer, TypeOK
<1>6. CASE PollSource
  BY <1>6 DEF PollSource, TypeOK
<1>7. CASE StartPrepare
  <2>1. Current \in Tx /\ Contact \in Server
    BY <1>7, CurrentType DEF StartPrepare, CanStart, Calling
  <2> DEFINE n == Sender("2PCprepare", Current, driver.retries,
                  transactions[Contact] # {} \/ \E t \in Tx : certified[Contact][t] > 0,
                  Others(Request[Current].destinationActive, Contact))
  <2>2. n \in SenderType
    <3>1. Others(Request[Current].destinationActive, Contact) \in Seq(Server)
      BY <2>1, RequestType, OthersType
    <3>2. driver.retries \in 0..(MaxRetries - 1)
      BY DEF TypeOK
    <3> QED BY <2>1, <3>1, <3>2 DEF Sender, SenderType
  <2>3. senders' = senders \cup {n}
    BY <1>7 DEF StartPrepare
  <2> HIDE DEF n
  <2>4. senders' \subseteq SenderType
    BY <2>2, <2>3 DEF TypeOK
  <2>5. lock' \in [Server -> SUBSET Account]
    <3>1. lock' = [lock EXCEPT ![Contact] = @ \cup {Source(Current)}]
      BY <1>7 DEF StartPrepare
    <3> QED BY <2>1, <3>1, RequestType DEF TypeOK
  <2> QED BY <1>7, <2>4, <2>5 DEF StartPrepare, TypeOK
<1>8. ASSUME AnswerInTime \/ PrepareTimeout PROVE TypeOK'
  <2>1. Current \in Tx /\ Contact \in Server
    BY <1>8, CurrentType DEF AnswerInTime, PrepareTimeout, ControlInv
  <2>2. PICK d \in {"2PCcommit", "2PCabort"} : Decide(d)
    BY <1>8 DEF AnswerInTime, PrepareTimeout
  <2>3. senders' \subseteq senders
    BY <1>8 DEF AnswerInTime, PrepareTimeout
  <2>4. Others(Request[Current].sourceActive, Contact) \in Seq(Server)
    BY <2>1, RequestType, OthersType
  <2>5. left' \in [Server -> Seq(Server)]
    BY <2>2, <2>4 DEF Decide, TypeOK
  <2>6. decided' \in [Tx -> SUBSET {"2PCcommit", "2PCabort"}]
    BY <2>2 DEF Decide, TypeOK
  <2>7. alive' = alive /\ UNCHANGED <<drops, lostReplies>>
    BY <2>2 DEF Decide
  <2> QED BY <2>2, <2>3, <2>5, <2>6, <2>7 DEF Decide, TypeOK
<1>9. CASE Answer
  <2>1. Current \in Tx /\ Contact \in Server
    BY <1>9, CurrentType DEF Answer, ControlInv
  <2>2. DecisionSender(coord) \subseteq SenderType
    <3>1. Others(Request[Current].destinationActive, Contact) \in Seq(Server)
      BY <2>1, RequestType, OthersType
    <3>2. driver.retries \in 0..(MaxRetries - 1)
      BY DEF TypeOK
    <3>3. Sender(coord, Current, driver.retries, FALSE,
                 Others(Request[Current].destinationActive, Contact)) \in SenderType
      BY <1>9, <2>1, <3>1, <3>2 DEF Sender, SenderType, Answer
    <3> QED BY <3>3 DEF DecisionSender
  <2>3. senders' \subseteq SenderType
    BY <1>9, <2>2 DEF Answer, TypeOK
  <2>4. Fails \/ Succeeds
    BY <1>9 DEF Answer, ReportsSuccess
  <2>5. /\ script' \in Seq(Tx)
        /\ driver' \in [phase : {"idle", "calling", "waiting"}, retries : 0..(MaxRetries - 1)]
    BY <1>9, <2>4, FailsType DEF Answer, ControlInv
  <2>6. lock' \in [Server -> SUBSET Account]
    BY <1>9 DEF Answer, TypeOK
  <2>7. drops' \in Nat /\ lostReplies' \in Nat /\ drops' + lostReplies' <= MaxFaults
    BY <1>9, CrossShardAssumption DEF Answer, TypeOK
  <2> QED BY <1>9, <2>3, <2>5, <2>6, <2>7 DEF Answer, TypeOK
<1>10. ASSUME NEW s \in Server, CallNext(s) PROVE TypeOK'
  <2>1. Tail(left[s]) \in Seq(Server)
    BY <1>10 DEF CallNext, CallsLeft, TypeOK
  <2>2. left' \in [Server -> Seq(Server)]
    BY <1>10, <2>1 DEF CallNext, TypeOK
  <2> QED BY <1>10, <2>2 DEF CallNext, TypeOK
<1>11. ASSUME NEW s \in Server, SkipNext(s) PROVE TypeOK'
  <2>1. Tail(left[s]) \in Seq(Server)
    BY <1>11 DEF SkipNext, CallsLeft, TypeOK
  <2>2. left' \in [Server -> Seq(Server)]
    BY <1>11, <2>1 DEF SkipNext, TypeOK
  <2>3. drops' \in Nat /\ lostReplies' \in Nat /\ drops' + lostReplies' <= MaxFaults
    BY <1>11, CrossShardAssumption DEF SkipNext, TypeOK
  <2> QED BY <1>11, <2>2, <2>3 DEF SkipNext, TypeOK
<1>12. ASSUME NEW p \in senders, CallFails(p) PROVE TypeOK'
  <2>1. senders' \subseteq SenderType
    BY <1>12, ReturnedType DEF CallFails, TypeOK
  <2>2. drops' \in Nat /\ lostReplies' \in Nat /\ drops' + lostReplies' <= MaxFaults
    BY <1>12, CrossShardAssumption DEF CallFails, TypeOK
  <2> QED BY <1>12, <2>1, <2>2 DEF CallFails, TypeOK
<1>13. ASSUME NEW p \in senders, PrepareWithoutKeys(p) PROVE TypeOK'
  BY <1>13 DEF PrepareWithoutKeys, TypeOK
<1>14. ASSUME NEW p \in senders, ReplyAck(p) PROVE TypeOK'
  <2>1. senders' \subseteq SenderType
    BY <1>14, ReturnedType DEF ReplyAck, Receives, TypeOK
  <2> QED BY <1>14, <2>1 DEF ReplyAck, TypeOK
<1>15. ASSUME NEW p \in senders, PollReceiver(p) PROVE TypeOK'
  <2>1. {p} \in SUBSET SenderType
    BY DEF TypeOK
  <2> QED BY <1>15, <2>1 DEF PollReceiver, TypeOK
<1>16. ASSUME NEW p \in senders, AcceptPrepare(p) PROVE TypeOK'
  <2>1. p \in SenderType /\ p.tx \in Tx /\ p.to \in Seq(Server) /\ p.to # <<>>
    BY <1>16 DEF AcceptPrepare, CanPrepare, Receives, TypeOK, SenderType
  <2> DEFINE s == Callee(p)
  <2>2. s \in Server
    BY <2>1 DEF Callee
  <2>3. /\ lock' = [lock EXCEPT ![s] = @ \cup {Destination(p.tx)}]
        /\ assigned' = [assigned EXCEPT ![s] = Append(@, p.tx)]
        /\ mu' = [mu EXCEPT ![s] = "participating"]
        /\ serving' = [serving EXCEPT ![s] = {p}]
        /\ left' = [left EXCEPT ![s] = Others(Request[p.tx].destinationActive, s)]
    BY <1>16 DEF AcceptPrepare
  <2> HIDE DEF s
  <2>4. Others(Request[p.tx].destinationActive, s) \in Seq(Server)
    BY <2>1, RequestType, OthersType
  <2>5. left' \in [Server -> Seq(Server)]
    BY <2>3, <2>4 DEF TypeOK
  <2>6. lock' \in [Server -> SUBSET Account]
    <3>1. lock \in [Server -> SUBSET Account]
      BY DEF TypeOK
    <3> QED BY <2>1, <2>3, <3>1, RequestType
  <2>7. assigned' \in [Server -> Seq(Tx)]
    <3>1. Append(assigned[s], p.tx) \in Seq(Tx)
      BY <2>1, <2>2 DEF TypeOK
    <3> QED BY <2>3, <3>1 DEF TypeOK
  <2>8. serving' \in [Server -> SUBSET SenderType]
    BY <2>1, <2>3 DEF TypeOK
  <2>9. mu' \in [Server -> {"free", "polling", "coordinating", "participating", "leaked"}]
    BY <2>3 DEF TypeOK
  <2> QED BY <1>16, <2>5, <2>6, <2>7, <2>8, <2>9 DEF AcceptPrepare, TypeOK
<1>17. ASSUME NEW s \in Server, FinishPrepare(s) PROVE TypeOK'
  <2>1. PICK p \in serving[s] : senders' = Returned(p)
    BY <1>17 DEF FinishPrepare
  <2>2. p \in SenderType /\ p.to # <<>>
    BY <2>1 DEF ServingInv, TypeOK
  <2>3. senders' \subseteq SenderType
    BY <2>1, <2>2, ReturnedType
  <2> QED BY <1>17, <2>3 DEF FinishPrepare, TypeOK
<1>18. ASSUME NEW s \in Server, NEW t \in Tx, Execute(s, t) \/ ExecuteAgain(s, t) PROVE TypeOK'
  <2>1. /\ DOMAIN balance' = Server
        /\ \A r \in Server : balance'[r] \in [{a \in Account : Stores(r, a)} -> Int]
    <3>1. \/ balance' = [balance EXCEPT ![s][Destination(t)] = @ + Amount(t)]
          \/ balance' = balance
      BY <1>18 DEF Execute, ExecuteAgain
    <3>2. Amount(t) \in Int
      BY RequestType
    <3>3. /\ DOMAIN balance = Server
          /\ \A r \in Server : balance[r] \in [{a \in Account : Stores(r, a)} -> Int]
      BY DEF TypeOK
    <3>4. DOMAIN balance' = Server
      BY <3>1, <3>3
    <3>5. ASSUME NEW r \in Server PROVE balance'[r] \in [{a \in Account : Stores(r, a)} -> Int]
      <4> DEFINE D == {a \in Account : Stores(r, a)}
      <4>1. balance[r] \in [D -> Int]
        BY <3>3
      <4>2. \/ balance'[r] = balance[r]
            \/ balance'[r] = [balance[r] EXCEPT ![Destination(t)] = @ + Amount(t)]
        BY <3>1, <3>3
      <4> HIDE DEF D
      <4>3. balance'[r] \in [D -> Int]
        BY <3>2, <4>1, <4>2
      <4> QED BY <4>3 DEF D
    <3> QED BY <3>4, <3>5
  <2>2. wal' \in [Server -> SUBSET Tx]
    <3>1. wal' = [wal EXCEPT ![s] = @ \cup {t}] \/ wal' = wal
      BY <1>18 DEF Execute, ExecuteAgain
    <3>2. wal \in [Server -> SUBSET Tx]
      BY DEF TypeOK
    <3> QED BY <3>1, <3>2
  <2>3. /\ transactions' \in [Server -> SUBSET Tx]
        /\ executed' \in [Server -> Nat]
        /\ mu' \in [Server -> {"free", "polling", "coordinating", "participating", "leaked"}]
    <3>1. CASE Execute(s, t)
      <4>1. transactions' = [transactions EXCEPT ![s] = @ \cup {t}]
        BY <3>1 DEF Execute
      <4>2. transactions \in [Server -> SUBSET Tx]
        BY DEF TypeOK
      <4>3. transactions' \in [Server -> SUBSET Tx]
        BY <4>1, <4>2
      <4> QED BY <3>1, <4>3 DEF Execute, TypeOK
    <3>2. CASE ExecuteAgain(s, t)
      BY <3>2 DEF ExecuteAgain, TypeOK
    <3> QED BY <1>18, <3>1, <3>2
  <2>4. UNCHANGED <<client, process, coord, senders, serving, left, assigned, refused, lock,
                    certified, decided>>
    BY <1>18 DEF Execute, ExecuteAgain
  <2> QED BY <2>1, <2>2, <2>3, <2>4 DEF TypeOK, Stores
<1>19. ASSUME NEW p \in senders, HandleCommit(p) PROVE TypeOK'
  <2>1. p \in SenderType /\ p.to # <<>>
    BY <1>19 DEF HandleCommit, Receives, TypeOK
  <2>2. senders' \subseteq SenderType
    BY <1>19, <2>1, ReturnedType DEF HandleCommit
  <2>3. certified' \in [Server -> [Tx -> Nat]]
    <3>1. certified' = [certified EXCEPT ![Callee(p)][p.tx] = @ + 1]
      BY <1>19 DEF HandleCommit
    <3>2. certified \in [Server -> [Tx -> Nat]]
      BY DEF TypeOK
    <3>3. ASSUME NEW r \in Server PROVE certified'[r] \in [Tx -> Nat]
      <4>1. certified'[r] = certified[r] \/ certified'[r] = [certified[r] EXCEPT ![p.tx] = @ + 1]
        BY <3>1, <3>2
      <4>2. certified[r] \in [Tx -> Nat]
        BY <3>2
      <4> QED BY <4>1, <4>2
    <3> QED BY <3>1, <3>2, <3>3
  <2> QED BY <1>19, <2>2, <2>3 DEF HandleCommit, TypeOK
<1>20. ASSUME NEW p \in senders, HandleAbort(p) PROVE TypeOK'
  <2>1. p \in SenderType /\ p.to # <<>> /\ p.tx \in Tx
    BY <1>20 DEF HandleAbort, Receives, TypeOK, SenderType
  <2>2. senders' \subseteq SenderType
    BY <1>20, <2>1, ReturnedType DEF HandleAbort
  <2> DEFINE s == Callee(p)
  <2>3. /\ \/ balance' = [balance EXCEPT ![s][Destination(p.tx)] = @ - Amount(p.tx)]
           \/ balance' = balance
        /\ wal' = [wal EXCEPT ![s] = @ \ {p.tx}] \/ wal' = wal
        /\ lock' = [lock EXCEPT ![s] = @ \ {Destination(p.tx)}] \/ lock' = lock
    BY <1>20 DEF HandleAbort
  <2> HIDE DEF s
  <2>4. /\ DOMAIN balance' = Server
        /\ \A r \in Server : balance'[r] \in [{a \in Account : Stores(r, a)} -> Int]
    <3>2. Amount(p.tx) \in Int
      BY <2>1, RequestType
    <3>3. /\ DOMAIN balance = Server
          /\ \A r \in Server : balance[r] \in [{a \in Account : Stores(r, a)} -> Int]
      BY DEF TypeOK
    <3>4. DOMAIN balance' = Server
      BY <2>3, <3>3
    <3>5. ASSUME NEW r \in Server PROVE balance'[r] \in [{a \in Account : Stores(r, a)} -> Int]
      <4> DEFINE D == {a \in Account : Stores(r, a)}
      <4>1. balance[r] \in [D -> Int]
        BY <3>3
      <4>2. \/ balance'[r] = balance[r]
            \/ balance'[r] = [balance[r] EXCEPT ![Destination(p.tx)] = @ - Amount(p.tx)]
        BY <2>3, <3>3
      <4> HIDE DEF D
      <4>3. balance'[r] \in [D -> Int]
        BY <3>2, <4>1, <4>2
      <4> QED BY <4>3 DEF D
    <3> QED BY <3>4, <3>5
  <2>5. wal' \in [Server -> SUBSET Tx] /\ lock' \in [Server -> SUBSET Account]
    <3>1. wal \in [Server -> SUBSET Tx] /\ lock \in [Server -> SUBSET Account]
      BY DEF TypeOK
    <3>2. wal' \in [Server -> SUBSET Tx]
      BY <2>3, <3>1
    <3>3. lock' \in [Server -> SUBSET Account]
      BY <2>3, <3>1
    <3> QED BY <3>2, <3>3
  <2>6. refused' \in [Server -> SUBSET Tx]
    <3>1. refused' = refused \/ refused' = [refused EXCEPT ![s] = @ \cup {p.tx}]
      BY <1>20 DEF HandleAbort, s
    <3>2. refused \in [Server -> SUBSET Tx]
      BY DEF TypeOK
    <3> QED BY <2>1, <3>1, <3>2
  <2>7. UNCHANGED <<client, process, coord, handler, assigned, executed, transactions, certified,
                    decided>>
    BY <1>20 DEF HandleAbort
  <2> QED BY <2>2, <2>4, <2>5, <2>6, <2>7 DEF TypeOK, Stores
<1>21. CASE UNCHANGED vars
  BY <1>21 DEF vars, TypeOK, Stores
<1> QED BY <1>1, <1>2, <1>3, <1>4, <1>5, <1>6, <1>7, <1>8, <1>9, <1>10, <1>11, <1>12, <1>13,
           <1>14, <1>15, <1>16, <1>17, <1>18, <1>19, <1>20, <1>21
        DEF Next, Drive, Coordinate, Participate

-----------------------------------------------------------------------------
(* Who waits for whom.                                                     *)

LEMMA ControlStep ==
    ASSUME TypeOK, ControlInv, [Next]_vars
    PROVE  ControlInv'
<1> USE DEF client, process, handler, cluster, db
<1>0. mu \in [Server -> {"free", "polling", "coordinating", "participating", "leaked"}]
  BY DEF TypeOK
<1>1. ASSUME script' = script, coord' = coord,
             \/ driver' = driver
             \/ driver'.phase = "calling" /\ script # <<>>,
             \A s \in Server : mu'[s] = "coordinating" <=> mu[s] = "coordinating"
      PROVE  ControlInv'
  BY <1>1 DEF ControlInv, Working, Contact, Current
<1>2. ASSUME coord = "none", coord' = coord, mu' = mu,
             driver'.phase # "idle" => script' # <<>>
      PROVE  ControlInv'
  BY <1>2 DEF ControlInv, Working
<1>3. CASE Submit
  <2>1. driver'.phase = "calling" /\ script # <<>>
    BY <1>3 DEF Submit, TypeOK
  <2> QED BY <1>1, <1>3, <2>1 DEF Submit
<1>4. CASE RetryTimer
  <2>1. driver'.phase = "calling" /\ script # <<>>
    BY <1>4 DEF RetryTimer, TypeOK, ControlInv
  <2> QED BY <1>1, <1>4, <2>1 DEF RetryTimer
<1>5. CASE ClientDialFails
  <2>1. driver'.phase # "idle" => script' # <<>>
    BY <1>5, FailsType DEF ClientDialFails, Calling
  <2> QED BY <1>2, <1>5, <2>1 DEF ClientDialFails, Calling
<1>6. CASE RejectSignature
  BY <1>1, <1>6 DEF RejectSignature
<1>7. CASE RefuseTransfer
  <2>1. driver'.phase # "idle" => script' # <<>>
    BY <1>7, FailsType DEF RefuseTransfer, Calling
  <2> QED BY <1>2, <1>7, <2>1 DEF RefuseTransfer, Calling
<1>8. CASE PollSource
  <2>1. \A s \in Server : mu[s] # "coordinating"
    BY <1>8 DEF PollSource, CanStart, Calling, ControlInv, Working
  <2>2. \A s \in Server : mu'[s] # "coordinating"
    BY <1>0, <1>8, <2>1 DEF PollSource
  <2>3. coord' = "polling" /\ ~Working' /\ script' = script /\ driver' = driver
        /\ driver.phase = "calling"
    BY <1>8 DEF PollSource, CanStart, Calling, Working
  <2> QED BY <2>2, <2>3 DEF ControlInv
<1>9. CASE StartPrepare
  <2>1. \A s \in Server : mu[s] # "coordinating"
    BY <1>9 DEF StartPrepare, CanStart, Calling, ControlInv, Working
  <2>2. \A s \in Server : mu'[s] = "coordinating" <=> s = Contact
    BY <1>0, <1>9, <2>1 DEF StartPrepare
  <2>3. Working' /\ Contact' = Contact
    BY <1>9 DEF StartPrepare, Working, Contact, Current
  <2>4. script' = script /\ driver' = driver /\ driver.phase = "calling"
    BY <1>9 DEF StartPrepare, CanStart, Calling
  <2>5. \A s \in Server : mu'[s] = "coordinating" <=> Working' /\ s = Contact'
    BY <2>2, <2>3
  <2>6. script' # <<>> /\ driver'.phase = "calling"
    BY <2>4 DEF ControlInv
  <2> QED BY <2>5, <2>6 DEF ControlInv
<1>10. ASSUME AnswerInTime \/ PrepareTimeout PROVE ControlInv'
  <2>1. PICK d \in {"2PCcommit", "2PCabort"} : Decide(d)
    BY <1>10 DEF AnswerInTime, PrepareTimeout
  <2>2. coord = "preparing" /\ coord' = d /\ mu' = mu /\ driver' = driver /\ script' = script
    BY <1>10, <2>1 DEF Decide, AnswerInTime, PrepareTimeout
  <2> QED BY <2>2 DEF ControlInv, Working, Contact, Current
<1>11. CASE Answer
  <2>1. driver'.phase # "idle" => script' # <<>>
    <3>1. Fails \/ Succeeds
      BY <1>11 DEF Answer, ReportsSuccess
    <3> QED BY <1>11, <3>1, FailsType DEF Answer, ControlInv
  <2>2. \A s \in Server : mu'[s] # "coordinating"
    BY <1>0, <1>11 DEF Answer, ControlInv
  <2>3. coord' = "none" /\ ~Working'
    BY <1>11 DEF Answer, Working
  <2> QED BY <2>1, <2>2, <2>3 DEF ControlInv
<1>12. ASSUME NEW s \in Server, CallNext(s) \/ SkipNext(s) PROVE ControlInv'
  <2>1. script' = script /\ driver' = driver /\ coord' = coord /\ mu' = mu
    BY <1>12 DEF CallNext, SkipNext
  <2>2. \A r \in Server : mu'[r] = "coordinating" <=> mu[r] = "coordinating"
    BY <2>1
  <2> QED BY <1>1, <2>1, <2>2
<1>13. ASSUME NEW p \in senders, CallFails(p) \/ PrepareWithoutKeys(p) \/ ReplyAck(p)
                                \/ HandleCommit(p) \/ HandleAbort(p)
       PROVE  ControlInv'
  <2>1. script' = script /\ driver' = driver /\ coord' = coord /\ mu' = mu
    BY <1>13 DEF CallFails, PrepareWithoutKeys, ReplyAck, HandleCommit, HandleAbort
  <2> QED BY <1>1, <2>1
<1>14. ASSUME NEW p \in senders, PollReceiver(p) \/ AcceptPrepare(p) PROVE ControlInv'
  <2>1. /\ script' = script /\ driver' = driver /\ coord' = coord
        /\ mu[Callee(p)] = "free"
        /\ \E v \in {"polling", "participating"} : mu' = [mu EXCEPT ![Callee(p)] = v]
    BY <1>14 DEF PollReceiver, AcceptPrepare, CanPrepare, Receives
  <2>2. \A s \in Server : mu'[s] = "coordinating" <=> mu[s] = "coordinating"
    BY <1>0, <2>1
  <2> QED BY <1>1, <2>1, <2>2
<1>15. ASSUME NEW s \in Server, FinishPrepare(s) PROVE ControlInv'
  BY <1>0, <1>1, <1>15 DEF FinishPrepare
<1>16. ASSUME NEW s \in Server, NEW t \in Tx, Execute(s, t) \/ ExecuteAgain(s, t)
       PROVE  ControlInv'
  <2>1. /\ script' = script /\ driver' = driver /\ coord' = coord
        /\ mu[s] = "free"
        /\ mu' = mu \/ mu' = [mu EXCEPT ![s] = "leaked"]
    BY <1>16 DEF Execute, ExecuteAgain, Executable
  <2>2. \A r \in Server : mu'[r] = "coordinating" <=> mu[r] = "coordinating"
    BY <1>0, <2>1
  <2> QED BY <1>1, <2>1, <2>2
<1>17. CASE UNCHANGED vars
  BY <1>1, <1>17 DEF vars
<1> QED BY <1>3, <1>4, <1>5, <1>6, <1>7, <1>8, <1>9, <1>10, <1>11, <1>12, <1>13, <1>14, <1>15,
           <1>16, <1>17
        DEF Next, Drive, Coordinate, Participate

LEMMA ServingStep ==
    ASSUME TypeOK, ControlInv, ServingInv, [Next]_vars
    PROVE  ServingInv'
<1> USE DEF client, process, handler, cluster, db
<1>0. /\ mu \in [Server -> {"free", "polling", "coordinating", "participating", "leaked"}]
      /\ serving \in [Server -> SUBSET SenderType]
  BY DEF TypeOK
\* Nobody's handler starts or ends a call, and the goroutines that are served stay.
<1>1. ASSUME serving' = serving,
             \A s \in Server : mu[s] \in {"polling", "participating"} => mu'[s] = mu[s],
             \A s \in Server : serving[s] \subseteq senders'
      PROVE  ServingInv'
  BY <1>1 DEF ServingInv, Callee
<1>2. ASSUME serving' = serving, senders \subseteq senders',
             \A s \in Server : mu[s] \in {"polling", "participating"} => mu'[s] = mu[s]
      PROVE  ServingInv'
  BY <1>1, <1>2 DEF ServingInv
<1>3. ASSUME NEW p \in senders, senders' = Returned(p), serving' = serving, mu' = mu,
             \A s \in Server : p \notin serving[s]
      PROVE  ServingInv'
  <2>1. \A s \in Server : serving[s] \subseteq senders'
    BY <1>3 DEF ServingInv, Returned
  <2> QED BY <1>1, <1>3, <2>1
<1>4. CASE Submit \/ RetryTimer \/ ClientDialFails \/ RejectSignature \/ RefuseTransfer
  BY <1>2, <1>4 DEF Submit, RetryTimer, ClientDialFails, RejectSignature, RefuseTransfer
<1>5. CASE PollSource \/ StartPrepare
  <2>1. /\ serving' = serving /\ senders \subseteq senders'
        /\ mu[Contact] = "free"
        /\ \E v : mu' = [mu EXCEPT ![Contact] = v]
    BY <1>5 DEF PollSource, StartPrepare, CanStart
  <2> QED BY <1>0, <1>2, <2>1
<1>6. CASE AnswerInTime
  <2>1. PICK p \in Answers : senders' = senders \ {p}
    BY <1>6 DEF AnswerInTime
  <2>2. \A s \in Server : p \notin serving[s]
    BY <2>1 DEF ServingInv, Answers
  <2>3. \A s \in Server : serving[s] \subseteq senders'
    BY <2>1, <2>2 DEF ServingInv
  <2> QED BY <1>1, <1>6, <2>3 DEF AnswerInTime, Decide
<1>7. CASE PrepareTimeout
  BY <1>2, <1>7 DEF PrepareTimeout, Decide
<1>8. CASE Answer
  <2>1. /\ mu' = [mu EXCEPT ![Contact] = "free"]
        /\ serving' = serving /\ senders \subseteq senders'
    BY <1>8 DEF Answer
  <2>2. Contact \in Server /\ mu[Contact] = "coordinating"
    BY <1>8, CurrentType DEF Answer, ControlInv, Working
  <2>3. \A s \in Server : mu[s] \in {"polling", "participating"} => mu'[s] = mu[s]
    BY <1>0, <2>1, <2>2
  <2> QED BY <1>2, <2>1, <2>3
<1>9. ASSUME NEW s \in Server, CallNext(s) \/ SkipNext(s) PROVE ServingInv'
  <2>1. serving' = serving /\ senders' = senders /\ mu' = mu
    BY <1>9 DEF CallNext, SkipNext
  <2> QED BY <1>2, <2>1
<1>10. ASSUME NEW p \in senders, CallFails(p) PROVE ServingInv'
  <2>1. \A s \in Server : p \notin serving[s]
    BY <1>10 DEF CallFails, ServingInv
  <2>2. senders' = Returned(p) /\ serving' = serving /\ mu' = mu
    BY <1>10 DEF CallFails
  <2> QED BY <1>3, <2>1, <2>2
<1>11. ASSUME NEW p \in senders, PrepareWithoutKeys(p) PROVE ServingInv'
  <2>1. serving' = serving /\ senders' = senders /\ mu' = mu
    BY <1>11 DEF PrepareWithoutKeys
  <2> QED BY <1>2, <2>1
<1>12. ASSUME NEW p \in senders, ReplyAck(p) \/ HandleCommit(p) \/ HandleAbort(p)
       PROVE  ServingInv'
  <2>1. mu[Callee(p)] = "free"
    BY <1>12 DEF ReplyAck, HandleCommit, HandleAbort, Receives
  <2>2. \A s \in Server : p \notin serving[s]
    BY <2>1 DEF ServingInv
  <2>3. senders' = Returned(p) /\ serving' = serving /\ mu' = mu
    BY <1>12 DEF ReplyAck, HandleCommit, HandleAbort
  <2> QED BY <1>3, <2>2, <2>3
<1>13. ASSUME NEW p \in senders, PollReceiver(p) \/ AcceptPrepare(p) PROVE ServingInv'
  <2> DEFINE s == Callee(p)
  <2>1. /\ p.kind = "2PCprepare" /\ p.to # <<>> /\ mu[s] = "free"
        /\ serving' = [serving EXCEPT ![s] = {p}]
        /\ senders' = senders
        /\ \E v \in {"polling", "participating"} : mu' = [mu EXCEPT ![s] = v]
    BY <1>13 DEF PollReceiver, AcceptPrepare, CanPrepare, Receives
  <2>2. ASSUME NEW r \in Server, r # s
        PROVE  serving'[r] = serving[r] /\ mu'[r] = mu[r]
    BY <1>0, <2>1, <2>2
  <2>3. s \in Server => serving'[s] = {p} /\ mu'[s] \in {"polling", "participating"}
    BY <1>0, <2>1
  <2>4. ASSUME NEW r \in Server
        PROVE  /\ mu'[r] \notin {"polling", "participating"} => serving'[r] = {}
               /\ \A q, o \in serving'[r] : q = o
               /\ \A q \in serving'[r] : /\ q \in senders' /\ q.kind = "2PCprepare"
                                         /\ q.to # <<>> /\ Callee(q) = r
    <3>1. CASE r = s
      BY <2>1, <2>3, <3>1
    <3>2. CASE r # s
      <4> HIDE DEF s
      <4> QED BY <2>1, <2>2, <3>2 DEF ServingInv
    <3> QED BY <3>1, <3>2
  <2> QED BY <2>4 DEF ServingInv, Callee
<1>14. ASSUME NEW s \in Server, FinishPrepare(s) PROVE ServingInv'
  <2>1. PICK p \in serving[s] : senders' = Returned(p)
    BY <1>14 DEF FinishPrepare
  <2>2. /\ serving' = [serving EXCEPT ![s] = {}]
        /\ mu' = [mu EXCEPT ![s] = "free"]
    BY <1>14 DEF FinishPrepare
  <2>3. \A r \in Server : r # s => p \notin serving[r]
    BY <2>1 DEF ServingInv
  <2>4. ASSUME NEW r \in Server, r # s
        PROVE  serving'[r] = serving[r] /\ mu'[r] = mu[r]
    BY <1>0, <2>2, <2>4
  <2>5. serving'[s] = {}
    BY <1>0, <2>2
  <2>6. \A r \in Server : serving'[r] \subseteq senders'
    BY <2>1, <2>3, <2>4, <2>5 DEF ServingInv, Returned
  <2>7. ASSUME NEW r \in Server
        PROVE  /\ mu'[r] \notin {"polling", "participating"} => serving'[r] = {}
               /\ \A q, o \in serving'[r] : q = o
               /\ \A q \in serving'[r] : /\ q \in senders' /\ q.kind = "2PCprepare"
                                         /\ q.to # <<>> /\ Callee(q) = r
    <3>1. CASE r = s
      BY <2>5, <3>1
    <3>2. CASE r # s
      BY <2>4, <2>6, <3>2 DEF ServingInv
    <3> QED BY <3>1, <3>2
  <2> QED BY <2>7 DEF ServingInv, Callee
<1>15. ASSUME NEW s \in Server, NEW t \in Tx, Execute(s, t) \/ ExecuteAgain(s, t)
       PROVE  ServingInv'
  <2>1. /\ serving' = serving /\ senders' = senders /\ mu[s] = "free"
        /\ mu' = mu \/ mu' = [mu EXCEPT ![s] = "leaked"]
    BY <1>15 DEF Execute, ExecuteAgain, Executable
  <2>2. \A r \in Server : mu[r] \in {"polling", "participating"} => mu'[r] = mu[r]
    BY <1>0, <2>1
  <2> QED BY <1>2, <2>1, <2>2
<1>16. CASE UNCHANGED vars
  BY <1>2, <1>16 DEF vars
<1> QED BY <1>4, <1>5, <1>6, <1>7, <1>8, <1>9, <1>10, <1>11, <1>12, <1>13, <1>14, <1>15, <1>16
        DEF Next, Drive, Coordinate, Participate

LEMMA TablesStep ==
    ASSUME TypeOK, TablesInv, [Next]_vars
    PROVE  TablesInv'
<1> USE DEF client, process, handler, cluster, db
<1>0. wal \in [Server -> SUBSET Tx] /\ transactions \in [Server -> SUBSET Tx]
  BY DEF TypeOK
<1>1. ASSUME NEW s \in Server, NEW t \in Tx,
             wal' = [wal EXCEPT ![s] = @ \cup {t}],
             transactions' = [transactions EXCEPT ![s] = @ \cup {t}]
      PROVE  TablesInv'
  <2>1. ASSUME NEW r \in Server
        PROVE  IsFiniteSet(transactions'[r]) /\ wal'[r] \subseteq transactions'[r]
    <3>1. IsFiniteSet(transactions[r]) /\ IsFiniteSet(transactions[r] \cup {t})
      BY FS_AddElement DEF TablesInv
    <3>2. \/ transactions'[r] = transactions[r] /\ wal'[r] = wal[r]
          \/ transactions'[r] = transactions[r] \cup {t} /\ wal'[r] = wal[r] \cup {t}
      BY <1>0, <1>1
    <3> QED BY <3>1, <3>2 DEF TablesInv
  <2> QED BY <2>1 DEF TablesInv
<1>2. ASSUME transactions' = transactions,
             \A r \in Server : wal'[r] \subseteq transactions[r]
      PROVE  TablesInv'
  BY <1>2 DEF TablesInv
<1>3. ASSUME NEW s \in Server, NEW t \in Tx, Execute(s, t) PROVE TablesInv'
  BY <1>1, <1>3 DEF Execute
<1>4. ASSUME NEW s \in Server, NEW t \in Tx, ExecuteAgain(s, t) PROVE TablesInv'
  <2>1. t \in wal[s] \cup transactions[s]
    BY <1>4 DEF ExecuteAgain
  <2>2. wal' = wal \/ wal' = [wal EXCEPT ![s] = @ \cup {t}]
    BY <1>4 DEF ExecuteAgain
  <2>3. \A r \in Server : wal'[r] \subseteq transactions[r]
    BY <1>0, <2>1, <2>2 DEF TablesInv
  <2> QED BY <1>2, <1>4, <2>3 DEF ExecuteAgain
<1>5. ASSUME NEW p \in senders, HandleCommit(p) \/ HandleAbort(p) PROVE TablesInv'
  <2>1. wal' = wal \/ wal' = [wal EXCEPT ![Callee(p)] = @ \ {p.tx}]
    BY <1>5 DEF HandleCommit, HandleAbort
  <2>2. \A r \in Server : wal'[r] \subseteq transactions[r]
    BY <1>0, <2>1 DEF TablesInv
  <2>3. transactions' = transactions
    BY <1>5 DEF HandleCommit, HandleAbort
  <2> QED BY <1>2, <2>2, <2>3
<1>6. ASSUME transactions' = transactions, wal' = wal PROVE TablesInv'
  BY <1>6 DEF TablesInv
<1>7. CASE Drive \/ ClientDialFails
  BY <1>6, <1>7 DEF Drive, Submit, RetryTimer, ClientDialFails
<1>8. CASE Coordinate
  <2>1. transactions' = transactions /\ wal' = wal
    BY <1>8 DEF Coordinate, RejectSignature, RefuseTransfer, PollSource, StartPrepare,
                AnswerInTime, PrepareTimeout, Answer, Decide
  <2> QED BY <1>6, <2>1
<1>9. ASSUME NEW s \in Server, CallNext(s) \/ SkipNext(s) \/ FinishPrepare(s) PROVE TablesInv'
  BY <1>6, <1>9 DEF CallNext, SkipNext, FinishPrepare
<1>10. ASSUME NEW p \in senders, \/ CallFails(p) \/ PrepareWithoutKeys(p) \/ ReplyAck(p)
                                 \/ PollReceiver(p) \/ AcceptPrepare(p)
       PROVE  TablesInv'
  <2>1. transactions' = transactions /\ wal' = wal
    BY <1>10 DEF CallFails, PrepareWithoutKeys, ReplyAck, PollReceiver, AcceptPrepare
  <2> QED BY <1>6, <2>1
<1>11. CASE UNCHANGED vars
  BY <1>6, <1>11 DEF vars
<1> QED BY <1>3, <1>4, <1>5, <1>7, <1>8, <1>9, <1>10, <1>11 DEF Next, Participate

BaseInv == TypeOK /\ ControlInv /\ ServingInv /\ TablesInv

LEMMA BaseInvariant == Spec => []BaseInv
<1>1. Init => BaseInv
  <2> SUFFICES ASSUME Init PROVE BaseInv
    OBVIOUS
  <2>1. TypeOK
    <3>1. /\ script \in Seq(Tx)
          /\ [phase |-> "idle", retries |-> 0]
                \in [phase : {"idle", "calling", "waiting"}, retries : 0..(MaxRetries - 1)]
      BY CrossShardAssumption DEF Init, MaxRetries
    <3>2. \A s \in Server : balance[s] \in [{a \in Account : Stores(s, a)} -> Int]
      BY CrossShardAssumption DEF Init
    <3>3. drops + lostReplies <= MaxFaults
      BY CrossShardAssumption DEF Init
    <3>4. /\ mu \in [Server -> {"free", "polling", "coordinating", "participating", "leaked"}]
          /\ serving \in [Server -> SUBSET SenderType]
          /\ left \in [Server -> Seq(Server)]
          /\ assigned \in [Server -> Seq(Tx)]
          /\ executed \in [Server -> Nat]
          /\ lock \in [Server -> SUBSET Account]
          /\ transactions \in [Server -> SUBSET Tx]
          /\ wal \in [Server -> SUBSET Tx]
          /\ certified \in [Server -> [Tx -> Nat]]
          /\ decided \in [Tx -> SUBSET {"2PCcommit", "2PCabort"}]
          /\ refused \in [Server -> SUBSET Tx]
      BY DEF Init
    <3> QED BY <3>1, <3>2, <3>3, <3>4 DEF Init, TypeOK
  <2>2. ControlInv /\ ServingInv
    BY DEF Init, ControlInv, ServingInv, Working
  <2>3. TablesInv
    BY FS_EmptySet DEF Init, TablesInv
  <2> QED BY <2>1, <2>2, <2>3 DEF BaseInv
<1>2. BaseInv /\ [Next]_vars => BaseInv'
  BY TypeStep, ControlStep, ServingStep, TablesStep DEF BaseInv
<1> QED BY <1>1, <1>2, PTL DEF Spec

\* Every variable keeps its type, for every instance and any number of faults.
THEOREM CrossShardTypeCorrect == Spec => []TypeOK
<1>1. BaseInv => TypeOK
  BY DEF BaseInv
<1> QED BY <1>1, BaseInvariant, PTL

-----------------------------------------------------------------------------
(* Every transfer is coordinated once.                                     *)

\* Removing the first element of a list of different ones.
LEMMA DistinctTail ==
    ASSUME NEW S, NEW list \in Seq(S), list # <<>>, Distinct(list)
    PROVE  /\ Distinct(Tail(list))
           /\ Range(Tail(list)) \subseteq Range(list)
           /\ Head(list) \in Range(list) /\ Head(list) \notin Range(Tail(list))
<1>1. /\ Tail(list) \in Seq(S) /\ Len(Tail(list)) = Len(list) - 1
      /\ DOMAIN list = 1..Len(list) /\ DOMAIN Tail(list) = 1..(Len(list) - 1)
      /\ \A i \in 1..(Len(list) - 1) : Tail(list)[i] = list[i + 1]
      /\ Len(list) \in Nat \ {0}
      /\ Head(list) = list[1]
  OBVIOUS
<1>2. \A i \in 1..(Len(list) - 1) : i + 1 \in DOMAIN list /\ i + 1 # 1
  BY <1>1
<1>3. Distinct(Tail(list))
  BY <1>1, <1>2 DEF Distinct
<1>4. Range(Tail(list)) \subseteq Range(list)
  BY <1>1, <1>2 DEF Range
<1>5. Head(list) \in Range(list)
  BY <1>1 DEF Range
<1>6. Head(list) \notin Range(Tail(list))
  BY <1>1, <1>2 DEF Range, Distinct
<1> QED BY <1>3, <1>4, <1>5, <1>6

\* An element that is new is appended to a list of different ones.
LEMMA DistinctAppend ==
    ASSUME NEW S, NEW list \in Seq(S), NEW x \in S, Distinct(list), x \notin Range(list)
    PROVE  /\ Distinct(Append(list, x))
           /\ Range(Append(list, x)) = Range(list) \cup {x}
<1>1. /\ DOMAIN list = 1..Len(list) /\ DOMAIN Append(list, x) = 1..(Len(list) + 1)
      /\ \A i \in 1..Len(list) : Append(list, x)[i] = list[i]
      /\ Append(list, x)[Len(list) + 1] = x
      /\ Len(list) \in Nat
  OBVIOUS
<1>2. \A i \in 1..Len(list) : list[i] # x
  BY <1>1 DEF Range
<1>3. \A i \in 1..(Len(list) + 1) : i \in 1..Len(list) \/ i = Len(list) + 1
  BY <1>1
<1>4. Distinct(Append(list, x))
  BY <1>1, <1>2, <1>3 DEF Distinct
<1>5. Range(Append(list, x)) = Range(list) \cup {x}
  <2>1. ASSUME NEW y \in Range(list) PROVE y \in Range(Append(list, x))
    BY <1>1 DEF Range
  <2>2. x \in Range(Append(list, x))
    BY <1>1 DEF Range
  <2>3. ASSUME NEW y \in Range(Append(list, x)) PROVE y \in Range(list) \cup {x}
    BY <1>1, <1>3 DEF Range
  <2> QED BY <2>1, <2>2, <2>3
<1> QED BY <1>4, <1>5

\* The coordinator of the current transfer has not begun: the transfer is still to do.
LEMMA CurrentWaits ==
    ASSUME TypeOK, script # <<>>, ~Working
    PROVE  Waiting(Current)
<1>1. script \in Seq(Tx)
  BY DEF TypeOK
<1>2. Head(script) = script[1] /\ 1 \in DOMAIN script
  BY <1>1
<1> QED BY <1>2 DEF Waiting, Current, Range

\* No step of the driver or of a server's handler touches the two-phase commit.
LEMMA OnceQuiet ==
    ASSUME TypeOK, Once,
           UNCHANGED <<senders, assigned, executed, transactions, wal, certified, decided>>,
           \A s \in Server : serving[s] \subseteq serving'[s],
           \/ script' = script /\ coord' = coord
           \/ script' = script /\ coord = "none" /\ coord' = "polling"
           \/ script # <<>> /\ script' = Tail(script) /\ coord = "none" /\ coord' = "none"
    PROVE  Once'
<1>1. Distinct(script) /\ script \in Seq(Tx)
  BY DEF Once, OneCoordinator, TypeOK
<1>2. Distinct(script') /\ Range(script') \subseteq Range(script)
  BY <1>1, DistinctTail
<1>3. /\ Working' <=> Working
      /\ Working => coord' = coord /\ Current' = Current
  BY DEF Working, Current
<1>4. ASSUME NEW t \in Tx, Waiting(t)' PROVE Untouched(t)'
  <2>1. Waiting(t)
    BY <1>2, <1>3, <1>4 DEF Waiting
  <2>2. Untouched(t)
    BY <2>1 DEF Once, OneCoordinator
  <2> QED BY <2>2 DEF Untouched
<1>5. Working' => Begun(Current)'
  <2> SUFFICES ASSUME Working PROVE Begun(Current)'
    BY <1>3
  <2>1. Begun(Current) /\ coord' = coord /\ Current' = Current
    BY <1>3 DEF Once, OneCoordinator
  <2> QED BY <2>1 DEF Begun
<1>6. OneCoordinator'
  BY <1>2, <1>4, <1>5 DEF OneCoordinator
<1>7. OneDecision' /\ OneSender' /\ CertifiedOnce'
  BY DEF Once, OneDecision, OneSender, CertifiedOnce
<1>8. CallsAreNew'
  <2>1. CallsAreNew
    BY DEF Once
  <2>2. \A p \in senders : \A s \in Range(p.to) : s \in Server
    BY DEF TypeOK, SenderType, Range
  <2> QED BY <2>1, <2>2 DEF CallsAreNew
<1>9. RecordsFollowLog'
  BY DEF Once, RecordsFollowLog, LogOf
<1> QED BY <1>6, <1>7, <1>8, <1>9 DEF Once

LEMMA OnceStart ==
    ASSUME TypeOK, Once, Current \in Tx, script # <<>>, coord = "none", coord' = "preparing",
           NEW n, n.tx = Current, n.kind = "2PCprepare", Distinct(n.to),
           \A s \in Range(n.to) : s \in Server,
           senders' = senders \cup {n},
           UNCHANGED <<script, serving, assigned, executed, transactions, wal, certified,
                       decided>>
    PROVE  Once'
<1>1. ~Working /\ Working' /\ Current' = Current
  BY DEF Working, Current
<1>2. Untouched(Current)
  BY <1>1, CurrentWaits DEF Once, OneCoordinator
<1>3. ASSUME NEW t \in Tx, Waiting(t)' PROVE Untouched(t)'
  <2>1. Waiting(t) /\ t # Current
    BY <1>1, <1>3 DEF Waiting
  <2>2. Untouched(t)
    BY <2>1 DEF Once, OneCoordinator
  <2> QED BY <2>1, <2>2 DEF Untouched
<1>4. Begun(Current)'
  BY <1>1, <1>2 DEF Begun, Untouched
<1>5. OneCoordinator'
  BY <1>3, <1>4 DEF Once, OneCoordinator
<1>6. OneDecision' /\ CertifiedOnce' /\ RecordsFollowLog'
  BY DEF Once, OneDecision, CertifiedOnce, RecordsFollowLog, LogOf
<1>7. OneSender'
  <2>1. OneSender /\ \A p \in senders : p.tx # n.tx
    BY <1>2 DEF Once, Untouched
  <2>2. \A p \in senders' : p \in senders \/ p = n
    OBVIOUS
  <2>3. decided[n.tx] = {}
    BY <1>2 DEF Untouched
  <2> QED BY <2>1, <2>2, <2>3 DEF OneSender
<1>8. CallsAreNew'
  <2>1. CallsAreNew
    BY DEF Once
  <2>2. \A s \in Range(n.to) : n.tx \notin Range(assigned[s])
    BY <1>2 DEF Untouched
  <2> QED BY <2>1, <2>2 DEF CallsAreNew
<1> QED BY <1>5, <1>6, <1>7, <1>8 DEF Once

LEMMA OnceDecide ==
    ASSUME TypeOK, Once, Current \in Tx, coord = "preparing",
           NEW d \in {"2PCcommit", "2PCabort"}, coord' = d,
           decided' = [decided EXCEPT ![Current] = @ \cup {d}],
           senders' \subseteq senders,
           d = "2PCcommit" => \A p \in senders' : p.tx # Current,
           UNCHANGED <<script, serving, assigned, executed, transactions, wal, certified>>
    PROVE  Once'
<1>1. Working /\ Working' /\ Current' = Current
  BY DEF Working, Current
<1>2. Begun(Current) /\ decided[Current] = {}
  BY <1>1 DEF Once, OneCoordinator, Begun
<1>3. /\ decided'[Current] = {d}
      /\ \A t \in Tx : t # Current => decided'[t] = decided[t]
      /\ \A t \in Tx : decided[t] \subseteq decided'[t]
  BY <1>2 DEF TypeOK
<1>4. ASSUME NEW t \in Tx, Waiting(t)' PROVE Untouched(t)'
  <2>1. Waiting(t) /\ t # Current
    BY <1>1, <1>4 DEF Waiting
  <2>2. Untouched(t)
    BY <2>1 DEF Once, OneCoordinator
  <2> QED BY <1>3, <2>1, <2>2 DEF Untouched
<1>5. Begun(Current)'
  BY <1>1, <1>2, <1>3 DEF Begun
<1>6. OneCoordinator'
  BY <1>4, <1>5 DEF Once, OneCoordinator
<1>7. OneDecision'
  <2>1. ASSUME NEW t \in Tx PROVE \E e \in {"2PCcommit", "2PCabort"} : decided'[t] \subseteq {e}
    BY <1>3 DEF Once, OneDecision
  <2> QED BY <2>1 DEF OneDecision
<1>8. OneSender'
  <2>1. \A p \in senders : p.tx \in Tx
    BY DEF TypeOK, SenderType
  <2>2. OneSender
    BY DEF Once
  <2>3. ASSUME NEW p \in senders', p.kind = "2PCprepare" PROVE "2PCcommit" \notin decided'[p.tx]
    <3>1. CASE p.tx = Current
      BY <1>3, <3>1
    <3>2. CASE p.tx # Current
      BY <1>3, <2>1, <2>2, <2>3, <3>2 DEF OneSender
    <3> QED BY <3>1, <3>2
  <2>4. ASSUME NEW p \in senders', p.kind # "2PCprepare" PROVE p.kind \in decided'[p.tx]
    BY <1>3, <2>1, <2>2, <2>4 DEF OneSender
  <2> QED BY <2>2, <2>3, <2>4 DEF OneSender
<1>9. CallsAreNew'
  <2>1. CallsAreNew
    BY DEF Once
  <2> QED BY <2>1 DEF CallsAreNew
<1>10. CertifiedOnce'
  <2>1. ASSUME NEW s \in Server, NEW t \in Tx
        PROVE  certified[s][t] <= (IF "2PCcommit" \in decided'[t] THEN 1 ELSE 0)
    <3>1. CASE t = Current
      <4>1. certified[s][t] = 0
        BY <1>2, <3>1 DEF Begun
      <4> QED BY <4>1
    <3>2. CASE t # Current
      BY <1>3, <3>2 DEF Once, CertifiedOnce
    <3> QED BY <3>1, <3>2
  <2> QED BY <2>1 DEF CertifiedOnce
<1>11. RecordsFollowLog'
  <2>1. RecordsFollowLog
    BY DEF Once
  <2>2. ASSUME NEW s \in Server, NEW t \in transactions[s] \ wal[s]
        PROVE  certified[s][t] > 0 \/ "2PCabort" \in decided'[t]
    <3>1. t \in Tx
      BY DEF TypeOK
    <3> QED BY <1>3, <2>1, <3>1 DEF RecordsFollowLog
  <2> QED BY <2>1, <2>2 DEF RecordsFollowLog, LogOf
<1> QED BY <1>6, <1>7, <1>8, <1>9, <1>10, <1>11 DEF Once

\* The handler ends, main goes on, and nobody or one goroutine announces the decision.
LEMMA OnceAnswer ==
    ASSUME TypeOK, Once, Current \in Tx, script # <<>>,
           coord \in {"2PCcommit", "2PCabort"}, coord' = "none",
           script' = Tail(script),
           NEW N, senders' = senders \cup N,
           \A m, n \in N : m = n,
           \A n \in N : /\ n.tx = Current /\ n.kind = coord /\ Distinct(n.to)
                       /\ \A s \in Range(n.to) : s \in Server,
           UNCHANGED <<serving, assigned, executed, transactions, wal, certified, decided>>
    PROVE  Once'
<1>1. Working /\ ~Working'
  BY DEF Working
<1>2. Begun(Current) /\ decided[Current] = {coord}
  BY <1>1 DEF Once, OneCoordinator, Begun
<1>3. Distinct(script) /\ script \in Seq(Tx)
  BY DEF Once, OneCoordinator, TypeOK
<1>4. /\ Distinct(script') /\ Range(script') \subseteq Range(script)
      /\ Current \notin Range(script')
  BY <1>3, DistinctTail DEF Current
<1>5. ASSUME NEW t \in Tx, Waiting(t)' PROVE Untouched(t)'
  <2>1. Waiting(t) /\ t # Current
    BY <1>4, <1>5 DEF Waiting
  <2>2. Untouched(t)
    BY <2>1 DEF Once, OneCoordinator
  <2> QED BY <2>1, <2>2 DEF Untouched
<1>6. OneCoordinator'
  BY <1>1, <1>4, <1>5 DEF OneCoordinator
<1>7. OneDecision' /\ CertifiedOnce' /\ RecordsFollowLog'
  BY DEF Once, OneDecision, CertifiedOnce, RecordsFollowLog, LogOf
<1>8. OneSender'
  <2>1. OneSender
    BY DEF Once
  <2>2. \A p \in senders' : p \in senders \/ p \in N
    OBVIOUS
  <2>3. \A p \in senders : \A n \in N : p.tx = n.tx => p.kind # n.kind
    BY <1>2 DEF Begun
  <2>4. \A p, q \in senders' : p.tx = q.tx /\ p.kind = q.kind => p = q
    BY <2>1, <2>2, <2>3 DEF OneSender
  <2>5. \A n \in N : n.kind \in decided[n.tx] /\ n.kind # "2PCprepare"
    BY <1>2
  <2> QED BY <2>1, <2>2, <2>4, <2>5 DEF OneSender
<1>9. CallsAreNew'
  <2>1. CallsAreNew
    BY DEF Once
  <2>2. \A n \in N : \A s \in Range(n.to) : certified[s][n.tx] = 0 /\ n.kind # "2PCprepare"
    BY <1>2 DEF Begun
  <2> QED BY <2>1, <2>2 DEF CallsAreNew
<1> QED BY <1>6, <1>7, <1>8, <1>9 DEF Once

\* The leader of the destination's cluster numbers the transfer.
LEMMA OnceAccept ==
    ASSUME TypeOK, ServingInv, Once, NEW p \in senders, p.kind = "2PCprepare", p.to # <<>>,
           NEW s \in Server, s = Callee(p), mu[s] = "free",
           assigned' = [assigned EXCEPT ![s] = Append(@, p.tx)],
           serving' = [serving EXCEPT ![s] = {p}],
           UNCHANGED <<script, coord, senders, executed, transactions, wal, certified, decided>>
    PROVE  Once'
<1>1. /\ p.tx \in Tx /\ p.to \in Seq(Server) /\ s \in Range(p.to)
  <2>1. p.tx \in Tx /\ p.to \in Seq(Server)
    BY DEF TypeOK, SenderType
  <2>2. Head(p.to) = p.to[1] /\ 1 \in DOMAIN p.to
    BY <2>1
  <2> QED BY <2>1, <2>2 DEF Range, Callee
<1>2. serving[s] = {}
  BY DEF ServingInv
<1>3. p.tx \notin Range(assigned[s])
  BY <1>1, <1>2 DEF Once, CallsAreNew
<1>4. /\ assigned[s] \in Seq(Tx) /\ Distinct(assigned[s])
      /\ assigned'[s] = Append(assigned[s], p.tx)
      /\ \A r \in Server : r # s => assigned'[r] = assigned[r]
  BY DEF TypeOK, Once, RecordsFollowLog
<1>5. /\ Distinct(assigned'[s])
      /\ Range(assigned'[s]) = Range(assigned[s]) \cup {p.tx}
  BY <1>1, <1>3, <1>4, DistinctAppend
<1>6. /\ serving'[s] = {p}
      /\ \A r \in Server : r # s => serving'[r] = serving[r]
  BY DEF TypeOK
<1>7. (Working' <=> Working) /\ Current' = Current
  BY DEF Working, Current
<1>8. ASSUME NEW t \in Tx, Waiting(t)' PROVE Untouched(t)'
  <2>1. Waiting(t)
    BY <1>7, <1>8 DEF Waiting
  <2>2. Untouched(t) /\ p.tx # t
    BY <2>1 DEF Once, OneCoordinator, Untouched
  <2>3. \A r \in Server : t \notin Range(assigned'[r])
    <3> TAKE r \in Server
    <3>1. CASE r = s
      BY <1>5, <2>2, <3>1 DEF Untouched
    <3>2. CASE r # s
      BY <1>4, <2>2, <3>2 DEF Untouched
    <3> QED BY <3>1, <3>2
  <2> QED BY <2>2, <2>3 DEF Untouched
<1>9. Working' => Begun(Current)'
  <2> SUFFICES ASSUME Working PROVE Begun(Current)'
    BY <1>7
  <2>1. Begun(Current)
    BY DEF Once, OneCoordinator
  <2> QED BY <1>7, <2>1 DEF Begun
<1>10. OneCoordinator'
  BY <1>8, <1>9 DEF Once, OneCoordinator
<1>11. OneDecision' /\ OneSender' /\ CertifiedOnce'
  BY DEF Once, OneDecision, OneSender, CertifiedOnce
<1>12. CallsAreNew'
  <2>1. ASSUME NEW q \in senders, NEW r \in Range(q.to),
               q.kind = "2PCprepare", q \notin serving'[r]
        PROVE  q.tx \notin Range(assigned'[r])
    <3>1. r \in Server
      BY DEF TypeOK, SenderType, Range
    <3>2. CASE r = s
      <4>1. q # p /\ q.tx # p.tx
        BY <1>6, <2>1, <3>2 DEF Once, OneSender
      <4>2. q.tx \notin Range(assigned[s])
        BY <1>2, <2>1, <3>2 DEF Once, CallsAreNew
      <4> QED BY <1>5, <3>2, <4>1, <4>2
    <3>3. CASE r # s
      BY <1>4, <1>6, <2>1, <3>1, <3>3 DEF Once, CallsAreNew
    <3> QED BY <3>2, <3>3
  <2>2. CallsAreNew
    BY DEF Once
  <2> QED BY <2>1, <2>2 DEF CallsAreNew
<1>13. RecordsFollowLog'
  <2>1. RecordsFollowLog
    BY DEF Once
  <2>2. ASSUME NEW r \in Server
        PROVE  /\ Len(LogOf(r)) \in Nat /\ Len(LogOf(r)) <= Len(assigned'[LeaderOf[r]])
               /\ \A i \in 1..Len(LogOf(r)) : assigned'[LeaderOf[r]][i] = LogOf(r)[i]
    <3>1. CASE LeaderOf[r] = s
      BY <1>1, <1>4, <3>1 DEF LogOf
    <3>2. CASE LeaderOf[r] # s
      BY <1>4, <3>2, LeaderType DEF LogOf, TypeOK
    <3> QED BY <3>1, <3>2
  <2>3. ASSUME NEW r \in Server PROVE Distinct(assigned'[r])
    BY <1>4, <1>5, <2>1 DEF RecordsFollowLog
  <2>4. ASSUME NEW r \in Server
        PROVE  /\ executed[r] <= Len(assigned'[LeaderOf[r]])
               /\ \A t \in transactions[r] :
                     \E i \in 1..executed[r] : assigned'[LeaderOf[r]][i] = t
    <3>1. executed[r] \in Nat /\ executed[r] <= Len(LogOf(r))
      BY <2>1 DEF RecordsFollowLog, TypeOK
    <3>2. /\ Len(LogOf(r)) \in Nat /\ Len(LogOf(r)) <= Len(assigned'[LeaderOf[r]])
          /\ \A i \in 1..Len(LogOf(r)) : assigned'[LeaderOf[r]][i] = LogOf(r)[i]
      BY <2>2
    <3>3. Len(assigned'[LeaderOf[r]]) \in Nat
      <4>1. LeaderOf[r] \in Server
        BY LeaderType
      <4>2. Append(assigned[s], p.tx) \in Seq(Tx)
        BY <1>1, <1>4
      <4>3. assigned'[LeaderOf[r]] \in Seq(Tx)
        BY <1>4, <4>1, <4>2 DEF TypeOK
      <4> QED BY <4>3
    <3>4. \A t \in transactions[r] : \E i \in 1..executed[r] : LogOf(r)[i] = t
      BY <2>1 DEF RecordsFollowLog
    <3> HIDE DEF LogOf
    <3>5. \A i \in 1..executed[r] : assigned'[LeaderOf[r]][i] = LogOf(r)[i]
      BY <3>1, <3>2
    <3> QED BY <3>1, <3>2, <3>3, <3>4, <3>5
  <2>5. \A r \in Server : \A t \in transactions'[r] \ wal'[r] :
           certified'[r][t] > 0 \/ "2PCabort" \in decided'[t]
    BY <2>1 DEF RecordsFollowLog
  <2>6. executed' = executed /\ transactions' = transactions
    OBVIOUS
  <2>7. ASSUME NEW r \in Server
        PROVE  /\ executed'[r] <= Len(LogOf(r))'
               /\ \A t \in transactions'[r] : \E i \in 1..executed'[r] : LogOf(r)'[i] = t
    <3>1. /\ executed'[r] <= Len(assigned'[LeaderOf[r]])
          /\ \A t \in transactions'[r] :
                \E i \in 1..executed'[r] : assigned'[LeaderOf[r]][i] = t
      BY <2>4, <2>6
    <3> QED BY <3>1 DEF LogOf
  <2> HIDE DEF LogOf
  <2> QED BY <2>3, <2>5, <2>7 DEF RecordsFollowLog
<1> QED BY <1>10, <1>11, <1>12, <1>13 DEF Once

\* A call of the goroutine p returns, and the callee may have acted on the outcome.
LEMMA OnceAdvance ==
    ASSUME TypeOK, ControlInv, ServingInv, Once,
           NEW p \in senders, p.to # <<>>, senders' = Returned(p),
           \A r \in Server : serving[r] \ {p} \subseteq serving'[r],
           UNCHANGED <<script, coord, assigned, executed, transactions, decided>>,
           \/ certified' = certified /\ wal' = wal
           \/ /\ p.kind = "2PCabort" /\ certified' = certified
              /\ wal' = [wal EXCEPT ![Callee(p)] = @ \ {p.tx}]
           \/ /\ p.kind = "2PCcommit"
              /\ certified' = [certified EXCEPT ![Callee(p)][p.tx] = @ + 1]
              /\ wal' = [wal EXCEPT ![Callee(p)] = @ \ {p.tx}]
    PROVE  Once'
<1> DEFINE c == Callee(p)
<1> DEFINE n == [p EXCEPT !.to = Tail(@)]
<1>1. /\ p.tx \in Tx /\ p.to \in Seq(Server) /\ Distinct(p.to)
      /\ p.kind \in {"2PCprepare", "2PCcommit", "2PCabort"}
  BY DEF TypeOK, SenderType, Once, OneSender
<1>2. /\ Distinct(Tail(p.to)) /\ Range(Tail(p.to)) \subseteq Range(p.to)
      /\ c \in Range(p.to) /\ c \notin Range(Tail(p.to)) /\ c \in Server
  <2>1. /\ Distinct(Tail(p.to)) /\ Range(Tail(p.to)) \subseteq Range(p.to)
        /\ Head(p.to) \in Range(p.to) /\ Head(p.to) \notin Range(Tail(p.to))
    BY <1>1, DistinctTail
  <2>2. Range(p.to) \subseteq Server
    BY <1>1 DEF Range
  <2> QED BY <2>1, <2>2 DEF Callee
<1>3. n.tx = p.tx /\ n.kind = p.kind /\ n.to = Tail(p.to)
  BY DEF TypeOK, SenderType
<1>4. \A q \in senders' : (q \in senders /\ q # p) \/ q = n
  BY DEF Returned, Advance
<1> HIDE DEF n, c
<1>5. /\ (Working' <=> Working) /\ Current' = Current
      /\ \A t \in Tx : Waiting(t)' <=> Waiting(t)
  BY DEF Working, Current, Waiting
<1>6. certified \in [Server -> [Tx -> Nat]] /\ wal \in [Server -> SUBSET Tx]
  BY DEF TypeOK
<1>7. \A r \in Server : \A t \in Tx :
         \/ certified'[r][t] = certified[r][t]
         \/ /\ p.kind = "2PCcommit" /\ r = c /\ t = p.tx
            /\ certified'[r][t] = certified[r][t] + 1
  BY <1>1, <1>2, <1>6 DEF c
<1>8. \A r \in Server : \A t \in Tx :
         \/ t \in wal'[r] <=> t \in wal[r]
         \/ p.kind = "2PCabort" /\ t = p.tx
         \/ p.kind = "2PCcommit" /\ t = p.tx /\ certified'[r][t] = certified[r][t] + 1
  <2> DEFINE W(r, t) == t \in wal'[r] <=> t \in wal[r]
  <2>1. CASE wal' = wal
    BY <2>1
  <2>2. CASE wal' = [wal EXCEPT ![c] = @ \ {p.tx}]
    <3>1. \A r \in Server : \A t \in Tx : t = p.tx \/ W(r, t)
      BY <1>6, <2>2
    <3>2. \A r \in Server : r # c => wal'[r] = wal[r]
      BY <1>6, <2>2
    <3>3. CASE p.kind = "2PCabort"
      BY <3>1, <3>3
    <3>4. CASE /\ p.kind = "2PCcommit"
               /\ certified' = [certified EXCEPT ![c][p.tx] = @ + 1]
      <4>1. certified'[c][p.tx] = certified[c][p.tx] + 1
        BY <1>1, <1>2, <1>6, <3>4
      <4> QED BY <3>1, <3>2, <3>4, <4>1
    <3> QED BY <2>2, <3>3, <3>4 DEF c
  <2> QED BY <2>1, <2>2 DEF c
<1>9. /\ p.kind # "2PCprepare" => p.kind \in decided[p.tx]
      /\ p.kind = "2PCprepare" => "2PCcommit" \notin decided[p.tx]
      /\ p.kind = "2PCcommit" => certified[c][p.tx] = 0
  BY <1>2 DEF Once, OneSender, CallsAreNew
<1>10. ASSUME NEW t \in Tx, Waiting(t)' PROVE Untouched(t)'
  <2>1. Untouched(t)
    BY <1>5, <1>10 DEF Once, OneCoordinator
  <2>2. p.tx # t
    BY <2>1 DEF Untouched
  <2>3. \A q \in senders' : q.tx # t
    BY <1>3, <1>4, <2>1, <2>2 DEF Untouched
  <2>4. \A r \in Server : certified'[r][t] = 0
    BY <1>7, <2>1, <2>2 DEF Untouched
  <2> QED BY <2>1, <2>3, <2>4 DEF Untouched
<1>11. ASSUME Working' PROVE Begun(Current)'
  <2>1. Begun(Current) /\ Current' = Current
    BY <1>5, <1>11 DEF Once, OneCoordinator
  <2>2. p.tx = Current => p.kind = "2PCprepare"
    BY <2>1 DEF Begun
  <2>3. \A q \in senders' : q.tx = Current => q.kind = "2PCprepare"
    BY <1>3, <1>4, <2>1, <2>2 DEF Begun
  <2>4. \A r \in Server : certified'[r][Current] = 0
    <3>1. p.kind = "2PCcommit" => p.tx # Current
      BY <2>2
    <3>2. Current \in Tx
      BY <1>5, <1>11, CurrentType DEF ControlInv, Working
    <3>3. \A r \in Server : certified'[r][Current] = certified[r][Current]
      BY <1>7, <3>1, <3>2
    <3> QED BY <2>1, <3>3 DEF Begun
  <2> QED BY <2>1, <2>3, <2>4 DEF Begun
<1>12. OneCoordinator'
  BY <1>10, <1>11 DEF Once, OneCoordinator
<1>13. OneDecision'
  BY DEF Once, OneDecision
<1>14. OneSender'
  <2>1. OneSender
    BY DEF Once
  <2>2. \A q \in senders' : Distinct(q.to)
    BY <1>2, <1>3, <1>4, <2>1 DEF OneSender
  <2>3. \A q, r \in senders' : q.tx = r.tx /\ q.kind = r.kind => q = r
    BY <1>3, <1>4, <2>1 DEF OneSender
  <2>4. \A q \in senders' : /\ q.kind # "2PCprepare" => q.kind \in decided[q.tx]
                            /\ q.kind = "2PCprepare" => "2PCcommit" \notin decided[q.tx]
    BY <1>3, <1>4, <1>9, <2>1 DEF OneSender
  <2> QED BY <2>2, <2>3, <2>4 DEF OneSender
<1>15. CallsAreNew'
  <2>1. CallsAreNew /\ OneSender
    BY DEF Once
  <2>2. ASSUME NEW q \in senders', NEW r \in Range(q.to),
               q.kind = "2PCprepare", q \notin serving'[r]
        PROVE  q.tx \notin Range(assigned[r])
    <3>1. CASE q \in senders /\ q # p
      <4>1. r \in Server
        BY <2>2, <3>1 DEF TypeOK, SenderType, Range
      <4> QED BY <2>1, <2>2, <3>1, <4>1 DEF CallsAreNew
    <3>2. CASE q = n
      <4>1. r \in Range(p.to) /\ r # c
        BY <1>2, <1>3, <2>2, <3>2
      <4>2. r \in Server
        BY <1>1, <4>1 DEF Range
      <4>3. p \notin serving[r]
        BY <4>1, <4>2 DEF ServingInv, c
      <4> QED BY <1>3, <2>1, <2>2, <3>2, <4>1, <4>3 DEF CallsAreNew
    <3> QED BY <1>4, <3>1, <3>2
  <2>3. ASSUME NEW q \in senders', NEW r \in Range(q.to), q.kind = "2PCcommit"
        PROVE  certified'[r][q.tx] = 0
    <3>1. CASE q \in senders /\ q # p
      <4>1. r \in Server /\ q.tx \in Tx
        BY <2>3, <3>1 DEF TypeOK, SenderType, Range
      <4>2. p.kind = "2PCcommit" => q.tx # p.tx
        BY <2>1, <2>3, <3>1 DEF OneSender
      <4>3. certified[r][q.tx] = 0
        BY <2>1, <2>3, <3>1 DEF CallsAreNew
      <4> QED BY <1>7, <4>1, <4>2, <4>3
    <3>2. CASE q = n
      <4>1. r \in Range(p.to) /\ r # c
        BY <1>2, <1>3, <2>3, <3>2
      <4>2. r \in Server
        BY <1>1, <4>1 DEF Range
      <4>3. certified[r][p.tx] = 0
        BY <1>3, <2>1, <2>3, <3>2, <4>1 DEF CallsAreNew
      <4> QED BY <1>1, <1>3, <1>7, <3>2, <4>1, <4>2, <4>3
    <3> QED BY <1>4, <3>1, <3>2
  <2> QED BY <2>2, <2>3 DEF CallsAreNew
<1>16. CertifiedOnce'
  <2>1. ASSUME NEW r \in Server, NEW t \in Tx
        PROVE  certified'[r][t] <= (IF "2PCcommit" \in decided[t] THEN 1 ELSE 0)
    BY <1>7, <1>9 DEF Once, CertifiedOnce
  <2> QED BY <2>1 DEF CertifiedOnce
<1>17. RecordsFollowLog'
  <2>1. RecordsFollowLog
    BY DEF Once
  <2>2. ASSUME NEW r \in Server, NEW t \in transactions[r] \ wal'[r]
        PROVE  certified'[r][t] > 0 \/ "2PCabort" \in decided[t]
    <3>1. t \in Tx /\ certified[r][t] \in Nat
      BY <1>6 DEF TypeOK
    <3>2. CASE t \in wal[r]
      BY <1>8, <1>9, <2>2, <3>1, <3>2
    <3>3. CASE t \notin wal[r]
      <4>1. certified[r][t] > 0 \/ "2PCabort" \in decided[t]
        BY <2>1, <2>2, <3>3 DEF RecordsFollowLog
      <4>2. certified'[r][t] >= certified[r][t]
        BY <1>7, <3>1
      <4>3. certified'[r][t] \in Nat
        BY <1>7, <3>1
      <4> QED BY <3>1, <4>1, <4>2, <4>3
    <3> QED BY <3>2, <3>3
  <2>3. \A r \in Server : LogOf(r)' = LogOf(r)
    BY DEF LogOf
  <2>4. executed' = executed /\ transactions' = transactions /\ assigned' = assigned
        /\ decided' = decided
    OBVIOUS
  <2>5. \A r \in Server : \A t \in transactions'[r] \ wal'[r] :
           certified'[r][t] > 0 \/ "2PCabort" \in decided'[t]
    BY <2>2, <2>4
  <2> HIDE DEF LogOf
  <2> QED BY <2>1, <2>3, <2>4, <2>5 DEF RecordsFollowLog
<1> QED BY <1>12, <1>13, <1>14, <1>15, <1>16, <1>17 DEF Once

\* A server executes the next entry of its cluster's log, which it has not recorded.
LEMMA OnceExecute ==
    ASSUME TypeOK, Once, NEW s \in Server, NEW t \in Tx,
           executed[s] < Len(LogOf(s)), t = LogOf(s)[executed[s] + 1],
           wal' = [wal EXCEPT ![s] = @ \cup {t}],
           transactions' = [transactions EXCEPT ![s] = @ \cup {t}],
           executed' = [executed EXCEPT ![s] = @ + 1],
           UNCHANGED <<script, coord, senders, serving, assigned, certified, decided>>
    PROVE  Once'
<1>1. /\ (Working' <=> Working) /\ Current' = Current
      /\ \A u \in Tx : Waiting(u)' <=> Waiting(u)
  BY DEF Working, Current, Waiting
<1>2. OneCoordinator'
  <2>1. OneCoordinator
    BY DEF Once
  <2>2. \A u \in Tx : Untouched(u)' <=> Untouched(u)
    BY DEF Untouched
  <2>3. Begun(Current) => Begun(Current)'
    BY <1>1 DEF Begun
  <2> QED BY <1>1, <2>1, <2>2, <2>3 DEF OneCoordinator
<1>3. OneDecision' /\ OneSender' /\ CertifiedOnce' /\ CallsAreNew'
  BY DEF Once, OneDecision, OneSender, CertifiedOnce, CallsAreNew
<1>4. RecordsFollowLog'
  <2>1. RecordsFollowLog
    BY DEF Once
  <2>2. /\ executed \in [Server -> Nat] /\ transactions \in [Server -> SUBSET Tx]
        /\ wal \in [Server -> SUBSET Tx]
    BY DEF TypeOK
  <2>3. /\ executed'[s] = executed[s] + 1
        /\ transactions'[s] = transactions[s] \cup {t}
        /\ wal'[s] = wal[s] \cup {t}
        /\ \A r \in Server \ {s} : /\ executed'[r] = executed[r]
                                   /\ transactions'[r] = transactions[r] /\ wal'[r] = wal[r]
    BY <2>2
  <2>4. ASSUME NEW r \in Server PROVE LogOf(r)' = LogOf(r) /\ Len(LogOf(r)) \in Nat
    <3>1. LeaderOf[r] \in Server
      BY LeaderType
    <3>2. assigned[LeaderOf[r]] \in Seq(Tx)
      BY <3>1 DEF TypeOK
    <3> QED BY <3>2 DEF LogOf
  <2>5. assigned' = assigned /\ certified' = certified /\ decided' = decided
    OBVIOUS
  <2> HIDE DEF LogOf
  <2>6. ASSUME NEW r \in Server
        PROVE  /\ executed'[r] <= Len(LogOf(r))
               /\ \A u \in transactions'[r] : \E i \in 1..executed'[r] : LogOf(r)[i] = u
    <3>1. /\ executed[r] <= Len(LogOf(r)) /\ executed[r] \in Nat
          /\ \A u \in transactions[r] : \E i \in 1..executed[r] : LogOf(r)[i] = u
      BY <2>1, <2>2 DEF RecordsFollowLog
    <3>2. CASE r = s
      <4>1. executed[s] + 1 \in 1..executed'[s] /\ 1..executed[s] \subseteq 1..executed'[s]
        BY <2>3, <3>1, <3>2
      <4>2. ASSUME NEW u \in transactions'[s] PROVE \E i \in 1..executed'[s] : LogOf(s)[i] = u
        <5>1. CASE u = t
          BY <4>1, <5>1
        <5>2. CASE u \in transactions[s]
          BY <3>1, <3>2, <4>1, <5>2
        <5> QED BY <2>3, <5>1, <5>2
      <4>3. executed'[s] <= Len(LogOf(s))
        BY <2>3, <2>4, <3>1, <3>2
      <4> QED BY <3>2, <4>2, <4>3
    <3>3. CASE r # s
      BY <2>3, <3>1, <3>3
    <3> QED BY <3>2, <3>3
  <2>7. ASSUME NEW r \in Server, NEW u \in transactions'[r] \ wal'[r]
        PROVE  certified[r][u] > 0 \/ "2PCabort" \in decided[u]
    <3>1. u \in transactions[r] \ wal[r]
      BY <2>3, <2>7
    <3> QED BY <2>1, <3>1 DEF RecordsFollowLog
  <2> QED BY <2>1, <2>4, <2>5, <2>6, <2>7 DEF RecordsFollowLog
<1> QED BY <1>2, <1>3, <1>4 DEF Once

\* The list of a sender the coordinator starts.
LEMMA OthersDistinct ==
    ASSUME NEW list \in Seq(Server), Distinct(list), NEW s
    PROVE  Distinct(Others(list, s))
<1>1. \A i, j \in DOMAIN list : list[i] = list[j] => i = j
  BY DEF Distinct
<1>2. \A i, j \in DOMAIN Keep(list, Server \ {s}) :
         Keep(list, Server \ {s})[i] = Keep(list, Server \ {s})[j] => i = j
  BY <1>1, KeepDistinct
<1> QED BY <1>2 DEF Others, Distinct

\* No server meets the same transfer twice in its cluster's log.
LEMMA NothingTwice ==
    ASSUME TypeOK, TablesInv, Once, NEW s \in Server, NEW t \in Tx, ExecuteAgain(s, t)
    PROVE  FALSE
<1>1. t \in transactions[s]
  BY DEF ExecuteAgain, TablesInv
<1>2. /\ executed[s] < Len(LogOf(s)) /\ t = LogOf(s)[executed[s] + 1]
      /\ executed[s] \in Nat
  BY DEF ExecuteAgain, Executable, TypeOK
<1>3. LogOf(s) \in Seq(Tx) /\ Distinct(LogOf(s))
  BY LeaderType DEF LogOf, TypeOK, Once, RecordsFollowLog
<1>4. PICK i \in 1..executed[s] : LogOf(s)[i] = t
  BY <1>1 DEF Once, RecordsFollowLog
<1> HIDE DEF LogOf
<1>5. i \in DOMAIN LogOf(s) /\ executed[s] + 1 \in DOMAIN LogOf(s) /\ i # executed[s] + 1
  BY <1>2, <1>3
<1> QED BY <1>2, <1>3, <1>4, <1>5 DEF Distinct

\* The count of lost replies never falls.
LEMMA Quiet ==
    ASSUME TypeOK, [Next]_vars, lostReplies' = 0
    PROVE  lostReplies = 0
<1> USE DEF client, process, handler, cluster, db
<1>1. lostReplies' = lostReplies \/ lostReplies' = lostReplies + 1
  BY DEF Next, vars, Drive, Submit, RetryTimer, Coordinate, RejectSignature, RefuseTransfer,
         PollSource, StartPrepare, AnswerInTime, PrepareTimeout, Decide, Answer, Participate,
         PrepareWithoutKeys, ReplyAck, PollReceiver, AcceptPrepare, HandleCommit, HandleAbort,
         CallNext, FinishPrepare, Execute, ExecuteAgain, ClientDialFails, SkipNext, CallFails
<1>2. lostReplies \in Nat
  BY DEF TypeOK
<1> QED BY <1>1, <1>2

LEMMA OnceStep ==
    ASSUME BaseInv, OnceInv, [Next]_vars
    PROVE  OnceInv'
<1> SUFFICES ASSUME lostReplies' = 0 PROVE Once'
  BY DEF OnceInv
<1> USE DEF client, process, handler, cluster, db
<1>1. TypeOK /\ ControlInv /\ ServingInv /\ TablesInv
  BY DEF BaseInv
<1>2. lostReplies = 0 /\ Once
  BY <1>1, Quiet DEF OnceInv
<1>3. \A p \in senders : /\ p.tx \in Tx /\ p.to \in Seq(Server) /\ p \in SenderType
                         /\ p.to # <<>> => Callee(p) \in Server
  <2>1. ASSUME NEW p \in senders, p.to # <<>> PROVE Head(p.to) \in Server
    <3>1. p.to \in Seq(Server)
      BY <1>1 DEF TypeOK, SenderType
    <3> QED BY <2>1, <3>1
  <2> QED BY <1>1, <2>1 DEF TypeOK, SenderType, Callee
<1>4. driver.phase = "calling" => /\ script # <<>> /\ Current \in Tx /\ Contact \in Server
                                  /\ (Fails => script' = script \/ script' = Tail(script))
  BY <1>1, CurrentType, FailsType
<1>5. ASSUME UNCHANGED <<coord, senders, serving, assigned, executed, transactions, wal,
                         certified, decided>>,
             \/ script' = script
             \/ script # <<>> /\ script' = Tail(script) /\ coord = "none"
      PROVE  Once'
  BY <1>1, <1>2, <1>5, OnceQuiet
<1>6. CASE Drive \/ UNCHANGED vars
  BY <1>5, <1>6 DEF Drive, Submit, RetryTimer, vars
<1>7. CASE ClientDialFails \/ RefuseTransfer
  BY <1>4, <1>5, <1>7 DEF ClientDialFails, RefuseTransfer, Calling
<1>8. CASE RejectSignature
  BY <1>5, <1>8 DEF RejectSignature
<1>9. CASE PollSource
  <2>1. /\ script' = script /\ coord = "none" /\ coord' = "polling"
        /\ UNCHANGED <<senders, serving, assigned, executed, transactions, wal, certified,
                       decided>>
    BY <1>9 DEF PollSource, CanStart, Calling
  <2> QED BY <1>1, <1>2, <2>1, OnceQuiet
<1>10. CASE StartPrepare
  <2> DEFINE n == Sender("2PCprepare", Current, driver.retries,
                         transactions[Contact] # {} \/ \E t \in Tx : certified[Contact][t] > 0,
                         Others(Request[Current].destinationActive, Contact))
  <2>1. /\ coord = "none" /\ coord' = "preparing" /\ driver.phase = "calling"
        /\ senders' = senders \cup {n}
        /\ UNCHANGED <<script, serving, assigned, executed, transactions, wal, certified,
                       decided>>
    BY <1>10 DEF StartPrepare, CanStart, Calling
  <2>2. Current \in Tx /\ script # <<>>
    BY <1>4, <2>1
  <2>3. n.tx = Current /\ n.kind = "2PCprepare"
        /\ n.to = Others(Request[Current].destinationActive, Contact)
    BY DEF Sender
  <2> HIDE DEF n
  <2>4. Distinct(n.to) /\ n.to \in Seq(Server)
    BY <2>2, <2>3, RequestType, OthersDistinct, OthersType
  <2>5. \A s \in Range(n.to) : s \in Server
    BY <2>4 DEF Range
  <2> QED BY <1>1, <1>2, <2>1, <2>2, <2>3, <2>4, <2>5, OnceStart
<1>11. CASE AnswerInTime
  <2>1. coord = "preparing" /\ Current \in Tx /\ Working
    BY <1>1, <1>4, <1>11 DEF AnswerInTime, ControlInv, Working
  <2>2. PICK p \in Answers : senders' = senders \ {p}
    BY <1>11 DEF AnswerInTime
  <2>3. /\ coord' = "2PCcommit"
        /\ decided' = [decided EXCEPT ![Current] = @ \cup {"2PCcommit"}]
        /\ UNCHANGED <<script, serving, assigned, executed, transactions, wal, certified>>
    BY <1>11 DEF AnswerInTime, Decide
  <2>4. \A q \in senders' : q.tx # Current
    <3>1. Begun(Current) /\ OneSender
      BY <1>2, <2>1 DEF Once, OneCoordinator
    <3>2. p \in senders /\ p.tx = Current /\ p.kind = "2PCprepare"
      BY DEF Answers
    <3> QED BY <2>2, <3>1, <3>2 DEF Begun, OneSender
  <2>5. senders' \subseteq senders
    BY <2>2
  <2> QED BY <1>1, <1>2, <2>1, <2>3, <2>4, <2>5, OnceDecide
<1>12. CASE PrepareTimeout
  <2>1. coord = "preparing" /\ Current \in Tx
    BY <1>1, <1>4, <1>12 DEF PrepareTimeout, ControlInv
  <2>2. /\ coord' = "2PCabort" /\ senders' = senders
        /\ decided' = [decided EXCEPT ![Current] = @ \cup {"2PCabort"}]
        /\ UNCHANGED <<script, serving, assigned, executed, transactions, wal, certified>>
    BY <1>12 DEF PrepareTimeout, Decide
  <2> QED BY <1>1, <1>2, <2>1, <2>2, OnceDecide
<1>13. CASE Answer
  <2>1. /\ coord \in {"2PCcommit", "2PCabort"} /\ coord' = "none"
        /\ script # <<>> /\ Current \in Tx
    BY <1>1, <1>4, <1>13 DEF Answer, ControlInv
  <2> DEFINE N == DecisionSender(coord)
  <2>2. /\ senders' = senders \cup N
        /\ UNCHANGED <<serving, assigned, executed, transactions, wal, certified, decided>>
    BY <1>13 DEF Answer
  <2>3. script' = Tail(script)
    <3>1. lostReplies' # lostReplies + 1
      BY <1>2
    <3> QED BY <1>13, <3>1 DEF Answer, ReportsSuccess, Succeeds, NextTransfer
  <2>4. /\ \A m, n \in N : m = n
        /\ \A n \in N : n.tx = Current /\ n.kind = coord
                        /\ n.to = Others(Request[Current].destinationActive, Contact)
    <3> DEFINE g == Sender(coord, Current, driver.retries, FALSE,
                           Others(Request[Current].destinationActive, Contact))
    <3>1. N \subseteq {g}
      BY DEF DecisionSender
    <3>2. /\ g.tx = Current /\ g.kind = coord
          /\ g.to = Others(Request[Current].destinationActive, Contact)
      BY DEF Sender
    <3> HIDE DEF N, g
    <3> QED BY <3>1, <3>2
  <2> HIDE DEF N
  <2>5. \A n \in N : Distinct(n.to) /\ n.to \in Seq(Server)
    BY <2>1, <2>4, RequestType, OthersDistinct, OthersType
  <2>6. \A n \in N : \A s \in Range(n.to) : s \in Server
    BY <2>5 DEF Range
  <2> QED BY <1>1, <1>2, <2>1, <2>2, <2>3, <2>4, <2>5, <2>6, OnceAnswer
<1>14. ASSUME NEW s \in Server, CallNext(s) \/ SkipNext(s) PROVE Once'
  BY <1>5, <1>14 DEF CallNext, SkipNext
<1>15. ASSUME NEW s \in Server, FinishPrepare(s) PROVE Once'
  <2>1. PICK p \in serving[s] : senders' = Returned(p)
    BY <1>15 DEF FinishPrepare
  <2>2. p \in senders /\ p.to # <<>>
    BY <1>1 DEF ServingInv
  <2>3. \A r \in Server : serving[r] \ {p} \subseteq serving'[r]
    <3>1. serving' = [serving EXCEPT ![s] = {}] /\ serving \in [Server -> SUBSET SenderType]
      BY <1>1, <1>15 DEF FinishPrepare, TypeOK
    <3>2. serving[s] = {p}
      BY <1>1, <2>1 DEF ServingInv
    <3> QED BY <3>1, <3>2
  <2>4. UNCHANGED <<script, coord, assigned, executed, transactions, wal, certified, decided>>
    BY <1>15 DEF FinishPrepare
  <2> QED BY <1>1, <1>2, <2>1, <2>2, <2>3, <2>4, OnceAdvance
<1>16. ASSUME NEW p \in senders, CallFails(p) \/ ReplyAck(p) PROVE Once'
  <2>1. /\ p.to # <<>> /\ senders' = Returned(p)
        /\ UNCHANGED <<script, coord, serving, assigned, executed, transactions, wal,
                       certified, decided>>
    BY <1>16 DEF CallFails, ReplyAck, Receives
  <2> QED BY <1>1, <1>2, <2>1, OnceAdvance
<1>17. ASSUME NEW p \in senders, HandleCommit(p) PROVE Once'
  <2>1. /\ p.to # <<>> /\ p.kind = "2PCcommit" /\ senders' = Returned(p)
        /\ certified' = [certified EXCEPT ![Callee(p)][p.tx] = @ + 1]
        /\ wal' = [wal EXCEPT ![Callee(p)] = @ \ {p.tx}]
        /\ UNCHANGED <<script, coord, serving, assigned, executed, transactions, decided>>
    BY <1>17 DEF HandleCommit, Receives
  <2> QED BY <1>1, <1>2, <2>1, OnceAdvance
<1>18. ASSUME NEW p \in senders, HandleAbort(p) PROVE Once'
  <2>1. /\ p.to # <<>> /\ p.kind = "2PCabort" /\ senders' = Returned(p)
        /\ wal' = wal \/ wal' = [wal EXCEPT ![Callee(p)] = @ \ {p.tx}]
        /\ UNCHANGED <<script, coord, serving, assigned, executed, transactions, certified,
                       decided>>
    BY <1>18 DEF HandleAbort, Receives
  <2> QED BY <1>1, <1>2, <2>1, OnceAdvance
<1>19. ASSUME NEW p \in senders, PrepareWithoutKeys(p) PROVE Once'
  BY <1>5, <1>19 DEF PrepareWithoutKeys
<1>20. ASSUME NEW p \in senders, PollReceiver(p) PROVE Once'
  <2>1. serving[Callee(p)] = {}
    BY <1>1, <1>3, <1>20 DEF PollReceiver, CanPrepare, Receives, ServingInv
  <2>2. \A s \in Server : serving[s] \subseteq serving'[s]
    <3>1. /\ serving' = [serving EXCEPT ![Callee(p)] = {p}]
          /\ serving \in [Server -> SUBSET SenderType]
      BY <1>1, <1>20 DEF PollReceiver, TypeOK
    <3> QED BY <2>1, <3>1
  <2>3. UNCHANGED <<script, coord, senders, assigned, executed, transactions, wal, certified,
                    decided>>
    BY <1>20 DEF PollReceiver
  <2> QED BY <1>1, <1>2, <2>2, <2>3, OnceQuiet
<1>21. ASSUME NEW p \in senders, AcceptPrepare(p) PROVE Once'
  <2>1. /\ p.kind = "2PCprepare" /\ p.to # <<>> /\ mu[Callee(p)] = "free"
        /\ assigned' = [assigned EXCEPT ![Callee(p)] = Append(@, p.tx)]
        /\ serving' = [serving EXCEPT ![Callee(p)] = {p}]
        /\ UNCHANGED <<script, coord, senders, executed, transactions, wal, certified, decided>>
    BY <1>21 DEF AcceptPrepare, CanPrepare, Receives
  <2>2. Callee(p) \in Server
    BY <1>3, <2>1
  <2> QED BY <1>1, <1>2, <2>1, <2>2, OnceAccept
<1>22. ASSUME NEW s \in Server, NEW t \in Tx, Execute(s, t) PROVE Once'
  <2>1. /\ executed[s] < Len(LogOf(s)) /\ t = LogOf(s)[executed[s] + 1]
        /\ wal' = [wal EXCEPT ![s] = @ \cup {t}]
        /\ transactions' = [transactions EXCEPT ![s] = @ \cup {t}]
        /\ executed' = [executed EXCEPT ![s] = @ + 1]
        /\ UNCHANGED <<script, coord, senders, serving, assigned, certified, decided>>
    BY <1>22 DEF Execute, Executable
  <2> QED BY <1>1, <1>2, <2>1, OnceExecute
<1>23. ASSUME NEW s \in Server, NEW t \in Tx, ExecuteAgain(s, t) PROVE FALSE
  BY <1>1, <1>2, <1>23, NothingTwice
<1> QED BY <1>6, <1>7, <1>8, <1>9, <1>10, <1>11, <1>12, <1>13, <1>14, <1>15, <1>16, <1>17,
           <1>18, <1>19, <1>20, <1>21, <1>22, <1>23
        DEF Next, Drive, Coordinate, Participate

\* Each transfer is recorded once, for every instance and any number of faults, as long
\* as no reply of a coordinator is lost.
LEMMA OnceInvariant == Spec => []OnceInv
<1>1. Init => OnceInv
  <2> SUFFICES ASSUME Init PROVE Once
    BY DEF OnceInv
  <2>1. OneCoordinator
    <3>1. Distinct(script)
      BY CrossShardAssumption DEF Init, Distinct
    <3>2. \A t \in Tx : Untouched(t)
      BY DEF Init, Untouched, Range
    <3>3. ~Working
      BY DEF Init, Working
    <3> QED BY <3>1, <3>2, <3>3 DEF OneCoordinator
  <2>2. OneDecision /\ OneSender /\ CallsAreNew /\ CertifiedOnce
    BY DEF Init, OneDecision, OneSender, CallsAreNew, CertifiedOnce
  <2>3. RecordsFollowLog
    <3>1. ASSUME NEW s \in Server
          PROVE  assigned[s] = <<>> /\ LogOf(s) = <<>> /\ executed[s] = 0 /\ transactions[s] = {}
      BY LeaderType DEF Init, LogOf
    <3>2. Distinct(<<>>) /\ Len(<<>>) = 0
      BY DEF Distinct
    <3> HIDE DEF LogOf
    <3> QED BY <3>1, <3>2 DEF RecordsFollowLog
  <2> QED BY <2>1, <2>2, <2>3 DEF Once
<1>2. BaseInv /\ OnceInv /\ [Next]_vars => OnceInv'
  BY OnceStep
<1> QED BY <1>1, <1>2, BaseInvariant, PTL DEF Spec

\* A transfer is decided one way only, and recorded at most once and after a commit only.
THEOREM OutcomesOnceHolds == Spec => []OutcomesOnce
<1>1. OnceInv => OutcomesOnce
  <2> SUFFICES ASSUME Once, NEW t \in Tx
               PROVE  /\ Cardinality(decided[t]) <= 1
                      /\ \A s \in Server :
                            certified[s][t] <= (IF "2PCcommit" \in decided[t] THEN 1 ELSE 0)
    BY DEF OnceInv, OutcomesOnce
  <2>1. PICK d \in {"2PCcommit", "2PCabort"} : decided[t] \subseteq {d}
    BY DEF Once, OneDecision
  <2>2. IsFiniteSet({d}) /\ Cardinality({d}) = 1
    BY FS_Singleton
  <2>3. Cardinality(decided[t]) <= 1
    BY <2>1, <2>2, FS_Subset
  <2> QED BY <2>3 DEF Once, CertifiedOnce
<1> QED BY <1>1, OnceInvariant, PTL

-----------------------------------------------------------------------------
(* Locked rows.                                                            *)

\* s has numbered t, and its tables show neither a commit nor an undo of t.
Open(s, t) == Prepared(s, t) /\ certified[s][t] = 0 /\ ~Undone(s, t)

\* Why the row of a is locked at s, as far as its own tables tell.
Explained(s, a) ==
    \/ CoordinatorsRow(s, a)
    \/ \E t \in Tx : Destination(t) = a /\ Open(s, t)

LocksHaveCause == lostReplies = 0 => \A s \in Server : \A a \in lock[s] : Explained(s, a)

\* A transfer that a server is asked to prepare is new to it.
LEMMA PreparedIsNew ==
    ASSUME TypeOK, ServingInv, Once, NEW p \in senders, CanPrepare(p)
    PROVE  /\ Callee(p) \in Server /\ p.tx \in Tx
           /\ certified[Callee(p)][p.tx] = 0
           /\ p.tx \notin transactions[Callee(p)]
<1> DEFINE s == Callee(p)
<1>1. /\ p.kind = "2PCprepare" /\ p.to # <<>> /\ mu[s] = "free" /\ LeaderOf[s] = s
  BY DEF CanPrepare, Receives, Leader
<1>2. /\ p.tx \in Tx /\ p.to \in Seq(Server)
  BY DEF TypeOK, SenderType
<1>3. s \in Server /\ s \in Range(p.to)
  <2>1. Head(p.to) = p.to[1] /\ 1 \in DOMAIN p.to /\ p.to[1] \in Server
    BY <1>1, <1>2
  <2> QED BY <2>1 DEF Range, Callee
<1>4. "2PCcommit" \notin decided[p.tx]
  BY <1>1 DEF Once, OneSender
<1>5. certified[s][p.tx] = 0
  <2>1. certified[s][p.tx] <= 0
    BY <1>2, <1>3, <1>4 DEF Once, CertifiedOnce
  <2>2. certified[s][p.tx] \in Nat
    BY <1>2, <1>3 DEF TypeOK
  <2> QED BY <2>1, <2>2
<1>6. p.tx \notin Range(assigned[s])
  BY <1>1, <1>3 DEF Once, CallsAreNew, ServingInv
<1>7. ASSUME p.tx \in transactions[s] PROVE FALSE
  <2> HIDE DEF s
  <2>1. PICK i \in 1..executed[s] : LogOf(s)[i] = p.tx
    BY <1>3, <1>7 DEF Once, RecordsFollowLog
  <2>2. executed[s] <= Len(assigned[s]) /\ LogOf(s) = assigned[s]
    BY <1>1, <1>3 DEF Once, RecordsFollowLog, LogOf
  <2>3. executed[s] \in Nat /\ assigned[s] \in Seq(Tx)
    BY <1>3 DEF TypeOK
  <2>4. i \in DOMAIN assigned[s]
    BY <2>2, <2>3
  <2> QED BY <1>6, <2>1, <2>2, <2>4 DEF Range
<1> QED BY <1>2, <1>3, <1>5, <1>7

LEMMA LocksStep ==
    ASSUME BaseInv, OnceInv, LocksHaveCause, [Next]_vars
    PROVE  LocksHaveCause'
<1> SUFFICES ASSUME lostReplies' = 0,
                    NEW s \in Server, NEW a \in lock'[s]
             PROVE  Explained(s, a)'
  BY DEF LocksHaveCause
<1> USE DEF client, process, handler, cluster, db
<1>1. TypeOK /\ ControlInv /\ ServingInv /\ TablesInv
  BY DEF BaseInv
<1>2. Once /\ \A b \in lock[s] : Explained(s, b)
  BY <1>1, Quiet DEF OnceInv, LocksHaveCause
<1>3. /\ lock \in [Server -> SUBSET Account]
      /\ mu \in [Server -> {"free", "polling", "coordinating", "participating", "leaked"}]
      /\ assigned \in [Server -> Seq(Tx)] /\ assigned[s] \in Seq(Tx)
      /\ transactions \in [Server -> SUBSET Tx] /\ wal \in [Server -> SUBSET Tx]
      /\ certified \in [Server -> [Tx -> Nat]]
  BY <1>1 DEF TypeOK
<1>4. \A p \in senders : p.tx \in Tx
  BY <1>1 DEF TypeOK, SenderType
\* Why the row was locked is still true.
<1>5. ASSUME a \in lock[s],
             mu[s] = "coordinating" => mu'[s] = "coordinating" /\ script' = script,
             \A t \in Tx : Destination(t) = a /\ Open(s, t) => Open(s, t)'
      PROVE  Explained(s, a)'
  BY <1>2, <1>5 DEF Explained, CoordinatorsRow, Current
<1>6. ASSUME lock'[s] \subseteq lock[s],
             mu[s] = "coordinating" => mu'[s] = "coordinating" /\ script' = script,
             UNCHANGED <<assigned, transactions, wal, certified>>
      PROVE  Explained(s, a)'
  <2>1. \A t \in Tx : Open(s, t) => Open(s, t)'
    BY <1>6 DEF Open, Prepared, Range, Undone
  <2> QED BY <1>5, <1>6, <2>1
<1>7. driver.phase = "calling" => Contact \in Server
  BY <1>1, CurrentType
<1>8. coord = "none" => mu[s] # "coordinating"
  BY <1>1 DEF ControlInv, Working
<1>9. CASE Drive \/ ClientDialFails \/ UNCHANGED vars
  BY <1>6, <1>8, <1>9 DEF Drive, Submit, RetryTimer, ClientDialFails, Calling, vars
<1>10. CASE RejectSignature \/ RefuseTransfer
  BY <1>6, <1>8, <1>10 DEF RejectSignature, RefuseTransfer, Calling
<1>11. CASE PollSource
  <2>1. mu[s] # "coordinating"
    BY <1>8, <1>11 DEF PollSource, CanStart, Calling
  <2> QED BY <1>6, <1>11, <2>1 DEF PollSource
<1>12. CASE StartPrepare
  <2>1. /\ lock' = [lock EXCEPT ![Contact] = @ \cup {Source(Current)}]
        /\ mu' = [mu EXCEPT ![Contact] = "coordinating"]
        /\ UNCHANGED <<script, assigned, transactions, wal, certified>>
    BY <1>12 DEF StartPrepare
  <2>2. mu[s] # "coordinating" /\ Contact \in Server
    BY <1>7, <1>8, <1>12 DEF StartPrepare, CanStart, Calling
  <2>3. CASE a \in lock[s]
    <3>1. \A t \in Tx : Open(s, t) => Open(s, t)'
      BY <2>1 DEF Open, Prepared, Range, Undone
    <3> QED BY <1>5, <2>2, <2>3, <3>1
  <2>4. CASE a \notin lock[s]
    <3>1. s = Contact /\ a = Source(Current) /\ mu'[s] = "coordinating"
      BY <1>3, <2>1, <2>2, <2>4
    <3>2. Source(Current)' = Source(Current)
      BY <2>1 DEF Source, Current
    <3> QED BY <3>1, <3>2 DEF Explained, CoordinatorsRow
  <2> QED BY <2>3, <2>4
<1>13. CASE AnswerInTime \/ PrepareTimeout
  BY <1>6, <1>13 DEF AnswerInTime, PrepareTimeout, Decide
<1>14. CASE Answer
  <2>1. /\ lock' = [lock EXCEPT ![Contact] = @ \ {Source(Current)}]
        /\ mu' = [mu EXCEPT ![Contact] = "free"]
        /\ UNCHANGED <<assigned, transactions, wal, certified>>
    BY <1>14 DEF Answer, Unlocked
  <2>2. a \in lock[s] /\ ~ (s = Contact /\ a = Source(Current))
    BY <1>3, <2>1
  <2>3. mu[s] = "coordinating" => s = Contact
    BY <1>1 DEF ControlInv
  <2>4. PICK t \in Tx : Destination(t) = a /\ Open(s, t)
    BY <1>2, <2>2, <2>3 DEF Explained, CoordinatorsRow
  <2>5. Open(s, t)'
    BY <2>1, <2>4 DEF Open, Prepared, Range, Undone
  <2> QED BY <2>4, <2>5 DEF Explained, CoordinatorsRow
<1>15. ASSUME NEW r \in Server, CallNext(r) \/ SkipNext(r) PROVE Explained(s, a)'
  BY <1>6, <1>15 DEF CallNext, SkipNext
<1>16. ASSUME NEW r \in Server, FinishPrepare(r) PROVE Explained(s, a)'
  <2>1. mu[r] = "participating" /\ mu' = [mu EXCEPT ![r] = "free"]
    BY <1>16 DEF FinishPrepare
  <2>2. mu[s] = "coordinating" => mu'[s] = "coordinating"
    BY <1>3, <2>1
  <2> QED BY <1>6, <1>16, <2>2 DEF FinishPrepare
<1>17. ASSUME NEW p \in senders, CallFails(p) \/ PrepareWithoutKeys(p) \/ ReplyAck(p)
       PROVE  Explained(s, a)'
  BY <1>6, <1>17 DEF CallFails, PrepareWithoutKeys, ReplyAck
<1>18. ASSUME NEW p \in senders, PollReceiver(p) PROVE Explained(s, a)'
  <2>1. mu[Callee(p)] = "free" /\ mu' = [mu EXCEPT ![Callee(p)] = "polling"]
    BY <1>18 DEF PollReceiver, CanPrepare, Receives
  <2>2. mu[s] = "coordinating" => mu'[s] = "coordinating"
    BY <1>3, <2>1
  <2> QED BY <1>6, <1>18, <2>2 DEF PollReceiver
<1>19. ASSUME NEW p \in senders, AcceptPrepare(p) PROVE Explained(s, a)'
  <2>1. /\ CanPrepare(p)
        /\ lock' = [lock EXCEPT ![Callee(p)] = @ \cup {Destination(p.tx)}]
        /\ assigned' = [assigned EXCEPT ![Callee(p)] = Append(@, p.tx)]
        /\ mu' = [mu EXCEPT ![Callee(p)] = "participating"]
        /\ UNCHANGED <<script, transactions, wal, certified>>
    BY <1>19 DEF AcceptPrepare
  <2>2. /\ Callee(p) \in Server /\ p.tx \in Tx
        /\ certified[Callee(p)][p.tx] = 0 /\ p.tx \notin transactions[Callee(p)]
    BY <1>1, <1>2, <2>1, PreparedIsNew
  <2>3. \A i \in DOMAIN assigned[s] : i \in DOMAIN assigned'[s] /\ assigned'[s][i] = assigned[s][i]
    <3>1. CASE s = Callee(p)
      <4>1. assigned'[s] = Append(assigned[s], p.tx)
        BY <1>3, <2>1, <3>1
      <4> QED BY <1>3, <2>2, <4>1
    <3>2. CASE s # Callee(p)
      BY <1>3, <2>1, <3>2
    <3> QED BY <3>1, <3>2
  <2>4. CASE a \in lock[s]
    <3>1. mu[s] = "coordinating" => mu'[s] = "coordinating"
      BY <1>3, <2>1 DEF CanPrepare, Receives
    <3>2. \A t \in Tx : Open(s, t) => Open(s, t)'
      BY <2>1, <2>3 DEF Open, Prepared, Range, Undone
    <3> QED BY <1>5, <2>1, <2>4, <3>1, <3>2
  <2>5. CASE a \notin lock[s]
    <3>1. s = Callee(p) /\ a = Destination(p.tx)
      BY <1>3, <2>1, <2>2, <2>5
    <3>2. assigned'[s] = Append(assigned[s], p.tx)
      BY <1>3, <2>1, <3>1
    <3>3. \E i \in DOMAIN assigned'[s] : assigned'[s][i] = p.tx
      <4>1. /\ Len(assigned[s]) + 1 \in DOMAIN Append(assigned[s], p.tx)
            /\ Append(assigned[s], p.tx)[Len(assigned[s]) + 1] = p.tx
        BY <1>3, <2>2
      <4> QED BY <3>2, <4>1
    <3>4. Open(s, p.tx)'
      BY <2>1, <2>2, <3>1, <3>3 DEF Open, Prepared, Range, Undone
    <3> QED BY <2>2, <3>1, <3>4 DEF Explained, CoordinatorsRow
  <2> QED BY <2>4, <2>5
<1>20. ASSUME NEW r \in Server, NEW t \in Tx, Execute(r, t) PROVE Explained(s, a)'
  <2>1. /\ lock' = lock /\ mu' = mu
        /\ wal' = [wal EXCEPT ![r] = @ \cup {t}]
        /\ transactions' = [transactions EXCEPT ![r] = @ \cup {t}]
        /\ UNCHANGED <<script, assigned, certified>>
    BY <1>20 DEF Execute
  <2>2. \A u \in Tx : u \in transactions'[s] \ wal'[s] => u \in transactions[s] \ wal[s]
    BY <1>3, <2>1
  <2>3. \A u \in Tx : Open(s, u) => Open(s, u)'
    BY <2>1, <2>2 DEF Open, Prepared, Range, Undone
  <2> QED BY <1>5, <2>1, <2>3
<1>21. ASSUME NEW r \in Server, NEW t \in Tx, ExecuteAgain(r, t) PROVE FALSE
  BY <1>1, <1>2, <1>21, NothingTwice
<1>22. ASSUME NEW p \in senders, HandleCommit(p) \/ HandleAbort(p) PROVE Explained(s, a)'
  <2>1. /\ mu' = mu
        /\ UNCHANGED <<script, assigned, transactions>>
    BY <1>22 DEF HandleCommit, HandleAbort
  <2>2. CASE UNCHANGED <<wal, lock, certified>>
    BY <1>6, <2>1, <2>2
  <2>3. CASE /\ wal' = [wal EXCEPT ![Callee(p)] = @ \ {p.tx}]
             /\ lock' = [lock EXCEPT ![Callee(p)] = @ \ {Destination(p.tx)}]
             /\ \/ certified' = certified
                \/ certified' = [certified EXCEPT ![Callee(p)][p.tx] = @ + 1]
    <3>1. a \in lock[s] /\ ~ (s = Callee(p) /\ a = Destination(p.tx))
      BY <1>3, <2>3
    <3>2. ASSUME NEW t \in Tx, Destination(t) = a
          PROVE  /\ t \in wal'[s] <=> t \in wal[s]
                 /\ certified'[s][t] = certified[s][t]
      <4>1. CASE s = Callee(p)
        <5>1. t # p.tx
          BY <3>1, <3>2, <4>1
        <5> QED BY <1>3, <2>3, <4>1, <5>1
      <4>2. CASE s # Callee(p)
        BY <1>3, <2>3, <4>2
      <4> QED BY <4>1, <4>2
    <3>3. \A t \in Tx : Destination(t) = a /\ Open(s, t) => Open(s, t)'
      BY <2>1, <3>2 DEF Open, Prepared, Range, Undone
    <3> QED BY <1>5, <2>1, <3>1, <3>3
  <2>4. \/ UNCHANGED <<wal, lock, certified>>
        \/ /\ wal' = [wal EXCEPT ![Callee(p)] = @ \ {p.tx}]
           /\ lock' = [lock EXCEPT ![Callee(p)] = @ \ {Destination(p.tx)}]
           /\ \/ certified' = certified
              \/ certified' = [certified EXCEPT ![Callee(p)][p.tx] = @ + 1]
    <3>1. CASE HandleCommit(p)
      BY <3>1 DEF HandleCommit
    <3>2. CASE HandleAbort(p)
      BY <3>2 DEF HandleAbort
    <3> QED BY <1>22, <3>1, <3>2
  <2> QED BY <2>2, <2>3, <2>4
<1> QED BY <1>9, <1>10, <1>11, <1>12, <1>13, <1>14, <1>15, <1>16, <1>17, <1>18, <1>19, <1>20,
           <1>21, <1>22
        DEF Next, Drive, Coordinate, Participate

\* Whoever has a row locked coordinates its transfer, or has prepared it.
LEMMA LocksInvariant == Spec => []LocksHaveCause
<1>1. Init => LocksHaveCause
  BY DEF Init, LocksHaveCause
<1>2. BaseInv /\ OnceInv /\ LocksHaveCause /\ [Next]_vars => LocksHaveCause'
  BY LocksStep
<1> QED BY <1>1, <1>2, BaseInvariant, OnceInvariant, PTL DEF Spec

-----------------------------------------------------------------------------
(* Every participant hears the outcome.                                    *)

\* An active list names servers only.
LEMMA ParticipantsAreServers ==
    ASSUME NEW t \in Tx
    PROVE  Participants(t) \subseteq Server
<1>1. Others(Request[t].destinationActive, Request[t].contact) \in Seq(Server)
  BY RequestType, OthersType
<1> QED BY <1>1 DEF Participants, Range

\* When a call has returned, all servers but the one called are still to be called.
LEMMA AdvanceRange ==
    ASSUME NEW p \in SenderType, p.to # <<>>
    PROVE  /\ Callee(p) \in Range(p.to) /\ Range(p.to) \subseteq Server
           /\ \A q \in Advance(p) : /\ q.tx = p.tx /\ q.kind = p.kind
                                    /\ Range(q.to) \subseteq Range(p.to)
           /\ \A s \in Range(p.to) :
                 s = Callee(p) \/ \E q \in Advance(p) : s \in Range(q.to)
<1> DEFINE list == p.to
<1> DEFINE q == [p EXCEPT !.to = Tail(@)]
<1>1. list \in Seq(Server) /\ list # <<>>
  BY DEF SenderType
<1>2. q.tx = p.tx /\ q.kind = p.kind /\ q.to = Tail(list)
  BY DEF SenderType
<1>3. Callee(p) = Head(list)
  BY DEF Callee
<1>4. Advance(p) = {q} \/ (Advance(p) = {} /\ Len(list) = 1)
  BY DEF Advance
<1> HIDE DEF list, q
<1>5. /\ Len(Tail(list)) = Len(list) - 1 /\ Len(list) \in Nat \ {0}
      /\ DOMAIN list = 1..Len(list) /\ DOMAIN Tail(list) = 1..(Len(list) - 1)
      /\ \A i \in 1..(Len(list) - 1) : Tail(list)[i] = list[i + 1]
      /\ Head(list) = list[1]
  BY <1>1
<1>6. Head(list) \in Range(list) /\ Range(list) \subseteq Server
  BY <1>1, <1>5 DEF Range
<1>7. Range(Tail(list)) \subseteq Range(list)
  <2>1. \A i \in 1..(Len(list) - 1) : i + 1 \in DOMAIN list
    BY <1>5
  <2> QED BY <1>5, <2>1 DEF Range
<1>8. ASSUME NEW s \in Range(list), s # Head(list)
      PROVE  Len(list) # 1 /\ s \in Range(Tail(list))
  <2>1. PICK i \in 1..Len(list) : s = list[i]
    BY <1>5 DEF Range
  <2>2. i # 1
    BY <1>5, <1>8, <2>1
  <2>3. i - 1 \in 1..(Len(list) - 1) /\ (i - 1) + 1 = i /\ Len(list) # 1
    BY <1>5, <2>1, <2>2
  <2>4. Tail(list)[i - 1] = s
    BY <1>5, <2>1, <2>3
  <2> QED BY <1>5, <2>3, <2>4 DEF Range
<1>9. \A m \in Advance(p) : m.tx = p.tx /\ m.kind = p.kind /\ Range(m.to) \subseteq Range(list)
  BY <1>2, <1>4, <1>7
<1>10. \A s \in Range(list) : s = Callee(p) \/ \E m \in Advance(p) : s \in Range(m.to)
  BY <1>2, <1>3, <1>4, <1>8
<1> QED BY <1>3, <1>6, <1>9, <1>10 DEF list

\* A step in which no transfer starts, is decided or is numbered: what was heard stays
\* heard, and a call that is made was to be made.
LEMMA DeliveryKept ==
    ASSUME TypeOK, PreparesFollowStart, DecisionsReachAll,
           assigned' = assigned, decided' = decided, drops > 0 => drops' > 0,
           \A s \in Server, t \in Tx : HeardOutcome(s, t) => HeardOutcome(s, t)',
           (coord' = coord /\ script' = script) \/ (~Working /\ ~Working'),
           \A q \in senders' : \E p \in senders : /\ q.tx = p.tx
                                                  /\ Range(q.to) \subseteq Range(p.to),
           \A p \in senders : \A s \in Range(p.to) :
              p.kind # "2PCprepare" =>
                 \/ HeardOutcome(s, p.tx)' \/ drops' > 0
                 \/ \E q \in senders' : q.tx = p.tx /\ q.kind # "2PCprepare" /\ s \in Range(q.to)
    PROVE  PreparesFollowStart' /\ DecisionsReachAll'
<1>1. ASSUME NEW t PROVE /\ Started(t) => Started(t)'
                         /\ (Working /\ Current = t) => (Working /\ Current = t)'
  BY DEF Started, Working, Current
<1>2. PreparesFollowStart'
  <2>1. ASSUME NEW q \in senders'
        PROVE  Started(q.tx)' /\ Range(q.to) \subseteq Participants(q.tx)
    <3>1. PICK p \in senders : q.tx = p.tx /\ Range(q.to) \subseteq Range(p.to)
      OBVIOUS
    <3>2. Started(p.tx) /\ Range(p.to) \subseteq Participants(p.tx)
      BY DEF PreparesFollowStart
    <3>3. Started(p.tx)'
      BY <1>1, <3>2
    <3>4. (Started(p.tx))' <=> (Started(q.tx))'
      BY <3>1 DEF Started
    <3> QED BY <3>1, <3>2, <3>3, <3>4
  <2>2. ASSUME NEW s \in Server, NEW t \in Tx, Prepared(s, t)'
        PROVE  Started(t)' /\ s \in Participants(t)
    <3>1. Prepared(s, t)
      BY <2>2 DEF Prepared
    <3> QED BY <1>1, <3>1 DEF PreparesFollowStart
  <2> QED BY <2>1, <2>2 DEF PreparesFollowStart, Participants
<1>3. DecisionsReachAll'
  <2>1. ASSUME NEW t \in Tx, decided'[t] # {}, NEW s \in Participants(t), s \in Server
        PROVE  HeardOutcome(s, t)' \/ OutcomeIsComing(s, t)' \/ OutcomeMayBeLost(t)'
    <3>1. CASE HeardOutcome(s, t)
      BY <2>1, <3>1
    <3>2. CASE Working /\ Current = t
      BY <1>1, <3>2 DEF OutcomeIsComing
    <3>3. ASSUME NEW p \in senders, p.tx = t, p.kind # "2PCprepare", s \in Range(p.to)
          PROVE  HeardOutcome(s, t)' \/ OutcomeIsComing(s, t)' \/ OutcomeMayBeLost(t)'
      <4>1. \/ HeardOutcome(s, p.tx)' \/ drops' > 0
            \/ \E q \in senders' : q.tx = p.tx /\ q.kind # "2PCprepare" /\ s \in Range(q.to)
        BY <3>3
      <4>2. HeardOutcome(s, p.tx)' <=> HeardOutcome(s, t)'
        BY <3>3 DEF HeardOutcome, Undone
      <4> QED BY <3>3, <4>1, <4>2 DEF OutcomeIsComing, OutcomeMayBeLost
    <3>4. CASE OutcomeMayBeLost(t)
      BY <3>4 DEF OutcomeMayBeLost
    <3> QED BY <2>1, <3>1, <3>2, <3>3, <3>4 DEF DecisionsReachAll, OutcomeIsComing
  <2>2. \A t \in Tx : Participants(t) \subseteq Server
    BY ParticipantsAreServers
  <2> QED BY <2>1, <2>2 DEF DecisionsReachAll, Participants
<1> QED BY <1>2, <1>3

\* The coordinator starts to prepare: all participants are still to be called.
LEMMA DeliveryStart ==
    ASSUME TypeOK, PreparesFollowStart, DecisionsReachAll, ~Working, coord' = "preparing",
           NEW n, n.tx = Current, Range(n.to) = Participants(Current),
           senders' = senders \cup {n},
           UNCHANGED <<script, assigned, drops, transactions, wal, certified, decided, refused>>
    PROVE  PreparesFollowStart' /\ DecisionsReachAll'
<1>1. Working' /\ Current' = Current
  BY DEF Working, Current
<1>2. \A t : Started(t) => Started(t)'
  BY DEF Started
<1>3. \A q \in senders' : Started(q.tx)' /\ Range(q.to) \subseteq Participants(q.tx)
  <2>1. Started(n.tx)' /\ Range(n.to) \subseteq Participants(n.tx)
    BY <1>1 DEF Started
  <2>2. \A q \in senders : Started(q.tx)' /\ Range(q.to) \subseteq Participants(q.tx)
    BY DEF PreparesFollowStart, Started
  <2> QED BY <2>1, <2>2
<1>4. \A s \in Server, t \in Tx : Prepared(s, t)' => Started(t)' /\ s \in Participants(t)
  BY <1>2 DEF PreparesFollowStart, Prepared
<1>5. PreparesFollowStart'
  BY <1>3, <1>4 DEF PreparesFollowStart, Participants
<1>6. DecisionsReachAll'
  <2>1. \A s, t : HeardOutcome(s, t) => HeardOutcome(s, t)'
    BY DEF HeardOutcome, Undone
  <2>2. \A s, t : OutcomeIsComing(s, t) => OutcomeIsComing(s, t)'
    BY DEF OutcomeIsComing
  <2>3. \A t : OutcomeMayBeLost(t) => OutcomeMayBeLost(t)'
    BY DEF OutcomeMayBeLost
  <2> QED BY <2>1, <2>2, <2>3 DEF DecisionsReachAll, Participants
<1> QED BY <1>5, <1>6

\* The coordinator has decided, and is about to announce it.
LEMMA DeliveryDecide ==
    ASSUME TypeOK, PreparesFollowStart, DecisionsReachAll, Current \in Tx,
           coord = "preparing", NEW d \in {"2PCcommit", "2PCabort"}, coord' = d,
           decided' = [decided EXCEPT ![Current] = @ \cup {d}],
           senders' \subseteq senders,
           \A p \in senders : p.kind # "2PCprepare" => p \in senders',
           UNCHANGED <<script, assigned, drops, transactions, wal, certified, refused>>
    PROVE  PreparesFollowStart' /\ DecisionsReachAll'
<1>1. Working /\ Working' /\ Current' = Current
  BY DEF Working, Current
<1>2. \A t \in Tx : /\ decided[t] \subseteq decided'[t]
                    /\ t # Current => decided'[t] = decided[t]
  BY DEF TypeOK
<1>3. \A t \in Tx : Started(t) => Started(t)'
  BY <1>1, <1>2 DEF Started
<1>4. PreparesFollowStart'
  <2>1. \A p \in senders : p.tx \in Tx
    BY DEF TypeOK, SenderType
  <2>2. \A q \in senders' : Started(q.tx)' /\ Range(q.to) \subseteq Participants(q.tx)
    BY <1>1, <1>2, <2>1 DEF PreparesFollowStart, Started
  <2>3. \A s \in Server, t \in Tx : Prepared(s, t)' => Started(t)' /\ s \in Participants(t)
    BY <1>3 DEF PreparesFollowStart, Prepared
  <2> QED BY <2>2, <2>3 DEF PreparesFollowStart, Participants
<1>5. DecisionsReachAll'
  <2>1. ASSUME NEW t \in Tx, decided'[t] # {}, NEW s \in Participants(t)
        PROVE  HeardOutcome(s, t)' \/ OutcomeIsComing(s, t)' \/ OutcomeMayBeLost(t)'
    <3>1. CASE t = Current
      BY <1>1, <3>1 DEF OutcomeIsComing
    <3>2. CASE t # Current
      <4>1. HeardOutcome(s, t) \/ OutcomeIsComing(s, t) \/ OutcomeMayBeLost(t)
        BY <1>2, <2>1, <3>2 DEF DecisionsReachAll
      <4>2. HeardOutcome(s, t) => HeardOutcome(s, t)'
        BY DEF HeardOutcome, Undone
      <4>3. OutcomeIsComing(s, t) => OutcomeIsComing(s, t)'
        BY <1>1 DEF OutcomeIsComing
      <4>4. OutcomeMayBeLost(t) => OutcomeMayBeLost(t)'
        BY <1>2 DEF OutcomeMayBeLost
      <4> QED BY <4>1, <4>2, <4>3, <4>4
    <3> QED BY <3>1, <3>2
  <2> QED BY <2>1 DEF DecisionsReachAll, Participants
<1> QED BY <1>4, <1>5

\* The handler ends: the goroutine that announces the decision calls all participants,
\* or there are none, or nobody announces it.
LEMMA DeliveryAnswer ==
    ASSUME TypeOK, PreparesFollowStart, DecisionsReachAll, Current \in Tx,
           coord \in {"2PCcommit", "2PCabort"}, coord \in decided[Current], coord' = "none",
           NEW N, senders' = senders \cup N,
           \A n \in N : /\ n.tx = Current /\ n.kind = coord
                        /\ Range(n.to) = Participants(Current),
           \/ N # {} \/ Participants(Current) = {}
           \/ coord = "2PCabort" /\ ~AbortsSent,
           UNCHANGED <<assigned, drops, transactions, wal, certified, decided, refused>>
    PROVE  PreparesFollowStart' /\ DecisionsReachAll'
<1>1. Working /\ ~Working'
  BY DEF Working
<1>2. \A t : Started(t) => Started(t)'
  BY DEF Started
<1>3. PreparesFollowStart'
  <2>1. \A n \in N : Started(n.tx)' /\ Range(n.to) \subseteq Participants(n.tx)
    BY DEF Started
  <2>2. \A q \in senders : Started(q.tx)' /\ Range(q.to) \subseteq Participants(q.tx)
    BY DEF PreparesFollowStart, Started
  <2>3. \A q \in senders' : q \in senders \/ q \in N
    OBVIOUS
  <2>4. \A s \in Server, t \in Tx : Prepared(s, t)' => Started(t)' /\ s \in Participants(t)
    BY <1>2 DEF PreparesFollowStart, Prepared
  <2> QED BY <2>1, <2>2, <2>3, <2>4 DEF PreparesFollowStart, Participants
<1>4. DecisionsReachAll'
  <2>1. ASSUME NEW t \in Tx, decided'[t] # {}, NEW s \in Participants(t)
        PROVE  HeardOutcome(s, t)' \/ OutcomeIsComing(s, t)' \/ OutcomeMayBeLost(t)'
    <3>1. CASE t = Current
      <4>1. CASE N # {}
        <5>1. PICK n \in N : TRUE
          BY <4>1
        <5>2. n \in senders' /\ n.tx = t /\ n.kind # "2PCprepare" /\ s \in Range(n.to)
          BY <2>1, <3>1, <5>1
        <5> QED BY <5>2 DEF OutcomeIsComing
      <4>2. CASE coord = "2PCabort" /\ ~AbortsSent
        BY <3>1, <4>2 DEF OutcomeMayBeLost
      <4> QED BY <2>1, <3>1, <4>1, <4>2
    <3>2. CASE t # Current
      <4>1. HeardOutcome(s, t) \/ OutcomeIsComing(s, t) \/ OutcomeMayBeLost(t)
        BY <2>1 DEF DecisionsReachAll
      <4>2. HeardOutcome(s, t) => HeardOutcome(s, t)'
        BY DEF HeardOutcome, Undone
      <4>3. OutcomeIsComing(s, t) => OutcomeIsComing(s, t)'
        BY <3>2 DEF OutcomeIsComing
      <4>4. OutcomeMayBeLost(t) => OutcomeMayBeLost(t)'
        BY DEF OutcomeMayBeLost
      <4> QED BY <4>1, <4>2, <4>3, <4>4
    <3> QED BY <3>1, <3>2
  <2> QED BY <2>1 DEF DecisionsReachAll, Participants
<1> QED BY <1>3, <1>4

\* A participant that is called prepares the transfer.
LEMMA DeliveryAccept ==
    ASSUME TypeOK, PreparesFollowStart, DecisionsReachAll,
           NEW p \in senders, NEW r \in Server, r \in Range(p.to),
           assigned' = [assigned EXCEPT ![r] = Append(@, p.tx)],
           UNCHANGED <<script, coord, senders, drops, transactions, wal, certified, decided,
                       refused>>
    PROVE  PreparesFollowStart' /\ DecisionsReachAll'
<1>1. \A t : Started(t) <=> Started(t)'
  BY DEF Started, Working, Current
<1>2. PreparesFollowStart'
  <2>1. ASSUME NEW s \in Server, NEW t \in Tx, Prepared(s, t)'
        PROVE  Started(t)' /\ s \in Participants(t)
    <3>1. CASE Prepared(s, t)
      BY <1>1, <3>1 DEF PreparesFollowStart
    <3>2. CASE ~Prepared(s, t)
      <4>1. assigned[s] \in Seq(Tx) /\ p.tx \in Tx
        BY DEF TypeOK, SenderType
      <4>2. assigned'[s] = assigned[s] \/ (s = r /\ assigned'[s] = Append(assigned[s], p.tx))
        BY DEF TypeOK
      <4>3. s = r /\ t = p.tx
        BY <2>1, <3>2, <4>1, <4>2 DEF Prepared, Range
      <4>4. Started(p.tx) /\ r \in Participants(p.tx)
        BY DEF PreparesFollowStart
      <4> QED BY <1>1, <4>3, <4>4
    <3> QED BY <3>1, <3>2
  <2>2. \A q \in senders' : Started(q.tx)' /\ Range(q.to) \subseteq Participants(q.tx)
    BY DEF PreparesFollowStart, Started, Working, Current
  <2> QED BY <2>1, <2>2 DEF PreparesFollowStart, Participants
<1>3. DecisionsReachAll'
  <2>1. \A s, t : HeardOutcome(s, t) => HeardOutcome(s, t)'
    BY DEF HeardOutcome, Undone
  <2>2. \A s, t : OutcomeIsComing(s, t) => OutcomeIsComing(s, t)'
    BY DEF OutcomeIsComing, Working, Current
  <2>3. \A t : OutcomeMayBeLost(t) => OutcomeMayBeLost(t)'
    BY DEF OutcomeMayBeLost
  <2> QED BY <2>1, <2>2, <2>3 DEF DecisionsReachAll, Participants
<1> QED BY <1>2, <1>3

\* The call of p returns. Every other server of its list is still to be called.
LEMMA DeliveryReturned ==
    ASSUME TypeOK, PreparesFollowStart, DecisionsReachAll,
           NEW p \in senders, p.to # <<>>, senders' = Returned(p),
           p.kind # "2PCprepare" => HeardOutcome(Callee(p), p.tx)' \/ drops' > 0,
           drops > 0 => drops' > 0,
           UNCHANGED <<script, coord, assigned, decided>>,
           \A s \in Server, t \in Tx : HeardOutcome(s, t) => HeardOutcome(s, t)'
    PROVE  PreparesFollowStart' /\ DecisionsReachAll'
<1>1. p \in SenderType
  BY DEF TypeOK
<1>2. \A q \in senders' : (q \in senders /\ q # p) \/ q \in Advance(p)
  BY DEF Returned
<1>3. \A q \in senders' : \E m \in senders : q.tx = m.tx /\ Range(q.to) \subseteq Range(m.to)
  BY <1>1, <1>2, AdvanceRange
<1>4. ASSUME NEW m \in senders, NEW s \in Range(m.to), m.kind # "2PCprepare"
      PROVE  \/ HeardOutcome(s, m.tx)' \/ drops' > 0
             \/ \E q \in senders' : q.tx = m.tx /\ q.kind # "2PCprepare" /\ s \in Range(q.to)
  <2>1. CASE m # p
    BY <1>4, <2>1 DEF Returned
  <2>2. CASE m = p /\ s = Callee(p)
    BY <1>4, <2>2
  <2>3. CASE m = p /\ s # Callee(p)
    <3>1. PICK q \in Advance(p) : s \in Range(q.to)
      BY <1>1, <1>4, <2>3, AdvanceRange
    <3>2. q.tx = p.tx /\ q.kind = p.kind /\ q \in senders'
      BY <1>1, AdvanceRange DEF Returned
    <3> QED BY <1>4, <2>3, <3>1, <3>2
  <2> QED BY <2>1, <2>2, <2>3
<1> QED BY <1>3, <1>4, DeliveryKept

\* One step per action: most only return a call, and Decide starts the new round.
LEMMA DeliveryStep ==
    ASSUME BaseInv, OnceInv, DeliveryInv, [Next]_vars
    PROVE  DeliveryInv'
<1> SUFFICES ASSUME lostReplies' = 0 PROVE PreparesFollowStart' /\ DecisionsReachAll'
  BY DEF DeliveryInv
<1> USE DEF client, process, handler, cluster, db
<1>1. TypeOK /\ ControlInv /\ ServingInv /\ TablesInv
  BY DEF BaseInv
<1>2. Once /\ PreparesFollowStart /\ DecisionsReachAll
  BY <1>1, Quiet DEF OnceInv, DeliveryInv
<1>3. \A p \in senders : /\ p.tx \in Tx /\ p \in SenderType
                         /\ p.to # <<>> => Callee(p) \in Server /\ Callee(p) \in Range(p.to)
  <2>1. ASSUME NEW p \in senders, p.to # <<>>
        PROVE  Callee(p) \in Server /\ Callee(p) \in Range(p.to)
    <3>1. p \in SenderType
      BY <1>1 DEF TypeOK
    <3> QED BY <2>1, <3>1, AdvanceRange
  <2> QED BY <1>1, <2>1 DEF TypeOK, SenderType
<1>4. driver.phase = "calling" => Current \in Tx /\ Contact \in Server
  BY <1>1, CurrentType
<1>5. /\ drops \in Nat
      /\ transactions \in [Server -> SUBSET Tx] /\ wal \in [Server -> SUBSET Tx]
      /\ certified \in [Server -> [Tx -> Nat]] /\ refused \in [Server -> SUBSET Tx]
  BY <1>1 DEF TypeOK
<1>6. ASSUME UNCHANGED <<transactions, wal, certified, refused>>
      PROVE  \A s \in Server, t \in Tx : HeardOutcome(s, t) => HeardOutcome(s, t)'
  BY <1>6 DEF HeardOutcome, Undone
\* A step that touches no call, table or number.
<1>7. ASSUME UNCHANGED <<senders, assigned, decided>>, drops > 0 => drops' > 0,
             (coord' = coord /\ script' = script) \/ (~Working /\ ~Working'),
             \A s \in Server, t \in Tx : HeardOutcome(s, t) => HeardOutcome(s, t)'
      PROVE  PreparesFollowStart' /\ DecisionsReachAll'
  BY <1>1, <1>2, <1>7, DeliveryKept
<1>8. drops' = drops \/ drops' = drops + 1
  BY DEF Next, vars, Drive, Submit, RetryTimer, Coordinate, RejectSignature, RefuseTransfer,
         PollSource, StartPrepare, AnswerInTime, PrepareTimeout, Decide, Answer, Participate,
         PrepareWithoutKeys, ReplyAck, PollReceiver, AcceptPrepare, HandleCommit, HandleAbort,
         CallNext, FinishPrepare, Execute, ExecuteAgain, ClientDialFails, SkipNext, CallFails
<1>9. drops > 0 => drops' > 0
  BY <1>5, <1>8
<1>10. CASE Drive \/ UNCHANGED vars
  BY <1>6, <1>7, <1>9, <1>10 DEF Drive, Submit, RetryTimer, vars
<1>11. CASE ClientDialFails \/ RejectSignature \/ RefuseTransfer \/ PollSource
  <2>1. /\ UNCHANGED <<senders, assigned, decided, transactions, wal, certified, refused>>
        /\ ~Working /\ ~Working'
    BY <1>11 DEF ClientDialFails, RejectSignature, RefuseTransfer, PollSource, CanStart,
                 Calling, Working
  <2> QED BY <1>6, <1>7, <1>9, <2>1
<1>12. CASE StartPrepare
  <2> DEFINE n == Sender("2PCprepare", Current, driver.retries,
                         transactions[Contact] # {} \/ \E t \in Tx : certified[Contact][t] > 0,
                         Others(Request[Current].destinationActive, Contact))
  <2>1. /\ coord = "none" /\ coord' = "preparing"
        /\ senders' = senders \cup {n}
        /\ UNCHANGED <<script, assigned, drops, transactions, wal, certified, decided, refused>>
    BY <1>12 DEF StartPrepare, CanStart, Calling
  <2>2. n.tx = Current /\ Range(n.to) = Participants(Current)
    BY DEF Sender, Participants, Contact
  <2>3. ~Working
    BY <2>1 DEF Working
  <2> HIDE DEF n
  <2> QED BY <1>1, <1>2, <2>1, <2>2, <2>3, DeliveryStart
<1>13. CASE AnswerInTime \/ PrepareTimeout
  <2>1. coord = "preparing" /\ Current \in Tx
    BY <1>1, <1>4, <1>13 DEF AnswerInTime, PrepareTimeout, ControlInv
  <2>2. PICK d \in {"2PCcommit", "2PCabort"} : Decide(d)
    BY <1>13 DEF AnswerInTime, PrepareTimeout
  <2>3. /\ coord' = d /\ decided' = [decided EXCEPT ![Current] = @ \cup {d}]
        /\ UNCHANGED <<script, assigned, drops, transactions, wal, certified, refused>>
    BY <2>2 DEF Decide
  <2>4. /\ senders' \subseteq senders
        /\ \A p \in senders : p.kind # "2PCprepare" => p \in senders'
    BY <1>13 DEF AnswerInTime, PrepareTimeout, Answers
  <2> QED BY <1>1, <1>2, <2>1, <2>3, <2>4, DeliveryDecide
<1>14. CASE Answer
  <2>1. /\ coord \in {"2PCcommit", "2PCabort"} /\ coord' = "none" /\ Current \in Tx
        /\ UNCHANGED <<assigned, drops, transactions, wal, certified, decided, refused>>
    BY <1>1, <1>4, <1>14 DEF Answer, ControlInv
  <2> DEFINE N == DecisionSender(coord)
  <2> DEFINE to == Others(Request[Current].destinationActive, Contact)
  <2> DEFINE g == Sender(coord, Current, driver.retries, FALSE, to)
  <2>2. senders' = senders \cup N
    BY <1>14 DEF Answer
  <2>3. \/ N = {g}
        \/ N = {} /\ to = <<>>
        \/ N = {} /\ coord = "2PCabort" /\ ~AbortsSent
    BY DEF DecisionSender
  <2>4. g.tx = Current /\ g.kind = coord /\ Range(g.to) = Participants(Current)
    BY DEF Sender, Participants, Contact
  <2>5. to = <<>> => Participants(Current) = {}
    BY DEF Participants, Contact, Range
  <2>6. coord \in decided[Current]
    BY <1>2, <2>1 DEF Once, OneCoordinator, Begun, Working
  <2> HIDE DEF N, to, g
  <2>7. \A n \in N : /\ n.tx = Current /\ n.kind = coord /\ Range(n.to) = Participants(Current)
    BY <2>3, <2>4
  <2>8. N # {} \/ Participants(Current) = {} \/ (coord = "2PCabort" /\ ~AbortsSent)
    BY <2>3, <2>5
  <2> QED BY <1>1, <1>2, <2>1, <2>2, <2>6, <2>7, <2>8, DeliveryAnswer
<1>15. ASSUME NEW s \in Server, CallNext(s) \/ SkipNext(s)
       PROVE  PreparesFollowStart' /\ DecisionsReachAll'
  BY <1>6, <1>7, <1>9, <1>15 DEF CallNext, SkipNext
<1>16. ASSUME NEW s \in Server, FinishPrepare(s)
       PROVE  PreparesFollowStart' /\ DecisionsReachAll'
  <2>1. PICK p \in serving[s] : senders' = Returned(p)
    BY <1>16 DEF FinishPrepare
  <2>2. p \in senders /\ p.to # <<>> /\ p.kind = "2PCprepare"
    BY <1>1 DEF ServingInv
  <2>3. UNCHANGED <<script, coord, assigned, decided, transactions, wal, certified, refused>>
    BY <1>16 DEF FinishPrepare
  <2> QED BY <1>1, <1>2, <1>6, <1>9, <2>1, <2>2, <2>3, DeliveryReturned
<1>17. ASSUME NEW p \in senders, CallFails(p) \/ ReplyAck(p)
       PROVE  PreparesFollowStart' /\ DecisionsReachAll'
  <2>1. /\ p.to # <<>> /\ senders' = Returned(p)
        /\ UNCHANGED <<script, coord, assigned, decided, transactions, wal, certified, refused>>
    BY <1>17 DEF CallFails, ReplyAck, Receives
  <2>2. p.kind = "2PCprepare" \/ drops' > 0
    <3>1. CASE CallFails(p)
      <4>1. drops' = drops + 1
        BY <3>1 DEF CallFails
      <4> QED BY <1>5, <4>1
    <3>2. CASE ReplyAck(p)
      BY <3>2 DEF ReplyAck, Receives
    <3> QED BY <1>17, <3>1, <3>2
  <2> QED BY <1>1, <1>2, <1>6, <1>9, <2>1, <2>2, DeliveryReturned
<1>18. ASSUME NEW p \in senders, HandleCommit(p)
       PROVE  PreparesFollowStart' /\ DecisionsReachAll'
  <2>1. /\ p.to # <<>> /\ senders' = Returned(p)
        /\ certified' = [certified EXCEPT ![Callee(p)][p.tx] = @ + 1]
        /\ wal' = [wal EXCEPT ![Callee(p)] = @ \ {p.tx}]
        /\ UNCHANGED <<script, coord, assigned, decided, transactions, refused>>
    BY <1>18 DEF HandleCommit, Receives
  <2>2. Callee(p) \in Server /\ p.tx \in Tx
    BY <1>3, <2>1
  <2>3. certified'[Callee(p)][p.tx] > 0
    <3>1. certified'[Callee(p)][p.tx] = certified[Callee(p)][p.tx] + 1
      BY <1>5, <2>1, <2>2
    <3>2. certified[Callee(p)][p.tx] \in Nat
      BY <1>5, <2>2
    <3> QED BY <3>1, <3>2
  <2>4. HeardOutcome(Callee(p), p.tx)'
    BY <2>3 DEF HeardOutcome
  <2>5. ASSUME NEW s \in Server, NEW t \in Tx, HeardOutcome(s, t) PROVE HeardOutcome(s, t)'
    <3>1. CASE s = Callee(p) /\ t = p.tx
      BY <2>3, <3>1 DEF HeardOutcome
    <3>2. CASE ~ (s = Callee(p) /\ t = p.tx)
      <4>1. certified'[s][t] = certified[s][t]
        BY <1>5, <2>1, <2>2, <3>2
      <4>2. t \notin wal[s] => t \notin wal'[s]
        BY <1>5, <2>1
      <4> QED BY <2>1, <2>5, <4>1, <4>2 DEF HeardOutcome, Undone
    <3> QED BY <3>1, <3>2
  <2> QED BY <1>1, <1>2, <1>9, <2>1, <2>4, <2>5, DeliveryReturned
<1>19. ASSUME NEW p \in senders, HandleAbort(p)
       PROVE  PreparesFollowStart' /\ DecisionsReachAll'
  <2>1. /\ p.to # <<>> /\ senders' = Returned(p)
        /\ UNCHANGED <<script, coord, assigned, decided, transactions, certified>>
        /\ \/ /\ p.tx \in wal[Callee(p)]
              /\ wal' = [wal EXCEPT ![Callee(p)] = @ \ {p.tx}] /\ refused' = refused
           \/ /\ refused' = [refused EXCEPT ![Callee(p)] = @ \cup {p.tx}] /\ wal' = wal
    BY <1>19 DEF HandleAbort, Receives, CanUndo
  <2>2. Callee(p) \in Server /\ p.tx \in Tx
    BY <1>3, <2>1
  <2>3. HeardOutcome(Callee(p), p.tx)'
    <3>1. CASE /\ p.tx \in wal[Callee(p)]
               /\ wal' = [wal EXCEPT ![Callee(p)] = @ \ {p.tx}]
      <4>1. p.tx \in transactions'[Callee(p)] /\ p.tx \notin wal'[Callee(p)]
        BY <1>1, <1>5, <2>1, <2>2, <3>1 DEF TablesInv
      <4>2. certified'[Callee(p)][p.tx] \in Nat
        BY <1>5, <2>1, <2>2
      <4>3. certified'[Callee(p)][p.tx] > 0 \/ certified'[Callee(p)][p.tx] = 0
        BY <4>2
      <4> QED BY <4>1, <4>3 DEF HeardOutcome, Undone
    <3>2. CASE refused' = [refused EXCEPT ![Callee(p)] = @ \cup {p.tx}]
      <4>1. p.tx \in refused'[Callee(p)]
        BY <1>5, <2>2, <3>2
      <4> QED BY <4>1 DEF HeardOutcome
    <3> QED BY <2>1, <3>1, <3>2
  <2>4. ASSUME NEW s \in Server, NEW t \in Tx, HeardOutcome(s, t) PROVE HeardOutcome(s, t)'
    <3>1. wal'[s] \subseteq wal[s] /\ refused[s] \subseteq refused'[s]
      BY <1>5, <2>1
    <3> QED BY <2>1, <2>4, <3>1 DEF HeardOutcome, Undone
  <2> QED BY <1>1, <1>2, <1>9, <2>1, <2>3, <2>4, DeliveryReturned
<1>20. ASSUME NEW p \in senders, PrepareWithoutKeys(p) \/ PollReceiver(p)
       PROVE  PreparesFollowStart' /\ DecisionsReachAll'
  BY <1>6, <1>7, <1>9, <1>20 DEF PrepareWithoutKeys, PollReceiver
<1>21. ASSUME NEW p \in senders, AcceptPrepare(p)
       PROVE  PreparesFollowStart' /\ DecisionsReachAll'
  <2>1. /\ p.to # <<>>
        /\ assigned' = [assigned EXCEPT ![Callee(p)] = Append(@, p.tx)]
        /\ UNCHANGED <<script, coord, senders, drops, transactions, wal, certified, decided,
                       refused>>
    BY <1>21 DEF AcceptPrepare, CanPrepare, Receives
  <2>2. Callee(p) \in Server /\ Callee(p) \in Range(p.to)
    BY <1>3, <2>1
  <2> QED BY <1>1, <1>2, <2>1, <2>2, DeliveryAccept
<1>22. ASSUME NEW s \in Server, NEW t \in Tx, Execute(s, t)
       PROVE  PreparesFollowStart' /\ DecisionsReachAll'
  <2>1. /\ t \notin transactions[s]
        /\ wal' = [wal EXCEPT ![s] = @ \cup {t}]
        /\ transactions' = [transactions EXCEPT ![s] = @ \cup {t}]
        /\ UNCHANGED <<script, coord, senders, assigned, drops, decided, certified, refused>>
    BY <1>22 DEF Execute
  <2>2. ASSUME NEW r \in Server, NEW u \in Tx, HeardOutcome(r, u) PROVE HeardOutcome(r, u)'
    <3>1. u \in transactions[r] \ wal[r] => u \in transactions'[r] \ wal'[r]
      BY <1>5, <2>1
    <3> QED BY <2>1, <2>2, <3>1 DEF HeardOutcome, Undone
  <2> QED BY <1>7, <1>9, <2>1, <2>2
<1>23. ASSUME NEW s \in Server, NEW t \in Tx, ExecuteAgain(s, t) PROVE FALSE
  BY <1>1, <1>2, <1>23, NothingTwice
<1> QED BY <1>10, <1>11, <1>12, <1>13, <1>14, <1>15, <1>16, <1>17, <1>18, <1>19, <1>20, <1>21,
           <1>22, <1>23
        DEF Next, Drive, Coordinate, Participate

\* No participant of a decided transfer is forgotten.
LEMMA DeliveryInvariant == Spec => []DeliveryInv
<1>1. Init => DeliveryInv
  <2> SUFFICES ASSUME Init PROVE PreparesFollowStart /\ DecisionsReachAll
    BY DEF DeliveryInv
  <2>1. PreparesFollowStart
    BY DEF Init, PreparesFollowStart, Prepared, Range
  <2>2. DecisionsReachAll
    BY DEF Init, DecisionsReachAll
  <2> QED BY <2>1, <2>2
<1>2. BaseInv /\ OnceInv /\ DeliveryInv /\ [Next]_vars => DeliveryInv'
  BY DeliveryStep
<1> QED BY <1>1, <1>2, BaseInvariant, OnceInvariant, PTL DEF Spec

\* As long as no reply is lost, every locked row has a coordinator at work on it, or a
\* prepared transfer whose outcome the server has not heard and, unless a call failed or
\* aborts are not sent, is still to be told, or one whose abort Handle2PCCommit met
\* before the execution.
THEOREM LocksExplainedHolds == Spec => []LocksExplained
<1>1. ASSUME LocksHaveCause, DeliveryInv PROVE LocksExplained
  <2> SUFFICES ASSUME lostReplies = 0, NEW s \in Server, NEW a \in lock[s]
               PROVE  \/ CoordinatorsRow(s, a)
                      \/ \E t \in Tx : /\ Destination(t) = a
                                       /\ AwaitsOutcome(s, t) \/ AbortedTooEarly(s, t)
    BY DEF LocksExplained
  <2>1. PreparesFollowStart /\ DecisionsReachAll /\ Explained(s, a)
    BY <1>1 DEF LocksHaveCause, DeliveryInv
  <2>2. ASSUME NEW t \in Tx, Open(s, t) PROVE AwaitsOutcome(s, t) \/ AbortedTooEarly(s, t)
    <3>1. Prepared(s, t) /\ Started(t) /\ s \in Participants(t)
      BY <2>1, <2>2 DEF Open, PreparesFollowStart
    <3>2. CASE t \in refused[s]
      BY <3>1, <3>2 DEF AbortedTooEarly
    <3>3. CASE t \notin refused[s]
      <4>1. ~HeardOutcome(s, t)
        BY <2>2, <3>3 DEF Open, HeardOutcome
      <4>2. OutcomeIsComing(s, t) \/ OutcomeMayBeLost(t)
        BY <2>1, <3>1, <4>1 DEF Started, DecisionsReachAll, OutcomeIsComing
      <4> QED BY <3>1, <4>1, <4>2 DEF AwaitsOutcome
    <3> QED BY <3>2, <3>3
  <2> QED BY <2>1, <2>2 DEF Explained
<1> QED BY <1>1, LocksInvariant, DeliveryInvariant, PTL

-----------------------------------------------------------------------------
(* Money.                                                                  *)

\* The transfers whose money is in the account a of s.
Paid(s, a) == {t \in transactions[s] : Destination(t) = a /\ ~Undone(s, t)}

\* What Received adds up.
LEMMA PaidType ==
    ASSUME TypeOK, TablesInv, NEW s \in Server, NEW a
    PROVE  /\ Paid(s, a) \in SUBSET Tx /\ IsFiniteSet(Paid(s, a))
           /\ Received(s, a) = SumFunctionOnSet([t \in Tx |-> Amount(t)], Paid(s, a))
           /\ Received(s, a) \in Int
<1>1. Paid(s, a) \subseteq transactions[s] /\ transactions[s] \subseteq Tx
  BY DEF Paid, TypeOK
<1>2. IsFiniteSet(Paid(s, a))
  BY <1>1, FS_Subset DEF TablesInv
<1>3. Received(s, a) = SumFunctionOnSet([t \in Tx |-> Amount(t)], Paid(s, a))
  BY DEF Received, Paid
<1> DEFINE f == [t \in Tx |-> Amount(t)]
<1>4. \A t \in Paid(s, a) : f[t] \in Int
  BY <1>1, RequestType
<1> HIDE DEF f
<1>5. SumFunctionOnSet(f, Paid(s, a)) \in Int
  BY <1>2, <1>4, SumType
<1> QED BY <1>1, <1>2, <1>3, <1>5 DEF f

\* What an account has received when a transfer is paid, or taken back.
LEMMA PaidChanges ==
    ASSUME NEW P \in SUBSET Tx, IsFiniteSet(P), NEW t \in Tx
    PROVE  LET sum(Q) == SumFunctionOnSet([u \in Tx |-> Amount(u)], Q)
           IN  /\ t \notin P => sum(P \cup {t}) = sum(P) + Amount(t)
               /\ t \in P => sum(P \ {t}) = sum(P) - Amount(t)
<1> DEFINE f == [u \in Tx |-> Amount(u)]
<1>1. f[t] = Amount(t) /\ \A u \in Tx : f[u] \in Int
  BY RequestType
<1> HIDE DEF f
<1>2. ASSUME t \notin P
      PROVE  SumFunctionOnSet(f, P \cup {t}) = SumFunctionOnSet(f, P) + f[t]
  BY <1>1, <1>2, SumWith
<1>3. ASSUME t \in P
      PROVE  SumFunctionOnSet(f, P) = f[t] + SumFunctionOnSet(f, P \ {t})
  BY <1>1, <1>3, SumWithout
<1>4. SumFunctionOnSet(f, P \ {t}) \in Int
  <2>1. IsFiniteSet(P \ {t}) /\ \A u \in P \ {t} : f[u] \in Int
    BY <1>1, FS_RemoveElement
  <2> QED BY <2>1, SumType
<1>5. f[t] \in Int
  BY <1>1
<1>6. /\ t \notin P => SumFunctionOnSet(f, P \cup {t}) = SumFunctionOnSet(f, P) + Amount(t)
      /\ t \in P => SumFunctionOnSet(f, P \ {t}) = SumFunctionOnSet(f, P) - Amount(t)
  BY <1>1, <1>2, <1>3, <1>4, <1>5
<1> QED BY <1>6 DEF f

LEMMA MoneyStep ==
    ASSUME BaseInv, OnceInv, MoneyMatchesTables, [Next]_vars
    PROVE  MoneyMatchesTables'
<1> SUFFICES ASSUME lostReplies' = 0,
                    NEW s \in Server, NEW a \in DOMAIN balance'[s]
             PROVE  balance'[s][a] = InitialBalance + Received(s, a)'
  BY DEF MoneyMatchesTables
<1> USE DEF client, process, handler, cluster, db
<1>1. TypeOK /\ TablesInv /\ TypeOK' /\ TablesInv'
  BY TypeStep, TablesStep DEF BaseInv
<1>2. Once /\ \A b \in DOMAIN balance[s] : balance[s][b] = InitialBalance + Received(s, b)
  BY <1>1, Quiet DEF OnceInv, MoneyMatchesTables
<1>3. /\ transactions \in [Server -> SUBSET Tx] /\ wal \in [Server -> SUBSET Tx]
      /\ certified \in [Server -> [Tx -> Nat]]
      /\ DOMAIN balance = Server /\ balance[s] \in [{b \in Account : Stores(s, b)} -> Int]
      /\ balance'[s] \in [{b \in Account : Stores(s, b)} -> Int]
      /\ InitialBalance \in Int
  <2>1. InitialBalance \in Int
    BY CrossShardAssumption
  <2>2. balance'[s] \in [{b \in Account : Stores(s, b)} -> Int]
    BY <1>1 DEF TypeOK, Stores
  <2> QED BY <1>1, <2>1, <2>2 DEF TypeOK
<1>4. a \in DOMAIN balance[s] /\ balance[s][a] \in Int
  BY <1>3
<1> DEFINE sum(Q) == SumFunctionOnSet([u \in Tx |-> Amount(u)], Q)
<1>5. /\ Paid(s, a) \in SUBSET Tx /\ IsFiniteSet(Paid(s, a))
      /\ Received(s, a) = sum(Paid(s, a)) /\ Received(s, a) \in Int
  BY <1>1, PaidType
<1>6. Received(s, a)' = sum(Paid(s, a)')
  BY DEF Received, Paid
<1> HIDE DEF sum
<1>7. ASSUME balance'[s][a] = balance[s][a], Paid(s, a)' = Paid(s, a)
      PROVE  balance'[s][a] = InitialBalance + Received(s, a)'
  BY <1>2, <1>4, <1>5, <1>6, <1>7
<1>8. ASSUME UNCHANGED <<balance, transactions, wal, certified>>
      PROVE  balance'[s][a] = InitialBalance + Received(s, a)'
  BY <1>7, <1>8 DEF Paid, Undone
<1>9. CASE Drive \/ ClientDialFails \/ Coordinate \/ UNCHANGED vars
  <2>1. UNCHANGED <<balance, transactions, wal, certified>>
    BY <1>9 DEF Drive, Submit, RetryTimer, ClientDialFails, Coordinate, RejectSignature,
                RefuseTransfer, PollSource, StartPrepare, AnswerInTime, PrepareTimeout, Decide,
                Answer, vars
  <2> QED BY <1>8, <2>1
<1>10. ASSUME NEW r \in Server, CallNext(r) \/ SkipNext(r) \/ FinishPrepare(r)
       PROVE  balance'[s][a] = InitialBalance + Received(s, a)'
  BY <1>8, <1>10 DEF CallNext, SkipNext, FinishPrepare
<1>11. ASSUME NEW p \in senders, \/ CallFails(p) \/ PrepareWithoutKeys(p) \/ ReplyAck(p)
                                 \/ PollReceiver(p) \/ AcceptPrepare(p)
       PROVE  balance'[s][a] = InitialBalance + Received(s, a)'
  <2>1. UNCHANGED <<balance, transactions, wal, certified>>
    BY <1>11 DEF CallFails, PrepareWithoutKeys, ReplyAck, PollReceiver, AcceptPrepare
  <2> QED BY <1>8, <2>1
<1>12. ASSUME NEW r \in Server, NEW t \in Tx, ExecuteAgain(r, t) PROVE FALSE
  BY <1>1, <1>2, <1>12, NothingTwice
\* The execution pays the transfer.
<1>13. ASSUME NEW r \in Server, NEW t \in Tx, Execute(r, t)
       PROVE  balance'[s][a] = InitialBalance + Received(s, a)'
  <2>1. /\ t \notin transactions[r]
        /\ wal' = [wal EXCEPT ![r] = @ \cup {t}]
        /\ balance' = [balance EXCEPT ![r][Destination(t)] = @ + Amount(t)]
        /\ transactions' = [transactions EXCEPT ![r] = @ \cup {t}]
        /\ certified' = certified
    BY <1>13 DEF Execute
  <2>2. CASE r # s
    <3>1. balance'[s] = balance[s] /\ transactions'[s] = transactions[s] /\ wal'[s] = wal[s]
      BY <1>3, <2>1, <2>2
    <3> QED BY <1>7, <2>1, <3>1 DEF Paid, Undone
  <2>3. CASE r = s
    <3>1. transactions'[s] = transactions[s] \cup {t} /\ wal'[s] = wal[s] \cup {t}
      BY <1>3, <2>1, <2>3
    <3>2. balance'[s] = [balance[s] EXCEPT ![Destination(t)] = @ + Amount(t)]
      BY <1>3, <2>1, <2>3
    <3>3. /\ \A u \in transactions[s] : Undone(s, u)' <=> Undone(s, u)
          /\ ~Undone(s, t)'
      BY <2>1, <2>3, <3>1 DEF Undone
    <3>4. CASE Destination(t) # a
      <4>1. Paid(s, a)' = Paid(s, a)
        BY <3>1, <3>3, <3>4 DEF Paid
      <4>2. balance'[s][a] = balance[s][a]
        BY <1>3, <1>4, <3>2, <3>4
      <4> QED BY <1>7, <4>1, <4>2
    <3>5. CASE Destination(t) = a
      <4>1. t \notin Paid(s, a) /\ Paid(s, a)' = Paid(s, a) \cup {t}
        BY <2>1, <2>3, <3>1, <3>3, <3>5 DEF Paid
      <4>2. sum(Paid(s, a)') = sum(Paid(s, a)) + Amount(t)
        BY <1>5, <4>1, PaidChanges DEF sum
      <4>3. balance'[s][a] = balance[s][a] + Amount(t)
        BY <1>3, <1>4, <3>2, <3>5
      <4>4. Amount(t) \in Int
        BY RequestType
      <4> QED BY <1>2, <1>3, <1>4, <1>5, <1>6, <4>2, <4>3, <4>4
    <3> QED BY <3>4, <3>5
  <2> QED BY <2>2, <2>3
\* A commit does not change what is paid: nothing that it confirms was undone.
<1>14. ASSUME NEW p \in senders, HandleCommit(p)
       PROVE  balance'[s][a] = InitialBalance + Received(s, a)'
  <2>1. /\ p.kind = "2PCcommit" /\ p.tx \in Tx
        /\ wal' = [wal EXCEPT ![Callee(p)] = @ \ {p.tx}]
        /\ certified' = [certified EXCEPT ![Callee(p)][p.tx] = @ + 1]
        /\ balance' = balance /\ transactions' = transactions
    BY <1>1, <1>14 DEF HandleCommit, Receives, TypeOK, SenderType
  <2>2. "2PCcommit" \in decided[p.tx] /\ "2PCabort" \notin decided[p.tx]
    <3>1. "2PCcommit" \in decided[p.tx]
      BY <1>2, <2>1 DEF Once, OneSender
    <3>2. PICK d \in {"2PCcommit", "2PCabort"} : decided[p.tx] \subseteq {d}
      BY <1>2, <2>1 DEF Once, OneDecision
    <3> QED BY <3>1, <3>2
  <2>3. ~Undone(s, p.tx)
    <3>1. ASSUME p.tx \in transactions[s] \ wal[s] PROVE certified[s][p.tx] > 0
      BY <1>2, <2>2, <3>1 DEF Once, RecordsFollowLog
    <3> QED BY <3>1 DEF Undone
  <2>4. CASE s # Callee(p)
    <3>1. wal'[s] = wal[s] /\ certified'[s] = certified[s]
      BY <1>3, <2>1, <2>4
    <3> QED BY <1>7, <2>1, <3>1 DEF Paid, Undone
  <2>5. CASE s = Callee(p)
    <3>1. /\ wal'[s] = wal[s] \ {p.tx}
          /\ certified'[s] = [certified[s] EXCEPT ![p.tx] = @ + 1]
          /\ certified[s] \in [Tx -> Nat]
      BY <1>3, <2>1, <2>5
    <3>2. certified'[s][p.tx] # 0
      BY <2>1, <3>1
    <3>3. \A u \in transactions[s] : u # p.tx => certified'[s][u] = certified[s][u]
      BY <1>3, <3>1
    <3>4. \A u \in transactions[s] : Undone(s, u)' <=> Undone(s, u)
      <4> TAKE u \in transactions[s]
      <4>1. CASE u = p.tx
        BY <2>3, <3>2, <4>1 DEF Undone
      <4>2. CASE u # p.tx
        BY <2>1, <3>1, <3>3, <4>2 DEF Undone
      <4> QED BY <4>1, <4>2
    <3>5. Paid(s, a)' = Paid(s, a)
      BY <2>1, <3>4 DEF Paid
    <3> QED BY <1>7, <2>1, <3>5
  <2> QED BY <2>4, <2>5
\* An abort that finds the transfer takes back what the execution paid.
<1>15. ASSUME NEW p \in senders, HandleAbort(p)
       PROVE  balance'[s][a] = InitialBalance + Received(s, a)'
  <2> DEFINE t == p.tx
  <2>1. /\ p.kind = "2PCabort" /\ t \in Tx
        /\ certified' = certified /\ transactions' = transactions
        /\ \/ UNCHANGED <<wal, balance>>
           \/ /\ t \in wal[Callee(p)]
              /\ wal' = [wal EXCEPT ![Callee(p)] = @ \ {t}]
              /\ balance' = [balance EXCEPT ![Callee(p)][Destination(t)] = @ - Amount(t)]
    BY <1>1, <1>15 DEF HandleAbort, Receives, TypeOK, SenderType, CanUndo
  <2>2. certified[s][t] = 0
    <3>1. "2PCabort" \in decided[t]
      BY <1>2, <2>1 DEF Once, OneSender
    <3>2. PICK d \in {"2PCcommit", "2PCabort"} : decided[t] \subseteq {d}
      BY <1>2, <2>1 DEF Once, OneDecision
    <3>3. certified[s][t] <= 0
      BY <1>2, <2>1, <3>1, <3>2 DEF Once, CertifiedOnce
    <3>4. certified[s][t] \in Nat
      BY <1>3, <2>1
    <3> QED BY <3>3, <3>4
  <2> HIDE DEF t
  <2>3. CASE UNCHANGED <<wal, balance>>
    BY <1>8, <2>1, <2>3
  <2>4. CASE /\ t \in wal[Callee(p)]
             /\ wal' = [wal EXCEPT ![Callee(p)] = @ \ {t}]
             /\ balance' = [balance EXCEPT ![Callee(p)][Destination(t)] = @ - Amount(t)]
    <3>1. CASE s # Callee(p)
      <4>1. wal'[s] = wal[s] /\ balance'[s] = balance[s]
        BY <1>3, <2>4, <3>1
      <4> QED BY <1>7, <2>1, <4>1 DEF Paid, Undone
    <3>2. CASE s = Callee(p)
      <4>1. /\ wal'[s] = wal[s] \ {t} /\ t \in wal[s] /\ t \in transactions[s]
            /\ balance'[s] = [balance[s] EXCEPT ![Destination(t)] = @ - Amount(t)]
        BY <1>1, <1>3, <2>4, <3>2 DEF TablesInv
      <4>2. /\ \A u \in transactions[s] : u # t => (Undone(s, u)' <=> Undone(s, u))
            /\ Undone(s, t)' /\ ~Undone(s, t)
        BY <2>1, <2>2, <4>1 DEF Undone
      <4>3. CASE Destination(t) # a
        <5>1. Paid(s, a)' = Paid(s, a)
          BY <2>1, <4>2, <4>3 DEF Paid
        <5>2. balance'[s][a] = balance[s][a]
          BY <1>3, <1>4, <4>1, <4>3
        <5> QED BY <1>7, <5>1, <5>2
      <4>4. CASE Destination(t) = a
        <5>1. t \in Paid(s, a) /\ Paid(s, a)' = Paid(s, a) \ {t}
          BY <2>1, <4>1, <4>2, <4>4 DEF Paid
        <5>2. sum(Paid(s, a)') = sum(Paid(s, a)) - Amount(t)
          BY <1>5, <2>1, <5>1, PaidChanges DEF sum
        <5>3. balance'[s][a] = balance[s][a] - Amount(t)
          BY <1>3, <1>4, <4>1, <4>4
        <5>4. Amount(t) \in Int
          BY <2>1, RequestType
        <5> QED BY <1>2, <1>3, <1>4, <1>5, <1>6, <5>2, <5>3, <5>4
      <4> QED BY <4>3, <4>4
    <3> QED BY <3>1, <3>2
  <2> QED BY <2>1, <2>3, <2>4
<1> QED BY <1>9, <1>10, <1>11, <1>12, <1>13, <1>14, <1>15 DEF Next, Participate

\* As long as no reply is lost, every balance is the initial one and what the transfers
\* in the server's own tables brought.
THEOREM MoneyMatchesTablesHolds == Spec => []MoneyMatchesTables
<1>1. Init => MoneyMatchesTables
  <2> SUFFICES ASSUME Init, NEW s \in Server, NEW a \in DOMAIN balance[s]
               PROVE  balance[s][a] = InitialBalance + Received(s, a)
    BY DEF MoneyMatchesTables
  <2>1. balance[s][a] = InitialBalance
    BY DEF Init
  <2>2. Received(s, a) = SumFunctionOnSet([t \in Tx |-> Amount(t)], {})
    <3>1. {t \in transactions[s] : Destination(t) = a /\ ~Undone(s, t)} = {}
      BY DEF Init
    <3> QED BY <3>1 DEF Received
  <2>3. Received(s, a) = 0
    BY <2>2, SumOfNothing
  <2> QED BY <2>1, <2>3, CrossShardAssumption
<1>2. BaseInv /\ OnceInv /\ MoneyMatchesTables /\ [Next]_vars => MoneyMatchesTables'
  BY MoneyStep
<1> QED BY <1>1, <1>2, BaseInvariant, OnceInvariant, PTL DEF Spec

=============================================================================
