------------------------- MODULE SmallBankProofs -------------------------
(***************************************************************************)
(* Theorems about concurrent SmallBank calls.                              *)
(***************************************************************************)
EXTENDS SmallBankProperties, CollectionProofs, SequenceTheorems

-----------------------------------------------------------------------------
(* The lists of statements.                                                *)

Statement == [kind : {"select", "clear", "add", "addSeen"}, table : Table, uid : Uid,
              amount : Int]

LEMMA RequestType ==
    ASSUME NEW o \in Op
    PROVE  /\ Request[o].op \in Operations
           /\ Request[o].from \in Uid /\ Request[o].to \in Uid
           /\ Request[o].amount \in Int /\ -Request[o].amount \in Int
           /\ Request[o].inserts \in BOOLEAN
<1>1. Request[o].amount \in Int
  BY SmallBankAssumption
<1> QED BY SmallBankAssumption, <1>1

LEMMA StatementType ==
    ASSUME NEW u \in Uid, NEW t \in Table, NEW n \in Int
    PROVE  /\ Select(t, u) \in Statement /\ Clear(u) \in Statement
           /\ Add(t, u, n) \in Statement /\ AddSeen(t, u) \in Statement
BY DEF Select, Clear, Add, AddSeen, Statement, Table

LEMMA Joined ==
    ASSUME NEW a \in Statement, NEW b \in Statement, NEW c \in Statement, NEW d \in Statement
    PROVE  /\ <<>> \o <<a>> = <<a>>
           /\ <<a>> \o <<b>> = <<a, b>>
           /\ <<>> \o <<>> \o <<a, b>> = <<a, b>>
           /\ <<a>> \o <<b>> \o <<c, d>> = <<a, b, c, d>>
<1>1. <<>> \o <<a>> = <<a>>
  OBVIOUS
<1>2. <<a>> \o <<b>> = <<a, b>>
  <2> DEFINE s == <<a>> \o <<b>>
             t == <<a, b>>
  <2>1. s \in Seq(Statement) /\ t \in Seq(Statement)
    OBVIOUS
  <2>2. Len(s) = 2 /\ Len(t) = 2
    OBVIOUS
  <2>3. s[1] = a /\ s[2] = b /\ t[1] = a /\ t[2] = b
    OBVIOUS
  <2>4. \A i \in 1..Len(s) : s[i] = t[i]
    BY <2>2, <2>3
  <2>5. s = t
    <3> HIDE DEF s, t
    <3> QED BY <2>1, <2>2, <2>4, SeqEqual
  <2> QED BY <2>5
<1>3. <<>> \o <<>> = <<>>
  OBVIOUS
<1>4. <<>> \o <<a, b>> = <<a, b>>
  OBVIOUS
<1>5. <<a, b>> \o <<c, d>> = <<a, b, c, d>>
  <2> DEFINE s == <<a, b>> \o <<c, d>>
             t == <<a, b, c, d>>
  <2>1. s \in Seq(Statement) /\ t \in Seq(Statement)
    OBVIOUS
  <2>2. Len(s) = 4 /\ Len(t) = 4
    OBVIOUS
  <2>3. /\ s[1] = a /\ s[2] = b /\ s[3] = c /\ s[4] = d
        /\ t[1] = a /\ t[2] = b /\ t[3] = c /\ t[4] = d
    OBVIOUS
  <2>4. \A i \in 1..Len(s) : s[i] = t[i]
    BY <2>2, <2>3
  <2>5. s = t
    <3> HIDE DEF s, t
    <3> QED BY <2>1, <2>2, <2>4, SeqEqual
  <2> QED BY <2>5
<1> QED BY <1>1, <1>2, <1>3, <1>4, <1>5

\* The statements of a call, written out.
LEMMA StatementList ==
    ASSUME NEW o \in Op
    PROVE  LET r == Request[o] IN
           \/ /\ r.op = "Amalgamate"
              /\ Statements(o) = <<Select("savings", r.from), Clear(r.from), AddSeen("checking", r.to)>>
           \/ /\ r.op = "Balance"
              /\ Statements(o) = <<Select("checking", r.from), Select("savings", r.from)>>
           \/ /\ r.op = "DepositChecking"
              /\ Statements(o) = IF r.inserts
                                 THEN <<Select("checking", r.from), Add("checking", r.from, r.amount)>>
                                 ELSE <<Add("checking", r.from, r.amount)>>
           \/ /\ r.op = "SendPayment"
              /\ Statements(o) = IF r.inserts
                                 THEN <<Select("checking", r.from), Select("checking", r.to),
                                        Add("checking", r.from, -r.amount),
                                        Add("checking", r.to, r.amount)>>
                                 ELSE <<Add("checking", r.from, -r.amount),
                                        Add("checking", r.to, r.amount)>>
           \/ /\ r.op = "TransactSavings"
              /\ Statements(o) = IF r.inserts
                                 THEN <<Select("savings", r.from), Add("savings", r.from, r.amount)>>
                                 ELSE <<Add("savings", r.from, r.amount)>>
           \/ /\ r.op = "WriteCheck"
              /\ Statements(o) = IF r.inserts
                                 THEN <<Select("checking", r.from), Add("checking", r.from, -r.amount)>>
                                 ELSE <<Add("checking", r.from, -r.amount)>>
<1> DEFINE r == Request[o]
<1>1. /\ r.op \in Operations /\ r.from \in Uid /\ r.to \in Uid
      /\ r.amount \in Int /\ -r.amount \in Int /\ r.inserts \in BOOLEAN
  BY RequestType
<1>2. "checking" \in Table /\ "savings" \in Table
  BY DEF Table
<1>3. CASE r.op = "Amalgamate"
  BY <1>3 DEF Statements, Amalgamate
<1>4. CASE r.op = "Balance"
  BY <1>4 DEF Statements, Balance
<1>5. CASE r.op = "DepositChecking"
  <2>1. Statements(o) = DepositChecking(o)
    BY <1>5 DEF Statements
  <2>2. /\ Select("checking", r.from) \in Statement
        /\ Add("checking", r.from, r.amount) \in Statement
    BY <1>1, <1>2, StatementType
  <2> QED BY <1>1, <1>5, <2>1, <2>2, Joined DEF DepositChecking, Ensure
<1>6. CASE r.op = "SendPayment"
  <2>1. Statements(o) = SendPayment(o)
    BY <1>6 DEF Statements
  <2>2. /\ Select("checking", r.from) \in Statement /\ Select("checking", r.to) \in Statement
        /\ Add("checking", r.from, -r.amount) \in Statement
        /\ Add("checking", r.to, r.amount) \in Statement
    BY <1>1, <1>2, StatementType
  <2> QED BY <1>1, <1>6, <2>1, <2>2, Joined DEF SendPayment, Ensure
<1>7. CASE r.op = "TransactSavings"
  <2>1. Statements(o) = TransactSavings(o)
    BY <1>7 DEF Statements
  <2>2. /\ Select("savings", r.from) \in Statement
        /\ Add("savings", r.from, r.amount) \in Statement
    BY <1>1, <1>2, StatementType
  <2> QED BY <1>1, <1>7, <2>1, <2>2, Joined DEF TransactSavings, Ensure
<1>8. CASE r.op = "WriteCheck"
  <2>1. Statements(o) = WriteCheck(o)
    BY <1>8 DEF Statements
  <2>2. /\ Select("checking", r.from) \in Statement
        /\ Add("checking", r.from, -r.amount) \in Statement
    BY <1>1, <1>2, StatementType
  <2> QED BY <1>1, <1>8, <2>1, <2>2, Joined DEF WriteCheck, Ensure
<1> QED BY <1>1, <1>3, <1>4, <1>5, <1>6, <1>7, <1>8 DEF Operations

\* What the proofs need to know of the i-th statement of a call.
Position(o, i) ==
    LET r == Request[o]
        n == Len(Statements(o))
        s == Statements(o)[i]
    IN
    /\ r.op = "Amalgamate" =>
            /\ n = 3
            /\ i = 1 => s.kind = "select" /\ s.table = "savings" /\ s.uid = r.from
            /\ i = 2 => s.kind = "clear" /\ s.table = "savings" /\ s.uid = r.from
            /\ i = 3 => s.kind = "addSeen" /\ s.table = "checking" /\ s.uid = r.to
    /\ r.op = "Balance" =>
            /\ n = 2
            /\ s.kind = "select" /\ s.uid = r.from
            /\ s.table = IF i = 1 THEN "checking" ELSE "savings"
    /\ r.op = "SendPayment" =>
            /\ n >= 2
            /\ s.table = "checking" /\ s.uid \in {r.from, r.to}
            /\ i <= n - 2 => s.kind = "select"
            /\ i = n - 1 => s.kind = "add" /\ s.uid = r.from /\ s.amount = -r.amount
            /\ i = n => s.kind = "add" /\ s.uid = r.to /\ s.amount = r.amount
            /\ r.inserts => /\ n = 4
                            /\ Statements(o)[1].table = "checking" /\ Statements(o)[1].uid = r.from
                            /\ Statements(o)[2].table = "checking" /\ Statements(o)[2].uid = r.to
                            /\ Statements(o)[1].kind = "select" /\ Statements(o)[2].kind = "select"
    /\ r.op \in {"DepositChecking", "TransactSavings", "WriteCheck"} =>
            /\ n >= 1
            /\ s.table = IF r.op = "TransactSavings" THEN "savings" ELSE "checking"
            /\ s.uid = r.from
            /\ i < n => s.kind = "select"
            /\ i = n => /\ s.kind = "add"
                        /\ s.amount = IF r.op = "WriteCheck" THEN -r.amount ELSE r.amount
            /\ r.inserts => n = 2

LEMMA StatementsType ==
    ASSUME NEW o \in Op
    PROVE  /\ Statements(o) \in Seq(Statement)
           /\ Len(Statements(o)) \in Nat \ {0}
           /\ DOMAIN Statements(o) = 1..Len(Statements(o))
           /\ \A i \in 1..Len(Statements(o)) : Statements(o)[i] \in Statement
<1> DEFINE r == Request[o]
<1>1. /\ r.op \in Operations /\ r.from \in Uid /\ r.to \in Uid
      /\ r.amount \in Int /\ -r.amount \in Int /\ r.inserts \in BOOLEAN
  BY RequestType
<1>2. \A t \in Table : \A u \in {r.from, r.to} :
        Select(t, u) \in Statement /\ AddSeen(t, u) \in Statement /\ Clear(u) \in Statement
  BY <1>1, StatementType
<1>3. \A t \in Table : \A u \in {r.from, r.to} : \A n \in {r.amount, -r.amount} :
        Add(t, u, n) \in Statement
  BY <1>1, StatementType
<1>4. "checking" \in Table /\ "savings" \in Table
  BY DEF Table
<1>5. Statements(o) \in Seq(Statement) /\ Len(Statements(o)) # 0
  <2>1. r.op = "Amalgamate" => Statements(o) \in Seq(Statement) /\ Len(Statements(o)) # 0
    BY <1>2, <1>4, StatementList
  <2>2. ASSUME r.op = "Balance" PROVE Statements(o) \in Seq(Statement) /\ Len(Statements(o)) # 0
    <3> DEFINE s1 == Select("checking", r.from)
               s2 == Select("savings", r.from)
    <3>1. Statements(o) = <<s1, s2>>
      BY <2>2, StatementList
    <3>2. s1 \in Statement /\ s2 \in Statement
      BY <1>2, <1>4
    <3> HIDE DEF s1, s2
    <3> QED BY <3>1, <3>2
  <2>3. ASSUME NEW t \in Table, NEW n \in {r.amount, -r.amount},
               Statements(o) = IF r.inserts THEN <<Select(t, r.from), Add(t, r.from, n)>>
                               ELSE <<Add(t, r.from, n)>>
        PROVE  Statements(o) \in Seq(Statement) /\ Len(Statements(o)) # 0
    <3>1. Select(t, r.from) \in Statement /\ Add(t, r.from, n) \in Statement
      BY <1>2, <1>3
    <3> QED BY <2>3, <3>1
  <2>4. ASSUME r.op = "SendPayment" PROVE Statements(o) \in Seq(Statement) /\ Len(Statements(o)) # 0
    <3>1. /\ Select("checking", r.from) \in Statement /\ Select("checking", r.to) \in Statement
          /\ Add("checking", r.from, -r.amount) \in Statement
          /\ Add("checking", r.to, r.amount) \in Statement
      BY <1>2, <1>3, <1>4
    <3>2. Statements(o) = IF r.inserts
                          THEN <<Select("checking", r.from), Select("checking", r.to),
                                 Add("checking", r.from, -r.amount), Add("checking", r.to, r.amount)>>
                          ELSE <<Add("checking", r.from, -r.amount), Add("checking", r.to, r.amount)>>
      BY <2>4, StatementList
    <3> QED BY <3>1, <3>2
  <2>5. r.op \in {"DepositChecking", "TransactSavings", "WriteCheck"}
           => Statements(o) \in Seq(Statement) /\ Len(Statements(o)) # 0
    <3>1. r.op = "DepositChecking" =>
            Statements(o) = IF r.inserts
                            THEN <<Select("checking", r.from), Add("checking", r.from, r.amount)>>
                            ELSE <<Add("checking", r.from, r.amount)>>
      BY StatementList
    <3>2. r.op = "TransactSavings" =>
            Statements(o) = IF r.inserts
                            THEN <<Select("savings", r.from), Add("savings", r.from, r.amount)>>
                            ELSE <<Add("savings", r.from, r.amount)>>
      BY StatementList
    <3>3. r.op = "WriteCheck" =>
            Statements(o) = IF r.inserts
                            THEN <<Select("checking", r.from), Add("checking", r.from, -r.amount)>>
                            ELSE <<Add("checking", r.from, -r.amount)>>
      BY StatementList
    <3> QED BY <1>4, <2>3, <3>1, <3>2, <3>3
  <2> QED BY <1>1, <2>1, <2>2, <2>4, <2>5 DEF Operations
<1> QED BY <1>5

\* A list that ends in its only update.
LEMMA OneUpdate ==
    ASSUME NEW list, NEW t, NEW u, NEW n, NEW inserts \in BOOLEAN,
           list = IF inserts THEN <<Select(t, u), Add(t, u, n)>> ELSE <<Add(t, u, n)>>,
           NEW i \in 1..Len(list)
    PROVE  /\ Len(list) \in 1..2
           /\ inserts => Len(list) = 2
           /\ list[i].table = t /\ list[i].uid = u
           /\ i < Len(list) => list[i].kind = "select"
           /\ i = Len(list) => list[i].kind = "add" /\ list[i].amount = n
<1>1. CASE inserts
  <2>1. Len(list) = 2 /\ list[1] = Select(t, u) /\ list[2] = Add(t, u, n)
    BY <1>1
  <2>2. i \in {1, 2}
    BY <2>1
  <2> QED BY <2>1, <2>2 DEF Select, Add
<1>2. CASE ~ inserts
  <2>1. Len(list) = 1 /\ list[1] = Add(t, u, n)
    BY <1>2
  <2>2. i = 1
    BY <2>1
  <2> QED BY <1>2, <2>1, <2>2 DEF Add
<1> QED BY <1>1, <1>2

LEMMA PositionHolds ==
    ASSUME NEW o \in Op, NEW i \in 1..Len(Statements(o))
    PROVE  Position(o, i)
<1> DEFINE r == Request[o]
<1>1. r.op \in Operations /\ r.inserts \in BOOLEAN
  BY RequestType
<1>3. CASE r.op = "Amalgamate"
  BY <1>3, StatementList DEF Position, Select, Clear, AddSeen
<1>4. CASE r.op = "Balance"
  BY <1>4, StatementList DEF Position, Select
<1>5. CASE r.op = "DepositChecking"
  <2>1. Statements(o) = IF r.inserts
                        THEN <<Select("checking", r.from), Add("checking", r.from, r.amount)>>
                        ELSE <<Add("checking", r.from, r.amount)>>
    BY <1>5, StatementList
  <2>2. /\ Len(Statements(o)) \in 1..2
        /\ r.inserts => Len(Statements(o)) = 2
        /\ Statements(o)[i].table = "checking" /\ Statements(o)[i].uid = r.from
        /\ i < Len(Statements(o)) => Statements(o)[i].kind = "select"
        /\ i = Len(Statements(o)) => Statements(o)[i].kind = "add" /\ Statements(o)[i].amount = r.amount
    <3> HIDE DEF r
    <3> QED BY <1>1, <2>1, OneUpdate, SMTT(60)
  <2> QED BY <1>5, <2>2 DEF Position
<1>6. CASE r.op = "SendPayment"
  <2>1. CASE r.inserts
    <3>1. /\ Len(Statements(o)) = 4
          /\ Statements(o)[1] = Select("checking", r.from)
          /\ Statements(o)[2] = Select("checking", r.to)
          /\ Statements(o)[3] = Add("checking", r.from, -r.amount)
          /\ Statements(o)[4] = Add("checking", r.to, r.amount)
      BY <1>6, <2>1, StatementList
    <3>2. i \in {1, 2, 3, 4}
      BY <3>1
    <3> QED BY <1>6, <3>1, <3>2 DEF Position, Select, Add
  <2>2. CASE ~ r.inserts
    <3>1. /\ Len(Statements(o)) = 2
          /\ Statements(o)[1] = Add("checking", r.from, -r.amount)
          /\ Statements(o)[2] = Add("checking", r.to, r.amount)
      BY <1>6, <2>2, StatementList
    <3>2. i \in {1, 2}
      BY <3>1
    <3> QED BY <1>6, <2>2, <3>1, <3>2 DEF Position, Add
  <2> QED BY <2>1, <2>2
<1>7. CASE r.op = "TransactSavings"
  <2>1. Statements(o) = IF r.inserts
                        THEN <<Select("savings", r.from), Add("savings", r.from, r.amount)>>
                        ELSE <<Add("savings", r.from, r.amount)>>
    BY <1>7, StatementList
  <2>2. /\ Len(Statements(o)) \in 1..2
        /\ r.inserts => Len(Statements(o)) = 2
        /\ Statements(o)[i].table = "savings" /\ Statements(o)[i].uid = r.from
        /\ i < Len(Statements(o)) => Statements(o)[i].kind = "select"
        /\ i = Len(Statements(o)) => Statements(o)[i].kind = "add" /\ Statements(o)[i].amount = r.amount
    <3> HIDE DEF r
    <3> QED BY <1>1, <2>1, OneUpdate, SMTT(60)
  <2> QED BY <1>7, <2>2 DEF Position
<1>8. CASE r.op = "WriteCheck"
  <2> DEFINE m == -r.amount
  <2>1. Statements(o) = IF r.inserts
                        THEN <<Select("checking", r.from), Add("checking", r.from, m)>>
                        ELSE <<Add("checking", r.from, m)>>
    BY <1>8, StatementList
  <2>2. /\ Len(Statements(o)) \in 1..2
        /\ r.inserts => Len(Statements(o)) = 2
        /\ Statements(o)[i].table = "checking" /\ Statements(o)[i].uid = r.from
        /\ i < Len(Statements(o)) => Statements(o)[i].kind = "select"
        /\ i = Len(Statements(o)) => Statements(o)[i].kind = "add" /\ Statements(o)[i].amount = m
    <3> HIDE DEF r, m
    <3> QED BY <1>1, <2>1, OneUpdate, SMTT(60)
  <2> QED BY <1>8, <2>2 DEF Position
<1> QED BY <1>1, <1>3, <1>4, <1>5, <1>6, <1>7, <1>8 DEF Operations

-----------------------------------------------------------------------------
(* Steps of a call.                                                        *)

\* The call o, where it is.
LEMMA Here ==
    ASSUME TypeOK, NEW o \in todo
    PROVE  /\ o \in Op
           /\ pc[o] \in Nat /\ pc[o] \in 1..Len(Statements(o)) /\ Len(Statements(o)) \in Nat \ {0}
           /\ At(o) \in Statement
           /\ At(o).kind \in {"select", "clear", "add", "addSeen"}
           /\ At(o).table \in Table /\ At(o).uid \in Uid /\ At(o).amount \in Int
           /\ Position(o, pc[o])
           /\ seen[o] \in Int
<1>1. o \in Op
  BY SmallBankAssumption DEF TypeOK
<1>2. pc[o] \in Nat /\ pc[o] \in DOMAIN Statements(o) /\ seen[o] \in Int
  BY DEF TypeOK
<1>3. pc[o] \in 1..Len(Statements(o)) /\ Len(Statements(o)) \in Nat \ {0} /\ At(o) \in Statement
  BY <1>1, <1>2, StatementsType DEF At
<1>4. /\ At(o).kind \in {"select", "clear", "add", "addSeen"}
      /\ At(o).table \in Table /\ At(o).uid \in Uid /\ At(o).amount \in Int
  BY <1>3 DEF Statement
<1> QED BY <1>1, <1>2, <1>3, <1>4, PositionHolds

\* The other calls stay where they are.
Alone(o) ==
    /\ todo' = todo
    /\ pc' \in [todo -> Nat] /\ seen' \in [todo -> Int]
    /\ status' \in [todo -> {"running", "inserting", "done", "failed"}]
    /\ \A p \in todo \ {o} : pc'[p] = pc[p] /\ status'[p] = status[p] /\ seen'[p] = seen[p]

Stays(o, state) == pc'[o] = pc[o] /\ status'[o] = state

Advances(o) ==
    \/ Returns(o) /\ Stays(o, "done")
    \/ ~ Returns(o) /\ pc'[o] = pc[o] + 1 /\ status'[o] = "running"

LEMMA AdvanceShape ==
    ASSUME TypeOK, NEW o \in todo, Advance(o), todo' = todo, seen' \in [todo -> Int],
           \A p \in todo \ {o} : seen'[p] = seen[p]
    PROVE  Alone(o) /\ Advances(o)
<1>1. /\ pc \in [todo -> Nat]
      /\ status \in [todo -> {"running", "inserting", "done", "failed"}]
  BY DEF TypeOK
<1> QED BY <1>1 DEF Advance, Alone, Advances, Stays

LEMMA StayShape ==
    ASSUME TypeOK, NEW o \in todo, NEW state \in {"inserting", "failed"},
           status' = [status EXCEPT ![o] = state], UNCHANGED <<todo, pc, seen>>
    PROVE  Alone(o) /\ Stays(o, state) /\ seen'[o] = seen[o]
<1>1. /\ pc \in [todo -> Nat] /\ seen \in [todo -> Int]
      /\ status \in [todo -> {"running", "inserting", "done", "failed"}]
  BY DEF TypeOK
<1> QED BY <1>1 DEF Alone, Stays

\* A row with the amount n is added to the table t.
Inserted(t, u) ==
    /\ u \notin DOMAIN bal[t]
    /\ DOMAIN bal' = Table
    /\ \A x \in Table : DOMAIN bal'[x] = IF x = t THEN DOMAIN bal[x] \cup {u} ELSE DOMAIN bal[x]
    /\ \A x \in Table : \A y \in DOMAIN bal[x] : bal'[x][y] = bal[x][y]
    /\ bal'[t][u] = 0

\* The amount n is written to a row.
Written(t, u, n) ==
    /\ u \in DOMAIN bal[t]
    /\ DOMAIN bal' = Table
    /\ \A x \in Table : DOMAIN bal'[x] = DOMAIN bal[x]
    /\ \A x \in Table : \A y \in DOMAIN bal[x] :
          bal'[x][y] = IF x = t /\ y = u THEN n ELSE bal[x][y]

LEMMA InsertShape ==
    ASSUME TypeOK, NEW t \in Table, NEW u \in Uid, u \notin DOMAIN bal[t],
           bal' = [bal EXCEPT ![t] =
                       [y \in DOMAIN @ \cup {u} |-> IF y = u THEN 0 ELSE @[y]]]
    PROVE  Inserted(t, u)
<1>1. DOMAIN bal = Table
  BY DEF TypeOK
<1>2. /\ DOMAIN bal' = Table
      /\ bal'[t] = [y \in DOMAIN bal[t] \cup {u} |-> IF y = u THEN 0 ELSE bal[t][y]]
      /\ \A x \in Table \ {t} : bal'[x] = bal[x]
  BY <1>1
<1> QED BY <1>2 DEF Inserted

\* What a statement makes of the amount in its row.
Result(o) ==
    LET s == At(o) IN
    CASE s.kind = "clear"   -> 0
      [] s.kind = "add"     -> bal[s.table][s.uid] + s.amount
      [] s.kind = "addSeen" -> bal[s.table][s.uid] + seen[o]

LEMMA UpdateShape ==
    ASSUME TypeOK, NEW o \in todo, Update(o), HasRow(At(o))
    PROVE  Written(At(o).table, At(o).uid, Result(o)) /\ Result(o) \in Int
<1> DEFINE s == At(o)
           t == s.table
           u == s.uid
<1>1. DOMAIN bal = Table /\ t \in Table /\ u \in DOMAIN bal[t] /\ bal[t][u] \in Int
  BY Here DEF TypeOK, HasRow
<1>2. s.amount \in Int /\ seen[o] \in Int /\ s.kind \in {"clear", "add", "addSeen"}
  BY Here DEF Update
<1>3. bal' = [bal EXCEPT ![t][u] = Result(o)]
  BY <1>1 DEF Update, Result
<1>4. /\ DOMAIN bal' = Table
      /\ bal'[t] = [bal[t] EXCEPT ![u] = Result(o)]
      /\ \A x \in Table \ {t} : bal'[x] = bal[x]
  BY <1>1, <1>3
<1>5. Result(o) \in Int
  BY <1>1, <1>2 DEF Result
<1> QED BY <1>1, <1>4, <1>5 DEF Written

\* What a step of o may be.
Reads(o) ==
    /\ At(o).kind = "select" /\ HasRow(At(o))
    /\ Advances(o) /\ UNCHANGED <<bal, errors>>
    /\ seen'[o] = seen[o] + bal[At(o).table][At(o).uid]

Misses(o) ==
    /\ At(o).kind = "select" /\ ~ HasRow(At(o))
    /\ \/ Stays(o, "inserting") /\ Request[o].inserts
       \/ Stays(o, "failed")
       \/ Advances(o) /\ Request[o].op = "Balance" /\ ~ Request[o].inserts
    /\ UNCHANGED <<bal, errors>> /\ seen'[o] = seen[o]

Inserts(o) ==
    /\ At(o).kind = "select"
    /\ \/ HasRow(At(o)) /\ Stays(o, "failed") /\ UNCHANGED bal
       \/ ~ HasRow(At(o)) /\ Inserted(At(o).table, At(o).uid) /\ Advances(o)
    /\ UNCHANGED errors /\ seen'[o] = seen[o]

Writes(o) ==
    /\ At(o).kind # "select"
    /\ \/ ~ HasRow(At(o)) /\ UNCHANGED bal
       \/ HasRow(At(o)) /\ Written(At(o).table, At(o).uid, Result(o)) /\ Result(o) \in Int
    /\ Advances(o) /\ UNCHANGED errors /\ seen'[o] = seen[o]

Breaks(o) ==
    /\ errors < MaxErrors /\ errors' = errors + 1
    /\ Stays(o, "failed") /\ UNCHANGED bal /\ seen'[o] = seen[o]

Moves(o) ==
    /\ Alone(o) /\ status[o] \in {"running", "inserting"}
    /\ Reads(o) \/ Misses(o) \/ Inserts(o) \/ Writes(o) \/ Breaks(o)

LEMMA StepMoves ==
    ASSUME TypeOK, RowsInv, Next
    PROVE  \E o \in todo : Moves(o)
<1>1. PICK o \in todo : Found(o) \/ NotFound(o) \/ Insert(o) \/ Update(o) \/ StatementFails(o)
  BY DEF Next
<1>2. seen \in [todo -> Int] /\ seen[o] \in Int
  BY DEF TypeOK
<1>3. CASE Found(o)
  <2>1. bal[At(o).table][At(o).uid] \in Int
    BY <1>3, Here DEF Found, HasRow, TypeOK
  <2>2. /\ seen' \in [todo -> Int] /\ \A p \in todo \ {o} : seen'[p] = seen[p]
        /\ seen'[o] = seen[o] + bal[At(o).table][At(o).uid]
    BY <1>2, <1>3, <2>1 DEF Found
  <2>3. Alone(o) /\ Advances(o)
    BY <1>3, <2>2, AdvanceShape DEF Found
  <2>4. /\ At(o).kind = "select" /\ HasRow(At(o)) /\ UNCHANGED <<bal, errors>>
        /\ status[o] = "running"
    BY <1>3 DEF Found, Running
  <2> QED BY <2>2, <2>3, <2>4 DEF Moves, Reads
<1>4. CASE NotFound(o)
  <2>1. /\ At(o).kind = "select" /\ ~ HasRow(At(o)) /\ UNCHANGED <<todo, seen, bal, errors>>
        /\ status[o] = "running"
    BY <1>4 DEF NotFound, Running
  <2>2. \/ Request[o].inserts /\ Alone(o) /\ Stays(o, "inserting")
        \/ Alone(o) /\ Stays(o, "failed")
        \/ ~ Request[o].inserts /\ Request[o].op = "Balance" /\ Alone(o) /\ Advances(o)
    <3>1. CASE Request[o].inserts
      BY <1>4, <2>1, <3>1, StayShape DEF NotFound
    <3>2. CASE ~ Request[o].inserts /\ Request[o].op = "Balance"
      BY <1>2, <1>4, <2>1, <3>2, AdvanceShape DEF NotFound
    <3>3. CASE ~ Request[o].inserts /\ Request[o].op # "Balance"
      BY <1>4, <2>1, <3>3, StayShape DEF NotFound, Fail
    <3> QED BY <3>1, <3>2, <3>3
  <2> QED BY <2>1, <2>2 DEF Moves, Misses
<1>5. CASE Insert(o)
  <2>1. At(o).kind = "select" /\ status[o] = "inserting"
    BY <1>5 DEF Insert, RowsInv
  <2>2. UNCHANGED <<todo, seen, errors>>
    BY <1>5 DEF Insert
  <2>3. CASE HasRow(At(o))
    <3>1. Fail(o) /\ UNCHANGED bal
      BY <1>5, <2>3 DEF Insert
    <3>2. Alone(o) /\ Stays(o, "failed")
      BY <2>2, <3>1, StayShape DEF Fail
    <3> QED BY <2>1, <2>2, <2>3, <3>1, <3>2 DEF Moves, Inserts
  <2>4. CASE ~ HasRow(At(o))
    <3>1. /\ Advance(o)
          /\ bal' = [bal EXCEPT ![At(o).table] =
                         [y \in DOMAIN @ \cup {At(o).uid} |-> IF y = At(o).uid THEN 0 ELSE @[y]]]
      BY <1>5, <2>4 DEF Insert
    <3>2. Inserted(At(o).table, At(o).uid)
      BY <2>4, <3>1, Here, InsertShape DEF HasRow
    <3>3. Alone(o) /\ Advances(o)
      BY <1>2, <2>2, <3>1, AdvanceShape
    <3> QED BY <2>1, <2>2, <2>4, <3>2, <3>3 DEF Moves, Inserts
  <2> QED BY <2>3, <2>4
<1>6. CASE Update(o)
  <2>1. /\ status[o] = "running" /\ At(o).kind # "select" /\ Advance(o)
        /\ UNCHANGED <<todo, seen, errors>>
        /\ ~ HasRow(At(o)) => UNCHANGED bal
    BY <1>6 DEF Update
  <2>2. Alone(o) /\ Advances(o)
    BY <1>2, <2>1, AdvanceShape
  <2>3. HasRow(At(o)) => Written(At(o).table, At(o).uid, Result(o)) /\ Result(o) \in Int
    BY <1>6, UpdateShape
  <2> QED BY <2>1, <2>2, <2>3 DEF Moves, Writes
<1>7. CASE StatementFails(o)
  <2>1. /\ status[o] \in {"running", "inserting"} /\ errors < MaxErrors /\ errors' = errors + 1
        /\ Fail(o) /\ UNCHANGED <<todo, seen, bal>>
    BY <1>7 DEF StatementFails
  <2>2. Alone(o) /\ Stays(o, "failed")
    BY <2>1, StayShape DEF Fail
  <2> QED BY <2>1, <2>2 DEF Moves, Breaks
<1> QED BY <1>1, <1>3, <1>4, <1>5, <1>6, <1>7

-----------------------------------------------------------------------------
(* Types.                                                                  *)

BaseInv == TypeOK /\ RowsInv

\* Rows never vanish, and at most one is added in a step.
LEMMA TablesStep ==
    ASSUME TypeOK, NEW o \in todo, Moves(o)
    PROVE  /\ DOMAIN bal' = Table
           /\ \A t \in Table : /\ DOMAIN bal[t] \subseteq DOMAIN bal'[t]
                               /\ DOMAIN bal'[t] \in {DOMAIN bal[t], DOMAIN bal[t] \cup {At(o).uid}}
                               /\ \A u \in DOMAIN bal'[t] : bal'[t][u] \in Int
<1>1. /\ DOMAIN bal = Table
      /\ \A t \in Table : \A u \in DOMAIN bal[t] : bal[t][u] \in Int
  BY DEF TypeOK
<1>2. CASE UNCHANGED bal
  BY <1>1, <1>2
<1>3. ASSUME Inserted(At(o).table, At(o).uid)
      PROVE  /\ DOMAIN bal' = Table
             /\ \A t \in Table : /\ DOMAIN bal[t] \subseteq DOMAIN bal'[t]
                                 /\ DOMAIN bal'[t] \in {DOMAIN bal[t], DOMAIN bal[t] \cup {At(o).uid}}
                                 /\ \A u \in DOMAIN bal'[t] : bal'[t][u] \in Int
  BY <1>1, <1>3 DEF Inserted
<1>4. ASSUME Written(At(o).table, At(o).uid, Result(o)), Result(o) \in Int
      PROVE  /\ DOMAIN bal' = Table
             /\ \A t \in Table : /\ DOMAIN bal'[t] = DOMAIN bal[t]
                                 /\ \A u \in DOMAIN bal'[t] : bal'[t][u] \in Int
  <2> HIDE DEF Result
  <2> QED BY <1>1, <1>4 DEF Written
<1> QED BY <1>2, <1>3, <1>4 DEF Moves, Reads, Misses, Inserts, Writes, Breaks

LEMMA TypeStep ==
    ASSUME TypeOK, NEW o \in todo, Moves(o)
    PROVE  TypeOK'
<1>1. Alone(o)
  BY DEF Moves
<1>2. todo' \in Workloads /\ pc' \in [todo' -> Nat] /\ seen' \in [todo' -> Int]
      /\ status' \in [todo' -> {"running", "inserting", "done", "failed"}]
  BY <1>1 DEF Alone, TypeOK
<1>3. pc'[o] \in DOMAIN Statements(o)
  <2>1. Advances(o) \/ pc'[o] = pc[o]
    BY DEF Moves, Reads, Misses, Inserts, Writes, Breaks, Stays
  <2>2. /\ pc[o] \in Nat /\ pc[o] \in 1..Len(Statements(o)) /\ Len(Statements(o)) \in Nat
        /\ DOMAIN Statements(o) = 1..Len(Statements(o))
    BY Here, StatementsType
  <2> QED BY <2>1, <2>2 DEF Advances, Returns, Stays
<1>4. \A p \in todo' : pc'[p] \in DOMAIN Statements(p)
  BY <1>1, <1>3 DEF Alone, TypeOK
<1>5. errors' \in 0..MaxErrors
  BY SmallBankAssumption DEF TypeOK, Moves, Reads, Misses, Inserts, Writes, Breaks
<1>6. /\ DOMAIN bal' = Table
      /\ \A t \in Table : DOMAIN bal'[t] \subseteq Uid /\ \A u \in DOMAIN bal'[t] : bal'[t][u] \in Int
  <2>1. \A t \in Table : DOMAIN bal[t] \subseteq Uid
    BY DEF TypeOK
  <2>2. At(o).uid \in Uid
    BY Here
  <2>3. DOMAIN bal' = Table
    BY TablesStep
  <2>4. ASSUME NEW t \in Table
        PROVE  DOMAIN bal'[t] \subseteq Uid /\ \A u \in DOMAIN bal'[t] : bal'[t][u] \in Int
    <3>1. /\ DOMAIN bal'[t] \in {DOMAIN bal[t], DOMAIN bal[t] \cup {At(o).uid}}
          /\ \A u \in DOMAIN bal'[t] : bal'[t][u] \in Int
      BY TablesStep
    <3> QED BY <2>1, <2>2, <3>1
  <2> QED BY <2>3, <2>4
<1> QED BY <1>2, <1>4, <1>5, <1>6 DEF TypeOK

LEMMA RowsStep ==
    ASSUME BaseInv, NEW o \in todo, Moves(o)
    PROVE  RowsInv'
<1>1. Alone(o) /\ TypeOK /\ RowsInv
  BY DEF Moves, BaseInv
<1>2. todo' = todo
  BY <1>1 DEF Alone
<1>3. ASSUME NEW p \in todo, status'[p] = "inserting"
      PROVE  Request[p].inserts /\ Statements(p)[pc'[p]].kind = "select"
  <2>1. CASE p # o
    BY <1>1, <1>3, <2>1 DEF Alone, RowsInv, At
  <2>2. CASE p = o
    BY <1>1, <1>3, <2>2
       DEF Moves, Reads, Misses, Inserts, Writes, Breaks, Advances, Stays, At
  <2> QED BY <2>1, <2>2
<1>4. ASSUME NEW t \in Table
      PROVE  IsFiniteSet(DOMAIN bal'[t]) /\ DOMAIN Initial[t] \subseteq DOMAIN bal'[t]
  <2>1. IsFiniteSet(DOMAIN bal[t]) /\ DOMAIN Initial[t] \subseteq DOMAIN bal[t]
    BY <1>1 DEF RowsInv
  <2>2. /\ DOMAIN bal[t] \subseteq DOMAIN bal'[t]
        /\ DOMAIN bal'[t] \in {DOMAIN bal[t], DOMAIN bal[t] \cup {At(o).uid}}
    BY <1>1, TablesStep
  <2>3. IsFiniteSet(DOMAIN bal[t] \cup {At(o).uid})
    BY <2>1, FS_AddElement
  <2> QED BY <2>1, <2>2, <2>3
<1>5. ASSUME NEW p \in todo, NEW i \in 1..(pc'[p] - 1), Request[p].inserts,
             Statements(p)[i].kind = "select"
      PROVE  Statements(p)[i].uid \in DOMAIN bal'[Statements(p)[i].table]
  <2>1. p \in Op /\ pc[p] \in Nat /\ pc[p] \in 1..Len(Statements(p)) /\ Len(Statements(p)) \in Nat
    BY <1>1, Here
  <2>2. pc'[p] \in 1..Len(Statements(p))
    BY <1>1, <1>2, <2>1, TypeStep, StatementsType DEF TypeOK
  <2>3. i \in 1..Len(Statements(p))
    BY <2>1, <2>2
  <2>4. Statements(p)[i].table \in Table
    BY <2>1, <2>3, StatementsType DEF Statement
  <2>5. CASE i \in 1..(pc[p] - 1)
    BY <1>1, <1>5, <2>4, <2>5, TablesStep DEF RowsInv, HasRow
  <2>6. CASE i \notin 1..(pc[p] - 1)
    <3>1. p = o
      BY <1>1, <1>5, <2>6 DEF Alone
    <3>2. pc'[o] = pc[o] + 1 /\ i = pc[o] /\ Advances(o)
      <4>1. Advances(o) \/ pc'[o] = pc[o]
        BY DEF Moves, Reads, Misses, Inserts, Writes, Breaks, Stays
      <4> QED BY <1>5, <2>1, <2>6, <3>1, <4>1 DEF Advances, Stays
    <3>3. Statements(p)[i] = At(o)
      BY <3>1, <3>2 DEF At
    <3>4. CASE HasRow(At(o))
      BY <2>4, <3>3, <3>4, <1>1, TablesStep DEF HasRow
    <3>5. CASE ~ HasRow(At(o))
      <4>1. Inserted(At(o).table, At(o).uid)
        BY <1>5, <2>1, <3>1, <3>2, <3>3, <3>5
           DEF Moves, Reads, Misses, Inserts, Writes, Breaks, Stays
      <4> QED BY <2>4, <3>3, <4>1 DEF Inserted
    <3> QED BY <3>4, <3>5
  <2> QED BY <2>5, <2>6
<1>6. ASSUME NEW p \in todo, status'[p] = "done"
      PROVE  pc'[p] = Len(Statements(p))
  <2>1. CASE p # o
    BY <1>1, <1>6, <2>1 DEF Alone, RowsInv, Returns
  <2>2. CASE p = o
    BY <1>6, <2>2 DEF Moves, Reads, Misses, Inserts, Writes, Breaks, Advances, Stays, Returns
  <2> QED BY <2>1, <2>2
<1> QED BY <1>2, <1>3, <1>4, <1>5, <1>6 DEF RowsInv, Returns, At, HasRow

LEMMA BaseInit ==
    ASSUME Init
    PROVE  BaseInv
<1>1. todo \in Workloads /\ todo \subseteq Op /\ IsFiniteSet(todo)
  BY SmallBankAssumption DEF Init
<1>2. \A o \in todo : Len(Statements(o)) \in Nat \ {0} /\ DOMAIN Statements(o) = 1..Len(Statements(o))
  BY <1>1, StatementsType
<1>3. TypeOK
  BY <1>1, <1>2, SmallBankAssumption DEF Init, TypeOK
<1>4. RowsInv
  <2>1. \A o \in todo : status[o] = "running" /\ pc[o] = 1
    BY DEF Init
  <2>2. \A t \in Table : IsFiniteSet(DOMAIN bal[t]) /\ DOMAIN Initial[t] \subseteq DOMAIN bal[t]
    BY SmallBankAssumption DEF Init
  <2> QED BY <2>1, <2>2 DEF RowsInv
<1> QED BY <1>3, <1>4 DEF BaseInv

\* The calls of every step, stuttering ones included.
LEMMA Steps ==
    ASSUME BaseInv, [Next]_vars
    PROVE  UNCHANGED vars \/ \E o \in todo : Moves(o)
BY StepMoves DEF BaseInv

LEMMA BaseStep ==
    ASSUME BaseInv, [Next]_vars
    PROVE  BaseInv'
<1>1. CASE UNCHANGED vars
  BY <1>1 DEF vars, BaseInv, TypeOK, RowsInv, Returns, At, HasRow
<1>2. ASSUME NEW o \in todo, Moves(o) PROVE BaseInv'
  BY <1>2, TypeStep, RowsStep DEF BaseInv
<1> QED BY <1>1, <1>2, Steps

LEMMA BaseInvariant == Spec => []BaseInv
<1>1. Init => BaseInv
  BY BaseInit
<1>2. BaseInv /\ [Next]_vars => BaseInv'
  BY BaseStep
<1> QED BY <1>1, <1>2, PTL DEF Spec

\* For all calls and tables, however the statements of the calls interleave and fail,
\* every variable keeps its type and no call runs past its last statement.
THEOREM SmallBankTypeCorrect == Spec => []TypeOK
<1>1. BaseInv => TypeOK
  BY DEF BaseInv
<1> QED BY <1>1, BaseInvariant, PTL

-----------------------------------------------------------------------------
(* What an Amalgamate has seen.                                            *)

\* p may write the savings of u.
SavingsWriter(p, u) == Is(p, {"Amalgamate", "TransactSavings"}) /\ Request[p].from = u

\* Only those two operations write savings, and each only those of its user.
LEMMA WhoWrites ==
    ASSUME TypeOK, NEW o \in todo, At(o).kind # "select"
    PROVE  /\ At(o).table = "savings" => SavingsWriter(o, At(o).uid)
           /\ At(o).kind = "clear" => /\ Request[o].op = "Amalgamate" /\ pc[o] = 2
                                      /\ At(o).table = "savings" /\ At(o).uid = Request[o].from
           /\ At(o).kind = "addSeen" => /\ Request[o].op = "Amalgamate" /\ pc[o] = 3
                                        /\ At(o).table = "checking" /\ At(o).uid = Request[o].to
<1>1. /\ o \in Op /\ pc[o] \in Nat /\ pc[o] \in 1..Len(Statements(o)) /\ Position(o, pc[o])
      /\ Len(Statements(o)) \in Nat
  BY Here
<1>2. Request[o].op \in Operations
  BY <1>1, RequestType
<1> QED BY <1>1, <1>2 DEF Position, At, Operations, SavingsWriter, Is

\* An account of the tables after a step.
LEMMA RowAfter ==
    ASSUME TypeOK, NEW o \in todo, Moves(o), NEW t \in Table, NEW u \in Uid
    PROVE  \/ In(bal', t, u) = In(bal, t, u)
           \/ /\ Writes(o) /\ HasRow(At(o)) /\ t = At(o).table /\ u = At(o).uid
              /\ In(bal, t, u) = bal[t][u] /\ In(bal', t, u) = Result(o)
<1>1. DOMAIN bal = Table /\ \A x \in Table : DOMAIN bal[x] \subseteq Uid
  BY DEF TypeOK
<1>2. CASE UNCHANGED bal
  BY <1>2
<1>3. CASE Inserted(At(o).table, At(o).uid)
  <2>1. At(o).table \in Table /\ At(o).uid \in Uid
    BY Here
  <2> QED BY <1>1, <1>3, <2>1 DEF Inserted, In
<1>4. ASSUME Writes(o), HasRow(At(o))
      PROVE  \/ In(bal', t, u) = In(bal, t, u)
             \/ /\ t = At(o).table /\ u = At(o).uid
                /\ In(bal, t, u) = bal[t][u] /\ In(bal', t, u) = Result(o)
  <2>1. Written(At(o).table, At(o).uid, Result(o))
    BY <1>4 DEF Writes
  <2> HIDE DEF Result
  <2> QED BY <1>1, <1>4, <2>1 DEF Written, In, HasRow
<1> QED BY <1>2, <1>3, <1>4 DEF Moves, Reads, Misses, Inserts, Writes, Breaks

\* Savings that o does not write.
LEMMA OtherSavings ==
    ASSUME TypeOK, NEW o \in todo, Moves(o), NEW u \in Uid, ~ SavingsWriter(o, u)
    PROVE  In(bal', "savings", u) = In(bal, "savings", u)
<1>1. "savings" \in Table
  BY DEF Table
<1> QED BY <1>1, RowAfter, WhoWrites DEF Writes

LEMMA SafeStays ==
    ASSUME todo' = todo
    PROVE  AllSafe' <=> AllSafe
BY DEF AllSafe, Risky, Is

LEMMA SafeAmalgamate ==
    ASSUME TypeOK, AllSafe, NEW o \in todo, Is(o, {"Amalgamate"})
    PROVE  /\ \A p \in todo \ {o} : ~ SavingsWriter(p, Request[o].from)
           /\ Request[o].to \in DOMAIN Initial["checking"]
BY DEF AllSafe, Risky, SavingsWriter

LEMMA SeenStep ==
    ASSUME BaseInv, SeenInv, NEW o \in todo, Moves(o)
    PROVE  SeenInv'
<1> USE DEF BaseInv
<1>1. Alone(o) /\ todo' = todo /\ (AllSafe' <=> AllSafe)
  BY SafeStays DEF Moves, Alone
<1>2. TypeOK'
  BY TypeStep
<1>3. "savings" \in Table /\ "checking" \in Table
  BY DEF Table
<1>4. ASSUME NEW p \in todo
      PROVE  /\ p \in Op /\ Request[p].from \in Uid
             /\ pc[p] \in Nat /\ pc'[p] \in Nat
             /\ (pc'[p] = pc[p] /\ seen'[p] = seen[p]) \/ p = o
  BY <1>1, <1>2, Here, RequestType DEF Alone, TypeOK
<1>5. /\ pc[o] \in Nat /\ pc[o] \in 1..Len(Statements(o)) /\ Position(o, pc[o])
      /\ Len(Statements(o)) \in Nat /\ seen[o] \in Int
  BY Here
<1>6. ASSUME NEW p \in todo, Is(p, {"Amalgamate", "Balance"}), pc'[p] = 1
      PROVE  seen'[p] = 0
  <2>1. CASE p # o
    BY <1>4, <1>6, <2>1 DEF SeenInv
  <2>2. CASE p = o
    <3>0. Request[o].op = "Amalgamate" \/ Request[o].op = "Balance"
      BY <1>6, <2>2 DEF Is
    <3>1. Len(Statements(o)) # 1
      <4>1. Request[o].op = "Amalgamate" => Len(Statements(o)) = 3
        BY <1>5 DEF Position
      <4>2. Request[o].op = "Balance" => Len(Statements(o)) = 2
        BY <1>5 DEF Position
      <4> QED BY <3>0, <4>1, <4>2
    <3>2. pc[o] = 1 /\ ~ Advances(o)
      <4>1. pc'[o] = 1
        BY <1>6, <2>2
      <4>2. ~ Advances(o)
        <5> SUFFICES ASSUME Advances(o) PROVE FALSE
          OBVIOUS
        <5>1. pc[o] \in Nat /\ pc[o] # 0 /\ Len(Statements(o)) \in Nat
          BY <1>5
        <5>2. CASE Returns(o) /\ Stays(o, "done")
          BY <3>1, <4>1, <5>1, <5>2 DEF Returns, Stays
        <5>3. CASE pc'[o] = pc[o] + 1
          BY <4>1, <5>1, <5>3
        <5> QED BY <5>2, <5>3 DEF Advances
      <4>3. pc'[o] = pc[o]
        BY <4>2 DEF Moves, Reads, Misses, Inserts, Writes, Breaks, Stays
      <4> QED BY <4>1, <4>2, <4>3
    <3>3. seen'[o] = seen[o]
      BY <3>2 DEF Moves, Reads, Misses, Inserts, Writes, Breaks
    <3> QED BY <1>6, <2>2, <3>2, <3>3 DEF SeenInv
  <2> QED BY <2>1, <2>2
<1>7. ASSUME NEW p \in todo, AllSafe, Is(p, {"Amalgamate"}), pc'[p] = 2
      PROVE  /\ Request[p].from \in DOMAIN bal'["savings"]
             /\ bal'["savings"][Request[p].from] = seen'[p]
  <2> DEFINE u == Request[p].from
  <2>1. CASE p # o
    <3>1. u \in DOMAIN bal["savings"] /\ bal["savings"][u] = seen[p]
      BY <1>4, <1>7, <2>1 DEF SeenInv
    <3>2. u \in DOMAIN bal'["savings"]
      BY <1>3, <3>1, TablesStep
    <3>3. ~ SavingsWriter(o, u)
      BY <1>7, <2>1, SafeAmalgamate
    <3>4. In(bal', "savings", u) = In(bal, "savings", u)
      BY <1>4, <3>3, OtherSavings
    <3> QED BY <1>4, <2>1, <3>1, <3>2, <3>4 DEF In
  <2>2. CASE p = o
    <3>1. Request[o].op = "Amalgamate" /\ Len(Statements(o)) = 3
      BY <1>5, <1>7, <2>2 DEF Is, Position
    <3>2. CASE pc[o] = 2
      <4>1. ~ Advances(o)
        BY <1>7, <2>2, <3>1, <3>2 DEF Advances, Returns
      <4>2. At(o).kind = "clear"
        BY <1>5, <3>1, <3>2 DEF Position, At
      <4>3. bal' = bal /\ seen'[o] = seen[o]
        BY <4>1, <4>2 DEF Moves, Reads, Misses, Inserts, Writes, Breaks
      <4> QED BY <1>7, <2>2, <3>2, <4>3 DEF SeenInv
    <3>3. CASE pc[o] # 2
      <4>1. pc[o] = 1 /\ Advances(o)
        BY <1>5, <1>7, <2>2, <3>1, <3>3
           DEF Moves, Reads, Misses, Inserts, Writes, Breaks, Advances, Stays, Returns
      <4>2. At(o).kind = "select" /\ At(o).table = "savings" /\ At(o).uid = u
        BY <1>5, <2>2, <3>1, <4>1 DEF Position, At
      <4>3. seen[o] = 0
        BY <1>7, <2>2, <4>1 DEF SeenInv, Is
      <4>4. CASE Reads(o)
        <5>1. bal' = bal /\ u \in DOMAIN bal["savings"] /\ seen'[o] = seen[o] + bal["savings"][u]
          BY <4>2, <4>4 DEF Reads, HasRow
        <5>2. bal["savings"][u] \in Int
          BY <1>3, <5>1 DEF TypeOK
        <5> QED BY <2>2, <4>3, <5>1, <5>2
      <4>5. CASE ~ Reads(o)
        <5>1. Inserted("savings", u) /\ seen'[o] = seen[o]
          BY <4>1, <4>2, <4>5, <3>1, <1>7, <2>2
             DEF Moves, Misses, Inserts, Writes, Breaks, Advances, Stays
        <5> QED BY <1>3, <2>2, <4>3, <5>1 DEF Inserted
      <4> QED BY <4>4, <4>5
    <3> QED BY <3>2, <3>3
  <2> QED BY <2>1, <2>2
<1> QED BY <1>1, <1>6, <1>7 DEF SeenInv

-----------------------------------------------------------------------------
(* The ledger.                                                             *)

LEMMA SumOfAll ==
    ASSUME NEW f
    PROVE  SumFunction(f) = SumFunctionOnSet(f, DOMAIN f)
BY DEF SumFunction

\* What a table holds after a step.
LEMMA TableAfter ==
    ASSUME BaseInv, NEW o \in todo, Moves(o), NEW t \in Table
    PROVE  /\ SumFunction(bal[t]) \in Int /\ SumFunction(bal'[t]) \in Int
           /\ (Writes(o) /\ HasRow(At(o)) /\ t = At(o).table) =>
                 SumFunction(bal'[t]) = SumFunction(bal[t]) + Result(o)
                                            - bal[At(o).table][At(o).uid]
           /\ ~ (Writes(o) /\ HasRow(At(o)) /\ t = At(o).table) =>
                 SumFunction(bal'[t]) = SumFunction(bal[t])
<1> DEFINE f == bal[t]
           g == bal'[t]
           D == DOMAIN bal[t]
           u == At(o).uid
<1>1. TypeOK /\ RowsInv /\ TypeOK' /\ RowsInv'
  BY TypeStep, RowsStep DEF BaseInv
<1>2. /\ IsFiniteSet(D) /\ IsFiniteSet(DOMAIN g)
      /\ (\A y \in D : f[y] \in Int) /\ (\A y \in DOMAIN g : g[y] \in Int)
  BY <1>1 DEF TypeOK, RowsInv
<1>3. SumFunction(f) = SumFunctionOnSet(f, D) /\ SumFunction(g) = SumFunctionOnSet(g, DOMAIN g)
  BY SumOfAll
<1>4. SumFunction(f) \in Int /\ SumFunction(g) \in Int
  <2> HIDE DEF f, g, D
  <2>1. SumFunctionOnSet(f, D) \in Int
    BY <1>2, SumType
  <2>2. SumFunctionOnSet(g, DOMAIN g) \in Int
    BY <1>2, SumType
  <2> QED BY <1>3, <2>1, <2>2
<1>5. ASSUME DOMAIN g = D, \A y \in D : g[y] = f[y]
      PROVE  SumFunction(g) = SumFunction(f)
  <2> HIDE DEF f, g, D
  <2>1. SumFunctionOnSet(g, D) = SumFunctionOnSet(f, D)
    BY <1>2, <1>5, SumAgrees
  <2> QED BY <1>3, <1>4, <1>5, <2>1 DEF f, g
<1>6. ASSUME Inserted(t, u)
      PROVE  SumFunction(g) = SumFunction(f)
  <2>1. u \notin D /\ DOMAIN g = D \cup {u} /\ (\A y \in D : g[y] = f[y]) /\ g[u] = 0
    BY <1>6 DEF Inserted
  <2> HIDE DEF f, g, D, u
  <2>2. SumFunctionOnSet(g, D) = SumFunctionOnSet(f, D)
    BY <1>2, <2>1, SumAgrees
  <2>3. \A y \in D : g[y] \in Int
    BY <1>2, <2>1
  <2>4. SumFunctionOnSet(g, D \cup {u}) = SumFunctionOnSet(g, D) + g[u]
    BY <1>2, <2>1, <2>3, SumWith
  <2> QED BY <1>3, <1>4, <2>1, <2>2, <2>4
<1>7. ASSUME NEW n \in Int, Written(t, u, n)
      PROVE  SumFunction(g) = SumFunction(f) + n - f[u]
  <2>1. u \in D /\ DOMAIN g = D /\ (\A y \in D : g[y] = IF y = u THEN n ELSE f[y])
    BY <1>7 DEF Written
  <2> HIDE DEF f, g, D, u
  <2>2. IsFiniteSet(D) /\ u \in D
    BY <1>2, <2>1
  <2>3. \A y \in D : f[y] \in Int /\ g[y] \in Int
    BY <1>2, <2>1
  <2>4. \A y \in D \ {u} : g[y] = f[y]
    BY <2>1
  <2>5. SumFunctionOnSet(g, D) = SumFunctionOnSet(f, D) + g[u] - f[u]
    BY ONLY <2>2, <2>3, <2>4, SumChanges
  <2> QED BY <1>3, <2>1, <2>5
<1>8. bal' = bal => SumFunction(g) = SumFunction(f)
  OBVIOUS
<1>9. ASSUME Writes(o), HasRow(At(o)), t = At(o).table
      PROVE  SumFunction(g) = SumFunction(f) + Result(o) - bal[At(o).table][At(o).uid]
  <2>1. Written(t, u, Result(o)) /\ Result(o) \in Int
    BY <1>9 DEF Writes
  <2>2. SumFunction(g) = SumFunction(f) + Result(o) - f[u]
    BY <2>1, <1>7
  <2> QED BY <1>9, <2>2
<1>10. ASSUME ~ (Writes(o) /\ HasRow(At(o)) /\ t = At(o).table)
       PROVE  SumFunction(g) = SumFunction(f)
  <2>1. CASE Writes(o) /\ HasRow(At(o))
    <3>1. t # At(o).table /\ Written(At(o).table, u, Result(o))
      BY <1>10, <2>1 DEF Writes
    <3> QED BY <1>5, <3>1 DEF Written
  <2>2. CASE Inserted(At(o).table, u)
    <3>1. CASE t = At(o).table
      BY <1>6, <2>2, <3>1
    <3>2. CASE t # At(o).table
      BY <1>5, <2>2, <3>2 DEF Inserted
    <3> QED BY <3>1, <3>2
  <2> QED BY <1>8, <2>1, <2>2 DEF Moves, Reads, Misses, Inserts, Writes, Breaks
<1> HIDE DEF f, g, u
<1>11. (Writes(o) /\ HasRow(At(o)) /\ t = At(o).table) =>
          SumFunction(g) = SumFunction(f) + Result(o) - bal[At(o).table][At(o).uid]
  BY <1>9, Zenon
<1>12. ~ (Writes(o) /\ HasRow(At(o)) /\ t = At(o).table) => SumFunction(g) = SumFunction(f)
  BY <1>10, Zenon
<1> QED BY <1>4, <1>11, <1>12, Zenon DEF f, g

\* Among safe calls every update meets its row: it was selected or inserted before, or it
\* was there from the start.
LEMMA SafeRow ==
    ASSUME BaseInv, SeenInv, AllSafe, NEW o \in todo, At(o).kind # "select"
    PROVE  HasRow(At(o))
<1> DEFINE i == pc[o]
           r == Request[o]
           s == At(o)
<1>1. /\ o \in Op /\ i \in Nat /\ i \in 1..Len(Statements(o)) /\ Len(Statements(o)) \in Nat \ {0}
      /\ Position(o, i) /\ s.kind \in {"select", "clear", "add", "addSeen"}
  BY Here DEF BaseInv
<1>2. r.op \in Operations /\ r.inserts \in BOOLEAN /\ r.from \in Uid
  BY <1>1, RequestType
<1>3. /\ \A t \in Table : DOMAIN Initial[t] \subseteq DOMAIN bal[t]
      /\ \A j \in 1..(i - 1) : (r.inserts /\ Statements(o)[j].kind = "select")
                                  => HasRow(Statements(o)[j])
  BY DEF BaseInv, RowsInv
<1>4. "checking" \in Table /\ "savings" \in Table
  BY DEF Table
<1>5. ~ Risky(o)
  BY DEF AllSafe
<1>6. CASE s.kind = "clear"
  BY <1>6, WhoWrites DEF SeenInv, Is, HasRow, BaseInv
<1>7. CASE s.kind = "addSeen"
  <2>1. r.op = "Amalgamate" /\ s.table = "checking" /\ s.uid = r.to
    BY <1>7, WhoWrites DEF BaseInv
  <2> QED BY <1>3, <1>4, <1>5, <2>1 DEF Risky, Is, HasRow
<1>8. CASE s.kind = "add" /\ r.op = "SendPayment"
  <2>1. s.table = "checking" /\ s.uid \in {r.from, r.to}
    BY <1>1, <1>8 DEF Position, At
  <2>2. CASE r.inserts
    <3>1. /\ Len(Statements(o)) = 4 /\ i > 2
          /\ Statements(o)[1].table = "checking" /\ Statements(o)[1].uid = r.from
          /\ Statements(o)[2].table = "checking" /\ Statements(o)[2].uid = r.to
          /\ Statements(o)[1].kind = "select" /\ Statements(o)[2].kind = "select"
      BY <1>1, <1>8, <2>2 DEF Position, At
    <3>2. 1 \in 1..(i - 1) /\ 2 \in 1..(i - 1)
      BY <1>1, <3>1
    <3>3. HasRow(Statements(o)[1]) /\ HasRow(Statements(o)[2])
      BY <1>3, <2>2, <3>1, <3>2
    <3> QED BY <2>1, <3>1, <3>3 DEF HasRow
  <2>3. CASE ~ r.inserts
    BY <1>3, <1>4, <1>5, <1>8, <2>1, <2>3 DEF Risky, Is, HasRow
  <2> QED BY <2>2, <2>3
<1>9. CASE s.kind = "add" /\ r.op \in {"DepositChecking", "TransactSavings", "WriteCheck"}
  <2>1. /\ s.table = IF r.op = "TransactSavings" THEN "savings" ELSE "checking"
        /\ s.uid = r.from
    BY <1>1, <1>9 DEF Position, At
  <2>2. CASE r.inserts
    <3>1. Len(Statements(o)) = 2 /\ i # 1
      BY <1>1, <1>9, <2>2 DEF Position, At
    <3>2. i = 2 /\ 1 \in 1..(i - 1) /\ 1 \in 1..Len(Statements(o))
      BY <1>1, <3>1
    <3>3. Position(o, 1)
      BY <1>1, <3>2, PositionHolds
    <3>4. /\ Statements(o)[1].kind = "select" /\ Statements(o)[1].table = s.table
          /\ Statements(o)[1].uid = s.uid
      BY <1>9, <2>1, <3>1, <3>3 DEF Position
    <3>5. HasRow(Statements(o)[1])
      BY <1>3, <2>2, <3>2, <3>4
    <3> QED BY <3>4, <3>5 DEF HasRow
  <2>3. CASE ~ r.inserts
    BY <1>3, <1>4, <1>5, <1>9, <2>1, <2>3 DEF Risky, Is, HasRow
  <2> QED BY <2>2, <2>3
<1>10. s.kind # "add" \/ r.op \notin {"Amalgamate", "Balance"}
  BY <1>1 DEF Position, At
<1> QED BY <1>1, <1>2, <1>6, <1>7, <1>8, <1>9, <1>10 DEF Operations

\* What the statement that o is at brings into the bank.
Worth(o) ==
    IF At(o).kind = "clear" THEN -seen[o]
    ELSE IF At(o).kind = "add" THEN At(o).amount
    ELSE IF At(o).kind = "addSeen" THEN seen[o] ELSE 0

Change(o) == IF Writes(o) THEN Worth(o) ELSE 0

LEMMA ChangeType ==
    ASSUME TypeOK, NEW o \in todo
    PROVE  Change(o) \in Int /\ Worth(o) \in Int
<1>1. seen[o] \in Int /\ At(o).amount \in Int
  BY Here
<1> QED BY <1>1 DEF Change, Worth

LEMMA TotalAfter ==
    ASSUME BaseInv, SeenInv, AllSafe, NEW o \in todo, Moves(o)
    PROVE  Total(bal) \in Int /\ Total(bal') = Total(bal) + Change(o)
<1> DEFINE c == SumFunction(bal["checking"])
           s == SumFunction(bal["savings"])
           cc == SumFunction(bal'["checking"])
           ss == SumFunction(bal'["savings"])
           n == Result(o)
           old == bal[At(o).table][At(o).uid]
           w == Worth(o)
<1>1. "checking" \in Table /\ "savings" \in Table /\ Table = {"checking", "savings"}
  BY DEF Table
<1>2. c \in Int /\ s \in Int /\ cc \in Int /\ ss \in Int
  BY <1>1, TableAfter
<1>3. CASE ~ Writes(o)
  <2>1. cc = c /\ ss = s
    BY <1>1, <1>3, TableAfter
  <2> QED BY <1>2, <1>3, <2>1 DEF Total, Change
<1>4. CASE Writes(o)
  <2>1. At(o).kind # "select" /\ HasRow(At(o)) /\ n \in Int
    BY <1>4, SafeRow DEF Writes
  <2>2. old \in Int /\ seen[o] \in Int /\ At(o).amount \in Int /\ At(o).table \in Table
        /\ At(o).kind \in {"clear", "add", "addSeen"}
    BY <2>1, Here DEF BaseInv, TypeOK, HasRow
  <2>3. n = old + w
    <3>1. CASE At(o).kind = "clear"
      <4>1. old = seen[o]
        BY <3>1, WhoWrites DEF SeenInv, Is, BaseInv
      <4> QED BY <2>2, <3>1, <4>1 DEF Result, Worth
    <3>2. CASE At(o).kind = "add"
      BY <3>2 DEF Result, Worth
    <3>3. CASE At(o).kind = "addSeen"
      BY <3>3 DEF Result, Worth
    <3> QED BY <2>2, <3>1, <3>2, <3>3
  <2>4. w \in Int
    BY ChangeType DEF BaseInv
  <2>5. CASE At(o).table = "checking"
    <3>1. cc = c + n - old /\ ss = s
      BY <1>1, <1>4, <2>1, <2>5, TableAfter
    <3> HIDE DEF c, s, cc, ss, n, old, w
    <3>2. cc + ss = c + s + w
      BY <1>2, <2>1, <2>2, <2>3, <2>4, <3>1
    <3> QED BY <1>2, <1>4, <3>2 DEF Total, Change, c, s, cc, ss, w
  <2>6. CASE At(o).table = "savings"
    <3>1. ss = s + n - old /\ cc = c
      BY <1>1, <1>4, <2>1, <2>6, TableAfter
    <3> HIDE DEF c, s, cc, ss, n, old, w
    <3>2. cc + ss = c + s + w
      BY <1>2, <2>1, <2>2, <2>3, <2>4, <3>1
    <3> QED BY <1>2, <1>4, <3>2 DEF Total, Change, c, s, cc, ss, w
  <2> QED BY <1>1, <2>2, <2>5, <2>6
<1> QED BY <1>3, <1>4

\* The cases of Brings.
LEMMA BringsCases ==
    ASSUME NEW o \in Op, NEW state \in {"running", "inserting", "done", "failed"}, NEW i, NEW n \in Int
    PROVE  LET r == Request[o] IN
           /\ Brings(o, state, i, n) \in Int
           /\ state = "done" =>
                 /\ r.op \in {"DepositChecking", "TransactSavings"} => Brings(o, state, i, n) = r.amount
                 /\ r.op = "WriteCheck" => Brings(o, state, i, n) = -r.amount
                 /\ r.op \in {"Amalgamate", "Balance", "SendPayment"} => Brings(o, state, i, n) = 0
           /\ state # "done" =>
                 /\ i # Len(Statements(o)) => Brings(o, state, i, n) = 0
                 /\ i = Len(Statements(o)) =>
                       /\ r.op = "SendPayment" => Brings(o, state, i, n) = -r.amount
                       /\ r.op = "Amalgamate" => Brings(o, state, i, n) = -n
                       /\ r.op \notin {"SendPayment", "Amalgamate"} => Brings(o, state, i, n) = 0
<1> DEFINE r == Request[o]
<1>1. r.op \in Operations /\ r.amount \in Int
  BY RequestType
<1>2. CASE state = "done"
  <2>1. Brings(o, state, i, n) = Net(o)
    BY <1>2 DEF Brings
  <2>2. r.op \in {"DepositChecking", "TransactSavings"} => Net(o) = r.amount
    BY DEF Net
  <2>3. r.op = "WriteCheck" => Net(o) = -r.amount
    BY DEF Net
  <2>4. r.op \in {"Amalgamate", "Balance", "SendPayment"} => Net(o) = 0
    BY DEF Net
  <2> QED BY <1>1, <1>2, <2>1, <2>2, <2>3, <2>4 DEF Operations
<1>3. CASE state # "done"
  <2>1. i # Len(Statements(o)) => Brings(o, state, i, n) = 0
    BY <1>3 DEF Brings
  <2>2. i = Len(Statements(o)) /\ r.op = "SendPayment" => Brings(o, state, i, n) = -r.amount
    BY <1>3 DEF Brings, Is
  <2>3. i = Len(Statements(o)) /\ r.op = "Amalgamate" => Brings(o, state, i, n) = -n
    BY <1>3 DEF Brings, Is
  <2>4. r.op \notin {"SendPayment", "Amalgamate"} => Brings(o, state, i, n) = 0
    BY <1>3 DEF Brings, Is
  <2> QED BY <1>1, <1>3, <2>1, <2>2, <2>3, <2>4
<1> QED BY <1>2, <1>3

\* Every step changes what its call has brought by what its statement is worth.
LEMMA BroughtAfter ==
    ASSUME BaseInv, NEW o \in todo, Moves(o)
    PROVE  /\ Brought(o) \in Int /\ Brought(o)' = Brought(o) + Change(o)
           /\ \A p \in todo \ {o} : Brought(p) \in Int /\ Brought(p)' = Brought(p)
<1> DEFINE i == pc[o]
           n == Len(Statements(o))
           r == Request[o]
           s == At(o)
           old == Brings(o, status[o], pc[o], seen[o])
           new == Brings(o, status'[o], pc'[o], seen'[o])
<1> USE DEF BaseInv
<1>1. /\ o \in Op /\ i \in Nat /\ i \in 1..n /\ n \in Nat \ {0} /\ Position(o, i)
      /\ seen[o] \in Int
  BY Here
<1>2. r.op \in Operations /\ r.amount \in Int
  BY <1>1, RequestType
<1>3. Alone(o) /\ status[o] \in {"running", "inserting"}
  BY DEF Moves
<1>4. /\ status'[o] \in {"running", "inserting", "done", "failed"} /\ seen'[o] \in Int
      /\ \A p \in todo : status[p] \in {"running", "inserting", "done", "failed"}
  BY <1>3 DEF Alone, TypeOK
<1>5. /\ old \in Int /\ new \in Int
      /\ i # n => old = 0
      /\ r.op \notin {"SendPayment", "Amalgamate"} => old = 0
      /\ (i = n /\ r.op = "SendPayment") => old = -r.amount
      /\ (i = n /\ r.op = "Amalgamate") => old = -seen[o]
  BY <1>1, <1>3, <1>4, BringsCases
<1>6. status'[o] # "done" =>
          /\ pc'[o] # n => new = 0
          /\ r.op \notin {"SendPayment", "Amalgamate"} => new = 0
          /\ (pc'[o] = n /\ r.op = "SendPayment") => new = -r.amount
          /\ (pc'[o] = n /\ r.op = "Amalgamate") => new = -seen'[o]
  BY <1>1, <1>4, BringsCases
<1>7. status'[o] = "done" =>
          /\ r.op \in {"DepositChecking", "TransactSavings"} => new = r.amount
          /\ r.op = "WriteCheck" => new = -r.amount
          /\ r.op \in {"Amalgamate", "Balance", "SendPayment"} => new = 0
  BY <1>1, <1>4, BringsCases
<1>8. new = old + Change(o)
  <2>1. ASSUME ~ Advances(o)
        PROVE  new = old + Change(o)
    <3>1. ~ Writes(o) /\ seen'[o] = seen[o] /\ pc'[o] = i /\ status'[o] # "done"
      BY <2>1 DEF Moves, Reads, Misses, Inserts, Writes, Breaks, Stays
    <3>2. Change(o) = 0
      BY <3>1 DEF Change
    <3>3. new = old
      <4> HIDE DEF old, new, r, i, n
      <4>1. CASE i # n
        BY <1>5, <1>6, <3>1, <4>1
      <4>2. CASE r.op \notin {"SendPayment", "Amalgamate"}
        BY <1>5, <1>6, <3>1, <4>2
      <4>3. CASE i = n /\ r.op = "SendPayment"
        BY <1>5, <1>6, <3>1, <4>3
      <4>4. CASE i = n /\ r.op = "Amalgamate"
        BY <1>5, <1>6, <3>1, <4>4
      <4> QED BY <4>1, <4>2, <4>3, <4>4
    <3> HIDE DEF old, new
    <3> QED BY <1>5, <3>2, <3>3
  <2>2. ASSUME Advances(o)
        PROVE  \/ i = n /\ status'[o] = "done"
               \/ i # n /\ pc'[o] = i + 1 /\ status'[o] # "done"
    BY <2>2 DEF Advances, Stays, Returns
  <2>3. ASSUME Advances(o), s.kind = "select"
        PROVE  new = old + Change(o)
    <3>1. Change(o) = 0
      BY <2>3 DEF Change, Writes
    <3>2. /\ r.op = "SendPayment" => i # n /\ i + 1 # n
          /\ r.op = "Amalgamate" => i = 1 /\ n = 3
          /\ r.op \in {"DepositChecking", "TransactSavings", "WriteCheck"} => i # n
      BY <1>1, <2>3 DEF Position, At
    <3> HIDE DEF old, new, r, i, n
    <3>3. new = 0 /\ old = 0
      BY <1>1, <1>2, <1>5, <1>6, <1>7, <2>2, <2>3, <3>2 DEF Operations
    <3> QED BY <3>1, <3>3
  <2>4. ASSUME Advances(o), s.kind # "select"
        PROVE  new = old + Change(o)
    <3>1. Change(o) = Worth(o) /\ seen'[o] = seen[o]
      BY <2>4 DEF Change, Moves, Reads, Misses, Inserts, Writes, Breaks, Advances, Stays
    <3>2. CASE r.op = "SendPayment"
      <4>1. \/ i = n - 1 /\ Worth(o) = -r.amount
            \/ i = n /\ Worth(o) = r.amount
        BY <1>1, <2>4, <3>2 DEF Position, At, Worth
      <4> HIDE DEF old, new, r, i, n
      <4> QED BY <1>1, <1>2, <1>5, <1>6, <1>7, <2>2, <2>4, <3>1, <3>2, <4>1
    <3>3. CASE r.op = "Amalgamate"
      <4>1. /\ n = 3
            /\ \/ i = 2 /\ Worth(o) = -seen[o]
               \/ i = 3 /\ Worth(o) = seen[o]
        <5>1. n = 3
          BY <1>1, <3>3 DEF Position
        <5>2. /\ i = 1 => s.kind = "select"
              /\ i = 2 => s.kind = "clear"
              /\ i = 3 => s.kind = "addSeen"
          BY <1>1, <3>3 DEF Position, At
        <5>3. i \in {1, 2, 3}
          BY <1>1, <5>1
        <5> QED BY <2>4, <5>1, <5>2, <5>3 DEF Worth
      <4> HIDE DEF old, new, r, i, n
      <4> QED BY <1>1, <1>2, <1>5, <1>6, <1>7, <2>2, <2>4, <3>1, <3>3, <4>1
    <3>4. CASE r.op \in {"DepositChecking", "TransactSavings", "WriteCheck"}
      <4>1. i = n /\ Worth(o) = IF r.op = "WriteCheck" THEN -r.amount ELSE r.amount
        BY <1>1, <2>4, <3>4 DEF Position, At, Worth
      <4> HIDE DEF old, new, r, i, n
      <4> QED BY <1>1, <1>2, <1>5, <1>6, <1>7, <2>2, <2>4, <3>1, <3>4, <4>1
    <3>5. r.op # "Balance"
      BY <1>1, <2>4 DEF Position, At
    <3> QED BY <1>2, <3>2, <3>3, <3>4, <3>5 DEF Operations
  <2> QED BY <2>1, <2>3, <2>4
<1>9. ASSUME NEW p \in todo \ {o}
      PROVE  Brought(p) \in Int /\ Brought(p)' = Brought(p)
  <2>1. p \in Op /\ seen[p] \in Int
    BY Here
  <2>2. pc'[p] = pc[p] /\ status'[p] = status[p] /\ seen'[p] = seen[p]
    BY <1>3 DEF Alone
  <2> QED BY <1>4, <2>1, <2>2, BringsCases DEF Brought
<1> QED BY <1>5, <1>8, <1>9 DEF Brought

LEMMA InitialTotal == Total(Initial) \in Int
<1>1. "checking" \in Table /\ "savings" \in Table
  BY DEF Table
<1>2. ASSUME NEW t \in Table PROVE SumFunction(Initial[t]) \in Int
  <2> DEFINE e == Initial[t]
  <2>1. IsFiniteSet(DOMAIN e) /\ \A u \in DOMAIN e : e[u] \in Int
    BY SmallBankAssumption
  <2> HIDE DEF e
  <2>2. SumFunction(e) \in Int
    BY <2>1, SumType, SumOfAll
  <2> QED BY <2>2 DEF e
<1> QED BY <1>1, <1>2 DEF Total

LEMMA LedgerStep ==
    ASSUME BaseInv, SeenInv, LedgerInv, NEW o \in todo, Moves(o)
    PROVE  LedgerInv'
<1> DEFINE f == [p \in todo |-> Brought(p)]
           g == [p \in todo |-> Brought(p)']
<1>1. todo' = todo /\ (AllSafe' <=> AllSafe)
  BY SafeStays DEF Moves, Alone
<1> SUFFICES ASSUME AllSafe
             PROVE  Total(bal') = Total(Initial) + SumFunction(g)
  BY <1>1 DEF LedgerInv
<1>2. IsFiniteSet(todo)
  BY SmallBankAssumption DEF BaseInv, TypeOK
<1>3. /\ \A p \in todo : f[p] \in Int /\ g[p] \in Int
      /\ \A p \in todo \ {o} : g[p] = f[p]
      /\ g[o] = f[o] + Change(o) /\ f[o] \in Int /\ g[o] \in Int /\ Change(o) \in Int
  BY BroughtAfter, ChangeType DEF BaseInv
<1>4. /\ SumFunction(f) = SumFunctionOnSet(f, todo)
      /\ SumFunction(g) = SumFunctionOnSet(g, todo)
  <2>1. DOMAIN f = todo /\ DOMAIN g = todo
    OBVIOUS
  <2> HIDE DEF f, g
  <2> QED BY <2>1, SumOfAll
<1>5. Total(bal) = Total(Initial) + SumFunction(f)
  BY DEF LedgerInv
<1>6. Total(bal) \in Int /\ Total(bal') = Total(bal) + Change(o)
  BY TotalAfter
<1>7. Total(Initial) \in Int
  BY InitialTotal
<1> HIDE DEF f, g
<1>8. SumFunctionOnSet(f, todo) \in Int
  BY <1>2, <1>3, SumType
<1>9. SumFunctionOnSet(g, todo) = SumFunctionOnSet(f, todo) + g[o] - f[o]
  <2>1. \A p \in todo : f[p] \in Int /\ g[p] \in Int
    BY <1>3
  <2>2. \A p \in todo \ {o} : g[p] = f[p]
    BY <1>3
  <2> QED BY ONLY <1>2, <2>1, <2>2, o \in todo, SumChanges
<1> QED BY <1>3, <1>4, <1>5, <1>6, <1>7, <1>8, <1>9

LEMMA FailedStep ==
    ASSUME BaseInv, FailedInv, NEW o \in todo, Moves(o)
    PROVE  FailedInv'
<1>1. Alone(o) /\ todo' = todo
  BY DEF Moves, Alone
<1>2. ASSUME errors' = 0, NEW p \in todo, status'[p] = "failed"
      PROVE  Statements(p)[pc'[p]].kind = "select"
  <2>1. errors \in Nat
    BY SmallBankAssumption DEF BaseInv, TypeOK
  <2>2. errors = 0 /\ ~ Breaks(o)
    BY <1>2, <2>1 DEF Moves, Reads, Misses, Inserts, Writes, Breaks
  <2>3. CASE p # o
    BY <1>1, <1>2, <2>2, <2>3 DEF FailedInv, Alone, At
  <2>4. CASE p = o
    BY <1>2, <2>2, <2>4 DEF Moves, Reads, Misses, Inserts, Writes, Advances, Stays, At
  <2> QED BY <2>3, <2>4
<1> QED BY <1>1, <1>2 DEF FailedInv, At

MoneyInv == BaseInv /\ SeenInv /\ LedgerInv /\ FailedInv

LEMMA MoneyInit ==
    ASSUME Init
    PROVE  MoneyInv
<1>1. BaseInv
  BY BaseInit
<1>2. SeenInv /\ FailedInv
  BY DEF Init, SeenInv, FailedInv
<1>3. LedgerInv
  <2> DEFINE f == [p \in todo |-> Brought(p)]
  <2>1. ASSUME NEW p \in todo PROVE Brought(p) = 0
    <3>1. pc[p] = 1 /\ status[p] = "running" /\ seen[p] = 0
      BY DEF Init
    <3>2. p \in Op /\ Len(Statements(p)) \in Nat \ {0} /\ Position(p, 1)
      BY <1>1, <3>1, Here DEF BaseInv
    <3>3. Request[p].op \in {"SendPayment", "Amalgamate"} => Len(Statements(p)) # 1
      <4>1. Request[p].op = "SendPayment" => Len(Statements(p)) >= 2
        BY <3>2 DEF Position
      <4>2. Request[p].op = "Amalgamate" => Len(Statements(p)) = 3
        BY <3>2 DEF Position
      <4>3. CASE Request[p].op = "SendPayment"
        BY <3>2, <4>1, <4>3
      <4>4. CASE Request[p].op = "Amalgamate"
        BY <4>2, <4>4
      <4> QED BY <4>3, <4>4
    <3>4. Brings(p, "running", 1, 0) = 0
      <4> DEFINE i == 1
      <4>1. /\ i # Len(Statements(p)) => Brings(p, "running", i, 0) = 0
            /\ i = Len(Statements(p)) /\ Request[p].op \notin {"SendPayment", "Amalgamate"}
                  => Brings(p, "running", i, 0) = 0
        <5> HIDE DEF i
        <5> QED BY <3>2, BringsCases
      <4> QED BY <3>3, <4>1
    <3> QED BY <3>1, <3>4 DEF Brought
  <2>2. IsFiniteSet(todo)
    BY SmallBankAssumption DEF Init
  <2>3. DOMAIN f = todo /\ \A p \in todo : f[p] = 0
    BY <2>1
  <2>4. SumFunction(f) = 0
    <3> HIDE DEF f
    <3> QED BY <2>2, <2>3, SumOfZeros, SumOfAll
  <2>5. Total(bal) = Total(Initial) /\ Total(Initial) \in Int
    BY InitialTotal DEF Init
  <2> HIDE DEF f
  <2>6. Total(bal) = Total(Initial) + SumFunction(f)
    BY <2>4, <2>5
  <2> QED BY <2>6 DEF LedgerInv, f
<1> QED BY <1>1, <1>2, <1>3 DEF MoneyInv

LEMMA MoneyInvariant == Spec => []MoneyInv
<1>1. Init => MoneyInv
  BY MoneyInit
<1>2. MoneyInv /\ [Next]_vars => MoneyInv'
  <2> SUFFICES ASSUME MoneyInv, [Next]_vars PROVE MoneyInv'
    OBVIOUS
  <2>1. BaseInv /\ SeenInv /\ LedgerInv /\ FailedInv /\ BaseInv'
    BY BaseStep DEF MoneyInv
  <2>2. CASE UNCHANGED vars
    <3>1. /\ todo' = todo /\ pc' = pc /\ status' = status /\ seen' = seen /\ bal' = bal
          /\ errors' = errors
      BY <2>2 DEF vars
    <3>2. SeenInv' /\ FailedInv'
      BY <2>1, <3>1, SafeStays DEF SeenInv, FailedInv, At
    <3>3. LedgerInv'
      BY <2>1, <3>1, SafeStays DEF LedgerInv, Brought
    <3> QED BY <2>1, <3>2, <3>3 DEF MoneyInv
  <2>3. ASSUME NEW o \in todo, Moves(o) PROVE MoneyInv'
    BY <2>1, <2>3, SeenStep, LedgerStep, FailedStep DEF MoneyInv
  <2> QED BY <2>1, <2>2, <2>3, Steps
<1> QED BY <1>1, <1>2, PTL DEF Spec

\* What a successful call has brought, and what the others have.
Earned(o) == IF status[o] = "done" THEN Net(o) ELSE 0

LEMMA EarnedType ==
    ASSUME TypeOK
    PROVE  /\ IsFiniteSet(todo)
           /\ \A o \in todo : /\ Earned(o) \in Int /\ Brought(o) \in Int
                              /\ status[o] = "done" => Brought(o) = Earned(o)
           /\ Expected = Total(Initial) + SumFunction([o \in todo |-> Earned(o)])
<1>1. IsFiniteSet(todo)
  BY SmallBankAssumption DEF TypeOK
<1>2. ASSUME NEW o \in todo
      PROVE  /\ Earned(o) \in Int /\ Brought(o) \in Int
             /\ status[o] = "done" => Brought(o) = Earned(o)
  <2>1. o \in Op /\ seen[o] \in Int /\ status[o] \in {"running", "inserting", "done", "failed"}
    BY Here DEF TypeOK
  <2>2. Brought(o) \in Int
    BY <2>1, BringsCases DEF Brought
  <2>3. status[o] = "done" => Brought(o) = Net(o)
    BY DEF Brought, Brings
  <2> QED BY <2>2, <2>3 DEF Earned
<1>3. Expected = Total(Initial) + SumFunction([o \in todo |-> Earned(o)])
  BY DEF Expected, Earned
<1> QED BY <1>1, <1>2, <1>3

\* For all sets of calls that are not risky, all tables and every interleaving of the
\* statements: when all calls have returned and no statement has failed, the bank holds
\* what the successful calls brought in.
THEOREM TotalsAddHolds == Spec => []TotalsAdd
<1>1. MoneyInv => TotalsAdd
  <2> SUFFICES ASSUME MoneyInv, errors = 0, AllSafe, \A o \in todo : status[o] \in {"done", "failed"}
               PROVE  Total(bal) = Expected
    BY DEF TotalsAdd
  <2> DEFINE f == [o \in todo |-> Brought(o)]
             e == [o \in todo |-> Earned(o)]
  <2>1. TypeOK /\ LedgerInv /\ FailedInv
    BY DEF MoneyInv, BaseInv
  <2>2. ASSUME NEW o \in todo PROVE Brought(o) = Earned(o)
    <3>1. CASE status[o] = "done"
      BY <2>1, <3>1, EarnedType
    <3>2. CASE status[o] = "failed"
      <4>1. /\ o \in Op /\ seen[o] \in Int /\ pc[o] \in 1..Len(Statements(o))
            /\ Len(Statements(o)) \in Nat /\ Position(o, pc[o])
        BY <2>1, Here
      <4>2. At(o).kind = "select"
        BY <2>1, <3>2 DEF FailedInv
      <4>3. Request[o].op \in {"SendPayment", "Amalgamate"} => pc[o] # Len(Statements(o))
        BY <4>1, <4>2 DEF Position, At
      <4>4. Brings(o, "failed", pc[o], seen[o]) = 0
        BY <4>1, <4>3, BringsCases
      <4> QED BY <3>2, <4>4 DEF Brought, Earned
    <3> QED BY <3>1, <3>2
  <2>3. f = e
    BY <2>2
  <2>4. Total(bal) = Total(Initial) + SumFunction(f)
    BY <2>1 DEF LedgerInv
  <2>5. Expected = Total(Initial) + SumFunction(e)
    BY <2>1, EarnedType
  <2> HIDE DEF f, e
  <2> QED BY <2>3, <2>4, <2>5
<1> QED BY <1>1, MoneyInvariant, PTL

-----------------------------------------------------------------------------
(* Failed statements.                                                      *)

\* No account starts with negative savings.
SavingsStart == \A u \in DOMAIN Initial["savings"] : Initial["savings"][u] >= 0

LEMMA InType ==
    ASSUME TypeOK, NEW t \in Table, NEW u
    PROVE  In(bal, t, u) \in Int
BY DEF TypeOK, In

LEMMA SavingsStep ==
    ASSUME BaseInv, SeenInv, SavingsInv, NEW o \in todo, Moves(o)
    PROVE  SavingsInv'
<1>1. Alone(o) /\ todo' = todo /\ (AllSafe' <=> AllSafe)
  BY SafeStays DEF Moves, Alone
<1>2. "savings" \in Table
  BY DEF Table
<1>3. ASSUME AllSafe, NEW p \in todo, Is(p, {"Amalgamate"})
      PROVE  In(bal', "savings", Request[p].from) >= 0 /\ seen'[p] >= 0
  <2> DEFINE u == Request[p].from
             old == In(bal, "savings", u)
             new == In(bal', "savings", u)
  <2>1. old >= 0 /\ seen[p] >= 0 /\ old \in Int /\ seen[p] \in Int /\ p \in Op /\ u \in Uid
    BY <1>2, <1>3, InType, Here, RequestType DEF SavingsInv, BaseInv
  <2>2. CASE p # o
    <3>1. ~ SavingsWriter(o, u)
      BY <1>3, <2>2, SafeAmalgamate DEF BaseInv
    <3>2. new = old
      BY <2>1, <3>1, OtherSavings DEF BaseInv
    <3>3. seen'[p] = seen[p]
      BY <1>1, <2>2 DEF Alone
    <3> HIDE DEF old, new
    <3>4. new >= 0 /\ seen'[p] >= 0
      BY <2>1, <3>2, <3>3
    <3> QED BY <3>4 DEF new
  <2>3. CASE p = o
    <3>1. /\ Request[o].op = "Amalgamate" /\ Len(Statements(o)) = 3 /\ Position(o, pc[o])
          /\ pc[o] \in Nat /\ pc[o] \in 1..Len(Statements(o))
      BY <1>3, <2>3, Here DEF BaseInv, Position, Is
    <3>2. new = old \/ new = 0
      <4>1. \/ new = old
            \/ Writes(o) /\ At(o).table = "savings" /\ new = Result(o)
        BY <1>2, <2>1, RowAfter DEF BaseInv
      <4>2. Writes(o) /\ At(o).table = "savings" => At(o).kind = "clear"
        BY <3>1 DEF Writes, Position, At
      <4>3. At(o).kind = "clear" => Result(o) = 0
        BY DEF Result
      <4> HIDE DEF old, new
      <4> QED BY <4>1, <4>2, <4>3
    <3>3. seen'[o] = seen[o] \/ seen'[o] = old
      <4>1. CASE ~ Reads(o)
        BY <4>1 DEF Moves, Misses, Inserts, Writes, Breaks
      <4>2. CASE Reads(o)
        <5>1. At(o).kind = "select" /\ HasRow(At(o))
              /\ seen'[o] = seen[o] + bal[At(o).table][At(o).uid]
          BY <4>2 DEF Reads
        <5>2. pc[o] = 1 /\ At(o).table = "savings" /\ At(o).uid = u
          BY <2>3, <3>1, <5>1 DEF Position, At
        <5>3. seen[o] = 0 /\ old = bal["savings"][u]
          BY <1>3, <2>3, <5>1, <5>2 DEF SeenInv, Is, In, HasRow
        <5> HIDE DEF old
        <5> QED BY <2>1, <5>1, <5>2, <5>3
      <4> QED BY <4>1, <4>2
    <3> HIDE DEF old, new
    <3>4. new >= 0 /\ seen'[p] >= 0
      BY <2>1, <2>3, <3>2, <3>3
    <3> QED BY <3>4 DEF new
  <2> QED BY <2>2, <2>3
<1> QED BY <1>1, <1>3 DEF SavingsInv

LEMMA SavingsInvariant ==
    ASSUME SavingsStart
    PROVE  Spec => []SavingsInv
<1>1. Init => SavingsInv
  <2> SUFFICES ASSUME Init, NEW o \in todo
               PROVE  In(bal, "savings", Request[o].from) >= 0 /\ seen[o] >= 0
    BY DEF SavingsInv
  <2> QED BY DEF Init, In, SavingsStart
<1>2. MoneyInv /\ SavingsInv /\ [Next]_vars => SavingsInv'
  <2> SUFFICES ASSUME MoneyInv, SavingsInv, [Next]_vars PROVE SavingsInv'
    OBVIOUS
  <2>1. BaseInv /\ SeenInv
    BY DEF MoneyInv
  <2>2. CASE UNCHANGED vars
    BY <2>2, SafeStays DEF vars, SavingsInv, In
  <2>3. ASSUME NEW o \in todo, Moves(o) PROVE SavingsInv'
    BY <2>1, <2>3, SavingsStep
  <2> QED BY <2>1, <2>2, <2>3, Steps
<1> QED BY <1>1, <1>2, MoneyInvariant, PTL DEF Spec

\* Without negative payments and negative savings to begin with, the bank never holds
\* more than the successful calls account for, whatever statements fail: SendPayment
\* debits before it credits, and Amalgamate clears before it adds.
THEOREM FailuresCreateNoMoneyHolds ==
    ASSUME SavingsStart,
           \A o \in Op : Request[o].op = "SendPayment" => Request[o].amount >= 0
    PROVE  Spec => []FailuresCreateNoMoney
<1>1. MoneyInv /\ SavingsInv => FailuresCreateNoMoney
  <2> SUFFICES ASSUME MoneyInv, SavingsInv, AllSafe
               PROVE  Total(bal) <= Expected
    BY DEF FailuresCreateNoMoney
  <2> DEFINE f == [o \in todo |-> Brought(o)]
             e == [o \in todo |-> Earned(o)]
  <2>1. TypeOK /\ LedgerInv
    BY DEF MoneyInv, BaseInv
  <2>2. ASSUME NEW o \in todo PROVE Brought(o) <= Earned(o)
    <3>1. CASE status[o] = "done"
      BY <2>1, <3>1, EarnedType
    <3>2. CASE status[o] # "done"
      <4>1. o \in Op /\ seen[o] \in Int /\ Request[o].amount \in Int
            /\ status[o] \in {"running", "inserting", "done", "failed"}
        BY <2>1, Here, RequestType DEF TypeOK
      <4>2. Request[o].op = "SendPayment" => -Request[o].amount <= 0
        BY <4>1
      <4>3. Request[o].op = "Amalgamate" => -seen[o] <= 0
        BY <4>1 DEF SavingsInv, Is
      <4>4. \/ Brought(o) = 0
            \/ Request[o].op = "SendPayment" /\ Brought(o) = -Request[o].amount
            \/ Request[o].op = "Amalgamate" /\ Brought(o) = -seen[o]
        BY <3>2, <4>1, BringsCases DEF Brought
      <4> QED BY <3>2, <4>2, <4>3, <4>4 DEF Earned
    <3> QED BY <3>1, <3>2
  <2>3. IsFiniteSet(todo) /\ \A o \in todo : f[o] \in Int /\ e[o] \in Int /\ f[o] <= e[o]
    BY <2>1, <2>2, EarnedType
  <2>4. Total(bal) = Total(Initial) + SumFunction(f)
    BY <2>1 DEF LedgerInv
  <2>5. Expected = Total(Initial) + SumFunction(e)
    BY <2>1, EarnedType
  <2>6. DOMAIN f = todo /\ DOMAIN e = todo
    OBVIOUS
  <2> HIDE DEF f, e
  <2>7. SumFunctionOnSet(f, todo) <= SumFunctionOnSet(e, todo)
    BY <2>3, SumAtMost
  <2>8. SumFunctionOnSet(f, todo) \in Int /\ SumFunctionOnSet(e, todo) \in Int
    <3>1. (\A o \in todo : f[o] \in Int) /\ (\A o \in todo : e[o] \in Int)
      BY <2>3
    <3> QED BY <2>3, <3>1, SumType
  <2> QED BY <2>4, <2>5, <2>6, <2>7, <2>8, SumOfAll, InitialTotal
<1> QED BY <1>1, MoneyInvariant, SavingsInvariant, PTL

-----------------------------------------------------------------------------
(* Balance.                                                                *)

\* Next to a Balance that the property speaks of no call is risky.
LEMMA QuietIsSafe ==
    ASSUME NEW o \in todo, Is(o, {"Balance"}), OnlyAmalgamates(o)
    PROVE  AllSafe
BY DEF AllSafe, OnlyAmalgamates, Risky, Is

\* What a step does to the two accounts of such a Balance: nothing, or an Amalgamate of
\* the user clears the savings, or adds what it cleared.
LEMMA AccountsAfter ==
    ASSUME BaseInv, SeenInv, NEW o \in todo, Is(o, {"Balance"}), OnlyAmalgamates(o),
           NEW q \in todo, Moves(q)
    PROVE  LET u == Request[o].from
               c == In(bal, "checking", u)
               s == In(bal, "savings", u)
               cc == In(bal', "checking", u)
               ss == In(bal', "savings", u)
           IN
           \/ cc = c /\ ss = s
           \/ /\ Is(q, {"Amalgamate"}) /\ Request[q].from = u /\ pc[q] = 2
              /\ cc = c /\ ss = 0 /\ seen[q] = s
           \/ /\ Is(q, {"Amalgamate"}) /\ Request[q].from = u /\ pc[q] = 3
              /\ cc = c + seen[q] /\ ss = s
              /\ status[q] = "running" /\ status'[q] = "done"
<1> DEFINE u == Request[o].from
           c == In(bal, "checking", u)
           s == In(bal, "savings", u)
           cc == In(bal', "checking", u)
           ss == In(bal', "savings", u)
<1>1. "checking" \in Table /\ "savings" \in Table
  BY DEF Table
<1>2. u \in Uid /\ TypeOK
  BY Here, RequestType DEF BaseInv
<1>3. CASE ~ (Writes(q) /\ HasRow(At(q)) /\ At(q).uid = u)
  BY <1>1, <1>2, <1>3, RowAfter
<1>4. CASE Writes(q) /\ HasRow(At(q)) /\ At(q).uid = u
  <2>1. /\ q \in Op /\ Position(q, pc[q]) /\ pc[q] \in Nat /\ pc[q] \in 1..Len(Statements(q))
        /\ Len(Statements(q)) \in Nat
    BY <1>2, Here
  <2>2. At(q).kind # "select" /\ Advances(q)
    BY <1>4 DEF Writes
  <2>3. ~ Is(q, {"Balance"})
    BY <2>1, <2>2 DEF Position, Is, At
  <2>4. Is(q, {"Amalgamate"}) /\ Request[q].from = Request[q].to /\ Request[q].op = "Amalgamate"
    BY <2>3 DEF OnlyAmalgamates, Is
  <2>5. Len(Statements(q)) = 3 /\ pc[q] \in {2, 3}
    <3>1. Len(Statements(q)) = 3 /\ pc[q] # 1
      BY <2>1, <2>2, <2>4 DEF Position, At
    <3> QED BY <2>1, <3>1
  <2>6. CASE pc[q] = 2
    <3>1. /\ At(q).kind = "clear" /\ At(q).table = "savings" /\ Request[q].from = u
          /\ Result(q) = 0
      BY <1>4, <2>1, <2>4, <2>6 DEF Position, At, Result
    <3>2. cc = c
      BY <1>1, <1>2, <3>1, RowAfter
    <3>3. /\ u \in DOMAIN bal["savings"] /\ bal["savings"][u] = seen[q]
      BY <2>4, <2>6, <3>1, QuietIsSafe DEF SeenInv
    <3>4. ss = s \/ ss = 0
      BY <1>1, <1>2, <3>1, RowAfter
    <3>5. s = seen[q]
      BY <3>3 DEF In
    <3> QED BY <2>4, <2>6, <3>1, <3>2, <3>4, <3>5
  <2>7. CASE pc[q] = 3
    <3>1. /\ At(q).kind = "addSeen" /\ At(q).table = "checking" /\ Request[q].from = u
      BY <1>4, <2>1, <2>4, <2>7 DEF Position, At
    <3>2. ss = s
      BY <1>1, <1>2, <3>1, RowAfter
    <3>3. status[q] = "running" /\ status'[q] = "done"
      BY <2>2, <2>5, <2>7, <3>1 DEF Advances, Returns, Stays, Moves, BaseInv, RowsInv
    <3>4. cc = c + seen[q]
      <4>1. Written("checking", u, Result(q)) /\ Result(q) = bal["checking"][u] + seen[q]
        BY <1>4, <3>1 DEF Writes, Result
      <4>2. bal'["checking"][u] = Result(q) /\ u \in DOMAIN bal["checking"] /\ u \in DOMAIN bal'["checking"]
        <5> HIDE DEF Result
        <5> QED BY <1>1, <4>1 DEF Written
      <4> QED BY <4>1, <4>2 DEF In
    <3> QED BY <2>4, <2>7, <3>1, <3>2, <3>3, <3>4
  <2> QED BY <2>5, <2>6, <2>7
<1> QED BY <1>3, <1>4

\* The savings are cleared in the step that moves an Amalgamate on to its third statement.
LEMMA ClearedNow ==
    ASSUME BaseInv, SeenInv, AllSafe, NEW q \in todo, Moves(q), Is(q, {"Amalgamate"}),
           pc'[q] = 3, status'[q] = "running"
    PROVE  /\ pc[q] = 2 /\ seen'[q] = seen[q]
           /\ In(bal, "savings", Request[q].from) = seen[q]
           /\ In(bal', "savings", Request[q].from) = 0
           /\ In(bal', "checking", Request[q].from) = In(bal, "checking", Request[q].from)
<1> DEFINE u == Request[q].from
<1>1. /\ q \in Op /\ Position(q, pc[q]) /\ pc[q] \in Nat /\ pc[q] \in 1..Len(Statements(q))
      /\ Request[q].op = "Amalgamate" /\ TypeOK
  BY Here DEF BaseInv, Is
<1>2. Len(Statements(q)) = 3
  BY <1>1 DEF Position
<1>3. Advances(q)
  BY DEF Moves, Reads, Misses, Inserts, Writes, Breaks, Stays
<1>4. pc[q] = 2
  BY <1>1, <1>2, <1>3 DEF Advances, Returns, Stays
<1>5. At(q).kind = "clear" /\ At(q).table = "savings" /\ At(q).uid = u /\ Result(q) = 0
  BY <1>1, <1>4 DEF Position, At, Result
<1>6. Writes(q) /\ HasRow(At(q))
  BY <1>3, <1>5, SafeRow DEF Moves, Reads, Misses, Inserts, Breaks, Advances, Stays
<1>7. Written("savings", u, 0) /\ seen'[q] = seen[q]
  BY <1>5, <1>6 DEF Writes
<1>8. "savings" \in Table /\ "checking" \in Table
  BY DEF Table
<1>9. u \in DOMAIN bal["savings"] /\ bal["savings"][u] = seen[q]
  BY <1>4 DEF SeenInv
<1>10. In(bal', "savings", u) = 0
  BY <1>7, <1>8 DEF Written, In
<1>11. In(bal', "checking", u) = In(bal, "checking", u)
  BY <1>7, <1>8 DEF Written, In
<1> QED BY <1>4, <1>7, <1>9, <1>10, <1>11 DEF In

LEMMA HoldingsStep ==
    ASSUME BaseInv, SeenInv, HoldingsInv, NEW q \in todo, Moves(q)
    PROVE  HoldingsInv'
<1>1. Alone(q) /\ todo' = todo
  BY DEF Moves, Alone
<1>2. \A o \in todo : OnlyAmalgamates(o)' <=> OnlyAmalgamates(o)
  BY <1>1 DEF OnlyAmalgamates, Risky, Is
<1> SUFFICES ASSUME NEW o \in todo, Is(o, {"Balance"}), OnlyAmalgamates(o)
             PROVE  LET u == Request[o].from IN
                    /\ In(bal', "savings", u) >= 0
                    /\ Holdings(bal', u) <= Holdings(Initial, u)
                    /\ \A p \in todo :
                          (Is(p, {"Amalgamate"}) /\ Request[p].from = u /\ pc'[p] = 3
                              /\ status'[p] = "running")
                          => Holdings(bal', u) + seen'[p] <= Holdings(Initial, u)
                    /\ pc'[o] = 2 =>
                          /\ status'[o] = "done" => seen'[o] <= Holdings(Initial, u)
                          /\ status'[o] # "done" =>
                                 seen'[o] + In(bal', "savings", u) <= Holdings(Initial, u)
  BY <1>1, <1>2 DEF HoldingsInv
<1> DEFINE u == Request[o].from
           c == In(bal, "checking", u)
           s == In(bal, "savings", u)
           cc == In(bal', "checking", u)
           ss == In(bal', "savings", u)
           h == Holdings(Initial, u)
<1>3. "checking" \in Table /\ "savings" \in Table
  BY DEF Table
<1>4. TypeOK /\ AllSafe /\ u \in Uid
  BY QuietIsSafe, Here, RequestType DEF BaseInv
<1>5. c \in Int /\ s \in Int /\ cc \in Int /\ ss \in Int
  <2>1. TypeOK'
    BY <1>4, TypeStep
  <2> QED BY <1>3, <1>4, <2>1, InType DEF TypeOK, In
<1>6. h \in Int
  BY <1>3, SmallBankAssumption DEF Holdings, In
<1>7. Holdings(bal, u) = c + s /\ Holdings(bal', u) = cc + ss
  BY DEF Holdings
<1>8. /\ s >= 0 /\ c + s <= h
      /\ \A p \in todo : (Is(p, {"Amalgamate"}) /\ Request[p].from = u /\ pc[p] = 3
                             /\ status[p] = "running") => c + s + seen[p] <= h
      /\ pc[o] = 2 => /\ status[o] = "done" => seen[o] <= h
                      /\ status[o] # "done" => seen[o] + s <= h
  BY <1>7 DEF HoldingsInv
<1>9. \/ cc = c /\ ss = s
      \/ /\ Is(q, {"Amalgamate"}) /\ Request[q].from = u /\ pc[q] = 2
         /\ cc = c /\ ss = 0 /\ seen[q] = s
      \/ /\ Is(q, {"Amalgamate"}) /\ Request[q].from = u /\ pc[q] = 3
         /\ cc = c + seen[q] /\ ss = s
         /\ status[q] = "running" /\ status'[q] = "done"
  BY AccountsAfter
<1>10. \A p \in todo : seen[p] \in Int /\ seen'[p] \in Int
  BY <1>1, <1>4, Here DEF Alone
<1>11. ss >= 0 /\ cc + ss <= h /\ ss <= s
  <2> HIDE DEF c, s, cc, ss, h
  <2> QED BY <1>5, <1>6, <1>8, <1>9, <1>10
<1>12. ASSUME NEW p \in todo, Is(p, {"Amalgamate"}), Request[p].from = u, pc'[p] = 3,
              status'[p] = "running"
       PROVE  cc + ss + seen'[p] <= h
  <2>1. CASE p = q
    <3>1. seen'[p] = seen[p] /\ s = seen[p] /\ ss = 0 /\ cc = c
      BY <1>4, <1>12, <2>1, ClearedNow
    <3> HIDE DEF c, s, cc, ss, h
    <3> QED BY <1>5, <1>6, <1>8, <1>10, <3>1
  <2>2. CASE p # q
    <3>1. pc[p] = 3 /\ status[p] = "running" /\ seen'[p] = seen[p]
      BY <1>1, <1>12, <2>2 DEF Alone
    <3>2. ~ (Is(q, {"Amalgamate"}) /\ Request[q].from = u)
      BY <1>4, <1>12, <2>2, SafeAmalgamate DEF SavingsWriter, Is
    <3>3. cc = c /\ ss = s
      BY <1>9, <3>2
    <3> HIDE DEF c, s, cc, ss, h
    <3> QED BY <1>8, <1>12, <3>1, <3>3
  <2> QED BY <2>1, <2>2
<1>13. ASSUME pc'[o] = 2
       PROVE  /\ status'[o] = "done" => seen'[o] <= h
              /\ status'[o] # "done" => seen'[o] + ss <= h
  <2>1. CASE o # q
    <3>1. pc[o] = 2 /\ status'[o] = status[o] /\ seen'[o] = seen[o]
      BY <1>1, <1>13, <2>1 DEF Alone
    <3> HIDE DEF c, s, cc, ss, h
    <3> QED BY <1>5, <1>6, <1>8, <1>10, <1>11, <3>1
  <2>2. CASE o = q
    <3>1. /\ o \in Op /\ Position(o, pc[o]) /\ pc[o] \in Nat /\ pc[o] \in 1..Len(Statements(o))
          /\ Request[o].op = "Balance"
      BY <1>4, Here DEF Is
    <3>2. /\ Len(Statements(o)) = 2 /\ At(o).kind = "select" /\ At(o).uid = u
          /\ At(o).table = IF pc[o] = 1 THEN "checking" ELSE "savings"
      BY <3>1 DEF Position, At
    <3>3. cc = c /\ ss = s
      BY <1>9, <2>2 DEF Is
    <3>4. CASE ~ Advances(o)
      <4>1. pc[o] = 2 /\ seen'[o] = seen[o] /\ status[o] # "done" /\ status'[o] # "done"
        BY <1>13, <2>2, <3>4 DEF Moves, Reads, Misses, Inserts, Writes, Breaks, Stays
      <4> HIDE DEF c, s, cc, ss, h
      <4> QED BY <1>8, <3>3, <4>1
    <3>5. ASSUME Advances(o)
          PROVE  \/ pc[o] = 1 /\ status'[o] = "running"
                 \/ pc[o] = 2 /\ status'[o] = "done" /\ status[o] # "done"
      BY <1>13, <2>2, <3>1, <3>2, <3>5 DEF Advances, Returns, Stays, Moves
    <3>6. ASSUME Advances(o)
          PROVE  seen'[o] = seen[o] + In(bal, At(o).table, u)
      <4>1. CASE HasRow(At(o))
        BY <2>2, <3>2, <3>6, <4>1
           DEF HasRow, In, Moves, Reads, Misses, Inserts, Writes, Breaks, Advances, Stays
      <4>2. CASE ~ HasRow(At(o))
        <5>1. seen'[o] = seen[o]
          BY <2>2, <4>2 DEF Moves, Reads, Misses, Inserts, Writes, Breaks
        <5>2. In(bal, At(o).table, u) = 0
          BY <3>2, <4>2 DEF HasRow, In
        <5> QED BY <1>10, <5>1, <5>2
      <4> QED BY <4>1, <4>2
    <3>7. CASE Advances(o) /\ pc[o] = 1
      <4>1. seen[o] = 0 /\ seen'[o] = seen[o] + c /\ status'[o] = "running"
        BY <3>2, <3>5, <3>6, <3>7 DEF SeenInv, Is
      <4> HIDE DEF c, s, cc, ss, h
      <4> QED BY <1>5, <1>6, <1>8, <3>3, <4>1
    <3>8. CASE Advances(o) /\ pc[o] = 2
      <4>1. seen'[o] = seen[o] + s /\ status'[o] = "done" /\ status[o] # "done"
        BY <3>2, <3>5, <3>6, <3>8
      <4> HIDE DEF c, s, cc, ss, h
      <4> QED BY <1>8, <3>8, <4>1
    <3> QED BY <3>4, <3>5, <3>7, <3>8
  <2> QED BY <2>1, <2>2
<1> QED BY <1>7, <1>11, <1>12, <1>13

\* Savings that are not negative to begin with are counted at most once by a Balance
\* next to which money only moves from savings to checking, whatever statements fail.
THEOREM BalanceCountsOnceHolds ==
    ASSUME SavingsStart
    PROVE  Spec => []BalanceCountsOnce
<1>1. Init => HoldingsInv
  <2> SUFFICES ASSUME Init, NEW o \in todo
               PROVE  LET u == Request[o].from IN
                      /\ In(bal, "savings", u) >= 0
                      /\ Holdings(bal, u) <= Holdings(Initial, u)
                      /\ \A p \in todo : pc[p] = 1
    BY DEF HoldingsInv
  <2> DEFINE u == Request[o].from
  <2>1. bal = Initial /\ \A p \in todo : pc[p] = 1
    BY DEF Init
  <2>2. Holdings(Initial, u) \in Int
    BY SmallBankAssumption DEF Holdings, In, Table
  <2>3. In(bal, "savings", u) >= 0
    BY <2>1 DEF In, SavingsStart
  <2> QED BY <2>1, <2>2, <2>3
<1>2. MoneyInv /\ HoldingsInv /\ [Next]_vars => HoldingsInv'
  <2> SUFFICES ASSUME MoneyInv, HoldingsInv, [Next]_vars PROVE HoldingsInv'
    OBVIOUS
  <2>1. BaseInv /\ SeenInv
    BY DEF MoneyInv
  <2>2. CASE UNCHANGED vars
    BY <2>2 DEF vars, HoldingsInv, Holdings, In, OnlyAmalgamates, Risky, Is
  <2>3. ASSUME NEW q \in todo, Moves(q) PROVE HoldingsInv'
    BY <2>1, <2>3, HoldingsStep
  <2> QED BY <2>1, <2>2, <2>3, Steps
<1>3. MoneyInv /\ HoldingsInv => BalanceCountsOnce
  <2> SUFFICES ASSUME MoneyInv, HoldingsInv, NEW o \in todo, Is(o, {"Balance"}),
                      status[o] = "done", OnlyAmalgamates(o)
               PROVE  seen[o] <= Holdings(Initial, Request[o].from)
    BY DEF BalanceCountsOnce
  <2>1. pc[o] = 2
    <3>1. TypeOK /\ Returns(o)
      BY DEF MoneyInv, BaseInv, RowsInv
    <3>2. Position(o, pc[o])
      BY <3>1, Here
    <3> QED BY <3>1, <3>2 DEF Position, Is, Returns
  <2> QED BY <2>1 DEF HoldingsInv
<1> QED BY <1>1, <1>2, <1>3, MoneyInvariant, PTL DEF Spec

=============================================================================
