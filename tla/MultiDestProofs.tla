-------------------------- MODULE MultiDestProofs --------------------------
(***************************************************************************)
(* Theorems about MultiDest, for all accounts, callers, requests and       *)
(* numbers of statements that fail.                                        *)
(***************************************************************************)
EXTENDS MultiDestProperties, CollectionProofs

-----------------------------------------------------------------------------
(* Types.                                                                  *)

Steps == {"validate", "check", "set", "undo", "debit", "credit", "record", "unlock", "done",
          "refused", "failed"}

\* What a caller asks for.
LEMMA RequestType ==
    ASSUME NEW t \in Tx
    PROVE  /\ Source(t) \in Account /\ Destinations(t) \in Seq(Account)
           /\ Len(Destinations(t)) \in Nat \ {0}
           /\ Amounts(t) \in Seq(Int)
           /\ Rows(t) \in Seq(Account) /\ Len(Rows(t)) = Len(Destinations(t)) + 1
           /\ Rows(t)[1] = Source(t)
           /\ RowsToUnlock(t) = Rows(t)
<1>1. /\ Source(t) \in Account /\ Destinations(t) \in Seq(Account) /\ Destinations(t) # <<>>
      /\ Amounts(t) \in Seq(Int)
  BY MultiDestAssumption DEF Source, Destinations, Amounts
<1> HIDE DEF Source, Destinations, Amounts
<1>2. Len(Destinations(t)) \in Nat \ {0}
  BY <1>1
<1>3. /\ <<Source(t)>> \in Seq(Account) /\ Len(<<Source(t)>>) = 1
      /\ <<Source(t)>>[1] = Source(t)
  BY <1>1
<1>4. /\ Rows(t) \in Seq(Account) /\ Len(Rows(t)) = Len(Destinations(t)) + 1
      /\ Rows(t)[1] = Source(t)
  BY <1>1, <1>2, <1>3 DEF Rows
<1> QED BY <1>1, <1>2, <1>4 DEF RowsToUnlock

\* The amounts add up to an integer.
LEMMA TotalType ==
    ASSUME NEW t \in Tx
    PROVE  TotalAmt(t) \in Int
<1>1. Amounts(t) \in Seq(Int)
  BY RequestType
<1>2. IsFiniteSet(1..Len(Amounts(t)))
  BY <1>1, FS_Interval
<1>3. DOMAIN Amounts(t) = 1..Len(Amounts(t)) /\ \A i \in DOMAIN Amounts(t) : Amounts(t)[i] \in Int
  BY <1>1
<1>4. SumFunctionOnSet(Amounts(t), DOMAIN Amounts(t)) \in Int
  BY <1>2, <1>3, SumType
<1> QED BY <1>4 DEF TotalAmt, SumFunction

\* A caller begins the step s.
LEMMA GotoType ==
    ASSUME TypeOK, NEW t \in todo, NEW s \in Steps, Goto(t, s)
    PROVE  /\ step' \in [todo -> Steps] /\ at' \in [todo -> Nat]
           /\ \A u \in todo : at'[u] \in 1..Len(Rows(u))
           /\ step'[t] = s /\ at'[t] = 1
           /\ \A u \in todo : u # t => step'[u] = step[u] /\ at'[u] = at[u]
<1>1. step \in [todo -> Steps] /\ at \in [todo -> Nat] /\ t \in Tx
      /\ \A u \in todo : at[u] \in 1..Len(Rows(u))
  BY MultiDestAssumption DEF TypeOK, Steps
<1>2. 1 \in 1..Len(Rows(t))
  BY <1>1, RequestType
<1> HIDE DEF Steps
<1> QED BY <1>1, <1>2 DEF Goto

\* A caller goes on in a loop over rows, or leaves it.
LEMMA NextOfType ==
    ASSUME TypeOK, NEW t \in todo, NEW s \in Steps, NEW after \in Steps,
           NEW rows, Len(rows) \in Nat, Len(rows) <= Len(Rows(t)), NextOf(t, rows, s, after)
    PROVE  /\ step' \in [todo -> Steps] /\ at' \in [todo -> Nat]
           /\ \A u \in todo : at'[u] \in 1..Len(Rows(u))
           /\ \A u \in todo : u # t => step'[u] = step[u] /\ at'[u] = at[u]
           /\ \/ at[t] < Len(rows) /\ step'[t] = s /\ at'[t] = at[t] + 1
              \/ at[t] >= Len(rows) /\ step'[t] = after /\ at'[t] = 1
<1>1. step \in [todo -> Steps] /\ at \in [todo -> Nat] /\ t \in Tx
      /\ \A u \in todo : at[u] \in 1..Len(Rows(u))
  BY MultiDestAssumption DEF TypeOK, Steps
<1>2. CASE at[t] < Len(rows)
  <2>1. Len(Rows(t)) \in Nat
    BY <1>1, RequestType
  <2>2. at[t] + 1 \in 1..Len(Rows(t)) /\ at[t] + 1 \in Nat
    BY <1>1, <1>2, <2>1
  <2>3. step' = [step EXCEPT ![t] = s] /\ at' = [at EXCEPT ![t] = at[t] + 1]
    BY <1>2 DEF NextOf
  <2> HIDE DEF Steps
  <2> QED BY <1>1, <1>2, <2>2, <2>3
<1>3. CASE ~ (at[t] < Len(rows))
  <2>1. Goto(t, after)
    BY <1>3 DEF NextOf
  <2>2. at[t] >= Len(rows)
    BY <1>1, <1>3
  <2> QED BY <2>1, <2>2, GotoType
<1> QED BY <1>2, <1>3

TypeInv == TypeOK /\ StepInv

\* What each step does to the caller that takes it.
LEMMA TypeStep ==
    ASSUME TypeInv, NEW t \in todo, Call(t) \/ Error(t)
    PROVE  /\ TypeInv'
           /\ todo' = todo
           /\ \A u \in todo : u # t => step'[u] = step[u] /\ at'[u] = at[u]
<1> USE DEF db
<1>1. /\ TypeOK /\ StepInv
      /\ todo \in Workloads /\ t \in Tx
      /\ step \in [todo -> Steps] /\ at \in [todo -> Nat]
      /\ \A u \in todo : at[u] \in 1..Len(Rows(u))
      /\ alive \in BOOLEAN /\ errors \in 0..MaxErrors /\ balance \in [Stored -> Int]
      /\ lock \subseteq Stored /\ transactions \subseteq todo
  BY MultiDestAssumption DEF TypeInv, TypeOK, Steps
<1>2. /\ Len(Rows(t)) = Len(Destinations(t)) + 1 /\ Len(Destinations(t)) \in Nat \ {0}
      /\ Len(Rows(t)) \in Nat /\ RowsToUnlock(t) = Rows(t)
      /\ Amounts(t) \in Seq(Int) /\ Destinations(t) \in Seq(Account)
      /\ Source(t) = Rows(t)[1] /\ TotalAmt(t) \in Int /\ MaxErrors \in Nat
  BY <1>1, RequestType, TotalType, MultiDestAssumption
<1> DEFINE Others == \A u \in todo : u # t => step'[u] = step[u] /\ at'[u] = at[u]
           Fine == /\ step'[t] = "set" => Row(t)' \in Stored
                   /\ step'[t] = "credit" => at'[t] \in DOMAIN Destinations(t)
                   /\ step'[t] \in {"check", "set", "debit"} => Source(t) \in Stored
                   /\ errors' = 0 => errors = 0 /\ step'[t] \notin {"undo", "failed"}
<1> SUFFICES TypeInv' /\ todo' = todo /\ Others
  OBVIOUS
<1>3. ASSUME todo' = todo, step' \in [todo -> Steps], at' \in [todo -> Nat],
             \A u \in todo : at'[u] \in 1..Len(Rows(u)), Others, Fine,
             alive' \in BOOLEAN, errors' \in 0..MaxErrors, balance' \in [Stored -> Int],
             lock' \subseteq Stored, transactions' \subseteq todo
      PROVE  TypeInv' /\ todo' = todo /\ Others
  <2>1. TypeOK'
    BY <1>1, <1>3 DEF TypeOK, Steps
  <2>2. ASSUME NEW u \in todo
        PROVE  /\ step'[u] = "set" => Row(u)' \in Stored
               /\ step'[u] = "credit" => at'[u] \in DOMAIN Destinations(u)
               /\ step'[u] \in {"check", "set", "debit"} => Source(u) \in Stored
               /\ errors' = 0 => step'[u] \notin {"undo", "failed"}
    <3>1. CASE u = t
      BY <1>3, <3>1
    <3>2. CASE u # t
      BY <1>1, <1>3, <3>2 DEF StepInv, Row
    <3> QED BY <3>1, <3>2
  <2>3. StepInv'
    BY <1>3, <2>2 DEF StepInv
  <2> QED BY <1>3, <2>1, <2>3 DEF TypeInv
<1>4. CASE Validate(t)
  <2>1. PICK s \in {"check", "refused"} : Goto(t, s) /\ (s = "check" => Source(t) \in Stored)
    BY <1>4 DEF Validate
  <2>2. /\ step' \in [todo -> Steps] /\ at' \in [todo -> Nat]
        /\ \A u \in todo : at'[u] \in 1..Len(Rows(u)) /\ Others
        /\ step'[t] = s
    BY <1>1, <2>1, GotoType DEF Steps
  <2>3. Fine
    BY <1>4, <2>1, <2>2 DEF Validate
  <2> HIDE DEF Others, Fine
  <2> QED BY <1>1, <1>3, <1>4, <2>2, <2>3 DEF Validate
<1>5. CASE Check(t)
  <2>1. /\ step' = [step EXCEPT ![t] = "set"] /\ at' = at /\ Row(t) \in Stored
        /\ step[t] = "check" /\ errors' = errors
    BY <1>5 DEF Check, At
  <2>2. step' \in [todo -> Steps] /\ step'[t] = "set"
    BY <1>1, <2>1 DEF Steps
  <2>3. Others /\ Row(t)' = Row(t) /\ Source(t) \in Stored
    BY <1>1, <2>1 DEF Row, StepInv
  <2>4. Fine
    BY <2>1, <2>2, <2>3
  <2> HIDE DEF Others, Fine
  <2> QED BY <1>1, <1>3, <1>5, <2>1, <2>2, <2>3, <2>4 DEF Check
<1>6. CASE Set(t)
  <2>1. /\ step[t] = "set" /\ Row(t) \in Stored /\ Source(t) \in Stored
        /\ NextOf(t, Rows(t), "check", "debit")
        /\ lock' = lock \cup {Row(t)}
    BY <1>1, <1>6 DEF Set, At, StepInv
  <2>2. /\ step' \in [todo -> Steps] /\ at' \in [todo -> Nat]
        /\ \A u \in todo : at'[u] \in 1..Len(Rows(u)) /\ Others
        /\ step'[t] \in {"check", "debit"}
    <3>1. "check" \in Steps /\ "debit" \in Steps
      BY DEF Steps
    <3> QED BY <1>1, <1>2, <2>1, <3>1, NextOfType
  <2>3. Fine
    BY <1>6, <2>1, <2>2 DEF Set
  <2>4. lock' \subseteq Stored
    BY <1>1, <2>1
  <2> HIDE DEF Others, Fine
  <2> QED BY <1>1, <1>3, <1>6, <2>2, <2>3, <2>4 DEF Set
<1>7. CASE Debit(t)
  <2>1. /\ Goto(t, "credit")
        /\ balance' = [balance EXCEPT ![Source(t)] = @ - TotalAmt(t)]
    BY <1>7 DEF Debit
  <2>2. /\ step' \in [todo -> Steps] /\ at' \in [todo -> Nat]
        /\ \A u \in todo : at'[u] \in 1..Len(Rows(u)) /\ Others
        /\ step'[t] = "credit" /\ at'[t] = 1
    BY <1>1, <2>1, GotoType DEF Steps
  <2>3. Fine
    BY <1>2, <1>7, <2>2 DEF Debit
  <2>4. balance' \in [Stored -> Int]
    <3>1. Source(t) \in Stored
      BY <1>1, <1>7 DEF Debit, At, StepInv
    <3>2. balance[Source(t)] - TotalAmt(t) \in Int
      BY <1>1, <1>2, <3>1
    <3> QED BY <1>1, <2>1, <3>2
  <2> HIDE DEF Others, Fine
  <2> QED BY <1>1, <1>3, <1>7, <2>2, <2>3, <2>4 DEF Debit
<1>8. CASE Credit(t)
  <2>1. /\ at[t] \in DOMAIN Amounts(t) /\ step[t] = "credit"
        /\ NextOf(t, Destinations(t), "credit", "record")
        /\ balance' = [balance EXCEPT ![Destinations(t)[at[t]]] = @ + AmountAt(t)]
    BY <1>8 DEF Credit, At
  <2>2. /\ step' \in [todo -> Steps] /\ at' \in [todo -> Nat]
        /\ \A u \in todo : at'[u] \in 1..Len(Rows(u)) /\ Others
        /\ \/ step'[t] = "record"
           \/ step'[t] = "credit" /\ at[t] < Len(Destinations(t)) /\ at'[t] = at[t] + 1
    <3>1. "credit" \in Steps /\ "record" \in Steps
      BY DEF Steps
    <3>2. Len(Destinations(t)) <= Len(Rows(t)) /\ Len(Destinations(t)) \in Nat
      BY <1>2
    <3> QED BY <1>1, <2>1, <3>1, <3>2, NextOfType
  <2>3. Fine
    <3>1. at[t] \in Nat \ {0}
      BY <1>1
    <3> QED BY <1>2, <1>8, <2>2, <3>1 DEF Credit
  <2>4. balance' \in [Stored -> Int]
    <3>1. AmountAt(t) \in Int
      BY <1>2, <2>1 DEF AmountAt
    <3> DEFINE d == Destinations(t)[at[t]]
    <3> HIDE DEF d
    <3>2. balance' = [balance EXCEPT ![d] = @ + AmountAt(t)]
      BY <2>1 DEF d
    <3>3. CASE d \in Stored
      <4>1. balance[d] + AmountAt(t) \in Int
        BY <1>1, <3>1, <3>3
      <4> QED BY <1>1, <3>2, <4>1
    <3>4. CASE d \notin Stored
      BY <1>1, <3>2, <3>4
    <3> QED BY <3>3, <3>4
  <2> HIDE DEF Others, Fine
  <2> QED BY <1>1, <1>3, <1>8, <2>2, <2>3, <2>4 DEF Credit
<1>9. CASE Panic(t)
  <2>1. Others /\ step' = step /\ at' = at /\ errors' = errors
    BY <1>9 DEF Panic
  <2>2. Fine
    BY <1>1, <1>9, <2>1 DEF Panic, At, StepInv
  <2> HIDE DEF Others, Fine
  <2> QED BY <1>1, <1>3, <1>9, <2>1, <2>2 DEF Panic
<1>10. CASE Record(t)
  <2>1. Goto(t, "unlock") /\ transactions' = transactions \cup {t}
    BY <1>10 DEF Record
  <2>2. /\ step' \in [todo -> Steps] /\ at' \in [todo -> Nat]
        /\ \A u \in todo : at'[u] \in 1..Len(Rows(u)) /\ Others
        /\ step'[t] = "unlock"
    BY <1>1, <2>1, GotoType DEF Steps
  <2>3. Fine
    BY <1>10, <2>2 DEF Record
  <2>4. transactions' \subseteq todo
    BY <1>1, <2>1
  <2> HIDE DEF Others, Fine
  <2> QED BY <1>1, <1>3, <1>10, <2>2, <2>3, <2>4 DEF Record
<1>11. CASE Unlock(t) \/ UnlockFails(t)
  <2>1. PICK s \in {"unlock", "undo"} :
           /\ step[t] = s
           /\ NextOf(t, Rows(t), s, IF s = "unlock" THEN "done" ELSE "failed")
           /\ lock' \subseteq lock
           /\ errors' = errors \/ (errors < MaxErrors /\ errors' = errors + 1)
    BY <1>2, <1>11 DEF Unlock, UnlockFails, Fails, At
  <2>2. /\ step' \in [todo -> Steps] /\ at' \in [todo -> Nat]
        /\ \A u \in todo : at'[u] \in 1..Len(Rows(u)) /\ Others
        /\ step'[t] \in {s, IF s = "unlock" THEN "done" ELSE "failed"}
    <3>1. s \in Steps /\ (IF s = "unlock" THEN "done" ELSE "failed") \in Steps
      BY DEF Steps
    <3> QED BY <1>1, <1>2, <2>1, <3>1, NextOfType
  <2>3. errors' \in 0..MaxErrors /\ (errors' = 0 => errors = 0)
    BY <1>1, <1>2, <2>1
  <2>4. Fine
    <3>1. errors = 0 => s = "unlock"
      BY <1>1, <2>1 DEF StepInv
    <3> QED BY <2>2, <2>3, <3>1
  <2>5. lock' \subseteq Stored
    BY <1>1, <2>1
  <2>6. UNCHANGED <<todo, alive, balance, transactions>>
    BY <1>11 DEF Unlock, UnlockFails, Fails
  <2> HIDE DEF Others, Fine
  <2> QED BY <1>1, <1>3, <2>2, <2>3, <2>4, <2>5, <2>6
<1>12. CASE LockFails(t) \/ StatementFails(t)
  <2>1. PICK s \in {"failed", "undo"} : Goto(t, s)
    BY <1>12 DEF LockFails, StatementFails
  <2>2. /\ step' \in [todo -> Steps] /\ at' \in [todo -> Nat]
        /\ \A u \in todo : at'[u] \in 1..Len(Rows(u)) /\ Others
        /\ step'[t] = s
    BY <1>1, <2>1, GotoType DEF Steps
  <2>3. UNCHANGED <<todo, alive, balance, lock, transactions>> /\ errors' = errors + 1
        /\ errors < MaxErrors
    BY <1>12 DEF LockFails, StatementFails, Fails
  <2>4. errors' \in 0..MaxErrors /\ errors' # 0
    BY <1>1, <1>2, <2>3
  <2>5. Fine
    BY <2>2, <2>4
  <2> HIDE DEF Others, Fine
  <2> QED BY <1>1, <1>3, <2>2, <2>3, <2>4, <2>5
<1> QED BY <1>4, <1>5, <1>6, <1>7, <1>8, <1>9, <1>10, <1>11, <1>12 DEF Call, Error

LEMMA TypeInvariant == Spec => []TypeInv
<1>1. Init => TypeInv
  <2> SUFFICES ASSUME Init PROVE TypeInv
    OBVIOUS
  <2>1. \A t \in todo : t \in Tx
    BY MultiDestAssumption DEF Init
  <2>2. \A t \in todo : at[t] \in 1..Len(Rows(t))
    <3> TAKE t \in todo
    <3>1. Len(Rows(t)) \in Nat \ {0} /\ at[t] = 1
      BY <2>1, RequestType DEF Init
    <3> QED BY <3>1
  <2>3. balance \in [Stored -> Int] /\ errors \in 0..MaxErrors
    BY MultiDestAssumption DEF Init
  <2>4. TypeOK
    BY <2>2, <2>3 DEF Init, TypeOK
  <2> QED BY <2>4 DEF Init, TypeInv, StepInv
<1>2. TypeInv /\ [Next]_vars => TypeInv'
  <2> SUFFICES ASSUME TypeInv, [Next]_vars PROVE TypeInv'
    OBVIOUS
  <2>1. CASE Next
    BY <2>1, TypeStep DEF Next
  <2>2. CASE UNCHANGED vars
    BY <2>2 DEF vars, db, TypeInv, TypeOK, StepInv, Row
  <2> QED BY <2>1, <2>2
<1> QED BY <1>1, <1>2, PTL DEF Spec

\* Every variable keeps its type, and no caller gets past the rows of its request, for
\* every set of callers and any number of failed statements.
THEOREM MultiDestTypeCorrect == Spec => []TypeOK
<1>1. TypeInv => TypeOK
  BY DEF TypeInv
<1> QED BY <1>1, TypeInvariant, PTL

-----------------------------------------------------------------------------
(* Locks.                                                                  *)

\* A statement that fails is counted, and the count never falls.
LEMMA NoErrors ==
    ASSUME TypeInv, NEW t \in todo, Call(t) \/ Error(t), errors' = 0
    PROVE  errors = 0 /\ Call(t)
<1>1. errors \in Nat
  BY MultiDestAssumption DEF TypeInv, TypeOK
<1>2. CASE Error(t)
  BY <1>1, <1>2 DEF Error, LockFails, StatementFails, UnlockFails, Fails
<1>3. CASE Call(t)
  BY <1>3 DEF Call, Validate, Check, Set, Debit, Credit, Panic, Record, Unlock
<1> QED BY <1>2, <1>3

LEMMA LocksStep ==
    ASSUME TypeInv, LocksHaveOwner, NEW t \in todo, Call(t) \/ Error(t)
    PROVE  LocksHaveOwner'
<1> DEFINE Owned(a) == \E u \in todo : \E i \in DOMAIN Rows(u) : Rows(u)[i] = a /\ Holds(u, i)
<1> SUFFICES ASSUME errors' = 0, NEW a \in lock' PROVE Owned(a)'
  BY DEF LocksHaveOwner
<1> USE DEF db
<1>1. errors = 0 /\ Call(t) /\ \A b \in lock : Owned(b)
  BY NoErrors DEF LocksHaveOwner
<1>2. /\ todo' = todo /\ t \in Tx
      /\ \A u \in todo : u # t => step'[u] = step[u] /\ at'[u] = at[u]
      /\ TypeOK
  BY TypeStep, MultiDestAssumption DEF TypeInv, TypeOK
<1>3. /\ Rows(t) \in Seq(Account) /\ Len(Rows(t)) \in Nat /\ DOMAIN Rows(t) = 1..Len(Rows(t))
      /\ Len(Destinations(t)) \in Nat
      /\ RowsToUnlock(t) = Rows(t) /\ at[t] \in DOMAIN Rows(t) /\ step \in [todo -> Steps]
      /\ Len(Rows(t)) <= Len(Rows(t)) /\ Len(Destinations(t)) <= Len(Rows(t))
  BY <1>2, RequestType DEF TypeOK, Steps
\* The owner of the row keeps it.
<1>4. ASSUME a \in lock,
             \A i \in DOMAIN Rows(t) : Rows(t)[i] = a /\ Holds(t, i) => Holds(t, i)'
      PROVE  Owned(a)'
  <2>1. PICK u \in todo : \E i \in DOMAIN Rows(u) : Rows(u)[i] = a /\ Holds(u, i)
    BY <1>1, <1>4
  <2>2. PICK i \in DOMAIN Rows(u) : Rows(u)[i] = a /\ Holds(u, i)
    BY <2>1
  <2>3. Holds(u, i)'
    <3>1. CASE u = t
      BY <1>4, <2>2, <3>1
    <3>2. CASE u # t
      BY <1>2, <2>2, <3>2 DEF Holds
    <3> QED BY <3>1, <3>2
  <2>4. \E k \in DOMAIN Rows(u) : Rows(u)[k] = a /\ Holds(u, k)'
    BY <2>2, <2>3
  <2> QED BY <1>2, <2>4
<1>5. CASE Validate(t)
  <2>1. lock' = lock /\ step[t] = "validate"
    BY <1>5 DEF Validate, At
  <2> QED BY <1>4, <2>1 DEF Holds
<1>6. CASE Check(t)
  <2>1. lock' = lock /\ step[t] = "check" /\ step'[t] = "set" /\ at' = at
    BY <1>3, <1>6 DEF Check, At
  <2> QED BY <1>4, <2>1 DEF Holds
<1>7. CASE Set(t)
  <2>1. /\ step[t] = "set" /\ lock' = lock \cup {Row(t)}
        /\ NextOf(t, Rows(t), "check", "debit")
    BY <1>7 DEF Set, At
  <2>2. \/ step'[t] = "check" /\ at'[t] = at[t] + 1
        \/ step'[t] = "debit"
    <3>1. "check" \in Steps /\ "debit" \in Steps
      BY DEF Steps
    <3> QED BY <1>2, <1>3, <2>1, <3>1, NextOfType
  <2>3. \A i \in DOMAIN Rows(t) : Holds(t, i) \/ i = at[t] => Holds(t, i)'
    BY <1>3, <2>1, <2>2 DEF Holds
  <2>4. CASE a \in lock
    BY <1>4, <2>3, <2>4
  <2>5. CASE a \notin lock
    <3>1. a = Rows(t)[at[t]]
      BY <2>1, <2>5 DEF Row
    <3>2. \E i \in DOMAIN Rows(t) : Rows(t)[i] = a /\ Holds(t, i)'
      BY <1>3, <2>3, <3>1
    <3> QED BY <1>2, <3>2
  <2> QED BY <2>4, <2>5
<1>8. CASE Debit(t) \/ Credit(t)
  <2>1. lock' = lock
    BY <1>8 DEF Debit, Credit
  <2>2. step'[t] \in {"credit", "record"}
    <3>1. "credit" \in Steps /\ "record" \in Steps
      BY DEF Steps
    <3>2. CASE Debit(t)
      BY <1>2, <3>1, <3>2, GotoType DEF Debit
    <3>3. CASE Credit(t)
      BY <1>2, <1>3, <3>1, <3>3, NextOfType DEF Credit
    <3> QED BY <1>8, <3>2, <3>3
  <2> QED BY <1>4, <2>1, <2>2 DEF Holds
<1>9. CASE Panic(t)
  <2>1. lock' = lock /\ step' = step /\ at' = at
    BY <1>9 DEF Panic
  <2> QED BY <1>4, <2>1 DEF Holds
<1>10. CASE Record(t)
  <2>1. lock' = lock
    BY <1>10 DEF Record
  <2>2. step'[t] = "unlock" /\ at'[t] = 1
    BY <1>2, <1>10, GotoType DEF Record, Steps
  <2> QED BY <1>3, <1>4, <2>1, <2>2 DEF Holds
<1>11. CASE Unlock(t)
  <2>1. /\ step[t] = "unlock" /\ lock' = lock \ {Rows(t)[at[t]]}
        /\ NextOf(t, Rows(t), "unlock", "done")
    <3>1. step[t] # "undo"
      BY <1>1 DEF TypeInv, StepInv
    <3> QED BY <1>3, <1>11, <3>1 DEF Unlock, At
  <2>2. \/ at[t] < Len(Rows(t)) /\ step'[t] = "unlock" /\ at'[t] = at[t] + 1
        \/ at[t] >= Len(Rows(t))
    <3>1. "unlock" \in Steps /\ "done" \in Steps
      BY DEF Steps
    <3> QED BY <1>2, <1>3, <2>1, <3>1, NextOfType
  <2>3. ASSUME NEW i \in DOMAIN Rows(t), Rows(t)[i] = a, Holds(t, i) PROVE Holds(t, i)'
    <3>1. i # at[t] /\ i >= at[t]
      BY <2>1, <2>3 DEF Holds
    <3>2. i >= at[t] + 1 /\ at[t] < Len(Rows(t))
      BY <1>3, <3>1
    <3> QED BY <1>3, <2>2, <3>2 DEF Holds
  <2> QED BY <1>4, <2>1, <2>3
<1> QED BY <1>1, <1>5, <1>6, <1>7, <1>8, <1>9, <1>10, <1>11 DEF Call

\* Without failed statements every locked row has an owner that is still at work.
THEOREM LocksHaveOwnerHolds == Spec => []LocksHaveOwner
<1>1. Init => LocksHaveOwner
  BY DEF Init, LocksHaveOwner
<1>2. TypeInv /\ LocksHaveOwner /\ [Next]_vars => LocksHaveOwner'
  <2>1. CASE UNCHANGED vars
    BY <2>1 DEF vars, db, LocksHaveOwner, Holds
  <2>2. CASE Next
    BY <2>2, LocksStep DEF Next
  <2> QED BY <2>1, <2>2
<1> QED BY <1>1, <1>2, TypeInvariant, PTL DEF Spec

-----------------------------------------------------------------------------
(* Money.                                                                  *)

SolvencyInv == TypeInv /\ SpenderInv /\ LoneSpenderIsSolvent
\* No caller transfers a negative amount.
NothingNegative == \A t \in Tx : \A i \in DOMAIN Amounts(t) : Amounts(t)[i] >= 0

LEMMA SolvencyStep ==
    ASSUME SolvencyInv, NEW t \in todo, Call(t) \/ Error(t),
           NothingNegative
    PROVE  SpenderInv' /\ LoneSpenderIsSolvent'
<1> DEFINE Lone(u) == \A v \in todo : Source(v) = Source(u) => v = u
           Ready(u) == step[u] \in {"check", "set", "debit"}
<1> USE DEF db
<1>1. /\ TypeInv /\ TypeInv' /\ todo' = todo /\ todo \subseteq Tx
      /\ \A u \in todo : u # t => step'[u] = step[u] /\ at'[u] = at[u]
      /\ TypeOK /\ StepInv
  BY TypeStep, MultiDestAssumption DEF SolvencyInv, TypeInv, TypeOK
<1>2. /\ balance \in [Stored -> Int] /\ balance' \in [Stored -> Int]
      /\ step \in [todo -> Steps] /\ step' \in [todo -> Steps]
      /\ \A u \in todo : /\ Source(u) \in Account /\ TotalAmt(u) \in Int
                         /\ Ready(u) => Source(u) \in Stored
  BY <1>1, RequestType, TotalType DEF TypeInv, TypeOK, StepInv, Steps
<1>3. Amounts(t) \in Seq(Int)
  BY <1>1, RequestType
\* Nobody but a debit takes money, and only the validation lets a caller in.
<1>4. ASSUME \A a \in Stored : balance'[a] >= balance[a],
             Ready(t)' => Ready(t) \/ balance[Source(t)] >= TotalAmt(t)
      PROVE  SpenderInv' /\ LoneSpenderIsSolvent'
  <2>1. ASSUME NEW u \in todo, Lone(u), Ready(u)' PROVE balance'[Source(u)] >= TotalAmt(u)
    <3>1. balance[Source(u)] >= TotalAmt(u)
      <4>1. CASE Ready(u)
        BY <2>1, <4>1 DEF SolvencyInv, SpenderInv, Covers
      <4>2. CASE ~Ready(u)
        BY <1>1, <1>4, <2>1, <4>2
      <4> QED BY <4>1, <4>2
    <3>2. Source(u) \in Stored
      BY <1>1, <2>1 DEF TypeInv, StepInv
    <3> QED BY <1>2, <1>4, <3>1, <3>2
  <2>2. SpenderInv'
    BY <1>1, <2>1 DEF SpenderInv, Covers
  <2>3. ASSUME NEW a \in Stored, balance[a] >= 0 PROVE balance'[a] >= 0
    BY <1>2, <1>4, <2>3
  <2>4. LoneSpenderIsSolvent'
    BY <1>1, <2>3 DEF SolvencyInv, LoneSpenderIsSolvent
  <2> QED BY <2>2, <2>4
<1>5. ASSUME balance' = balance, Ready(t)' => Ready(t) \/ balance[Source(t)] >= TotalAmt(t)
      PROVE  SpenderInv' /\ LoneSpenderIsSolvent'
  <2>1. \A a \in Stored : balance'[a] >= balance[a]
    BY <1>2, <1>5
  <2> HIDE DEF Ready
  <2> QED BY <1>4, <1>5, <2>1
<1>6. CASE Validate(t)
  <2>1. Covers(t) \/ Goto(t, "refused")
    BY <1>6 DEF Validate
  <2>2. Ready(t)' => balance[Source(t)] >= TotalAmt(t)
    <3>1. CASE Covers(t)
      BY <3>1 DEF Covers
    <3>2. CASE Goto(t, "refused")
      <4>1. step'[t] = "refused"
        BY <1>1, <3>2, GotoType DEF Steps
      <4> QED BY <4>1
    <3> QED BY <2>1, <3>1, <3>2
  <2> HIDE DEF Ready
  <2> QED BY <1>5, <1>6, <2>2 DEF Validate
<1>7. CASE Check(t) \/ Set(t)
  <2>1. balance' = balance /\ Ready(t)
    BY <1>7 DEF Check, Set, At
  <2> HIDE DEF Ready
  <2> QED BY <1>5, <2>1
<1>8. CASE Debit(t)
  <2>1. /\ step[t] = "debit"
        /\ balance' = [balance EXCEPT ![Source(t)] = @ - TotalAmt(t)]
    BY <1>8 DEF Debit, At
  <2>2. step'[t] = "credit"
    BY <1>1, <1>8, GotoType DEF Debit, Steps
  <2>3. /\ Source(t) \in Stored
        /\ balance'[Source(t)] = balance[Source(t)] - TotalAmt(t)
        /\ \A a \in Stored : a # Source(t) => balance'[a] = balance[a]
    BY <1>2, <2>1
  <2>4. ASSUME NEW u \in todo, Lone(u), Ready(u)' PROVE balance'[Source(u)] >= TotalAmt(u)
    <3>1. u # t
      BY <2>2, <2>4
    <3>2. Source(u) # Source(t) /\ Ready(u)
      BY <1>1, <2>4, <3>1
    <3>3. balance[Source(u)] >= TotalAmt(u) /\ Source(u) \in Stored
      BY <1>2, <2>4, <3>2 DEF SolvencyInv, SpenderInv, Covers
    <3> QED BY <2>3, <3>2, <3>3
  <2>5. SpenderInv'
    BY <1>1, <2>4 DEF SpenderInv, Covers
  <2>6. ASSUME NEW a \in Stored, \A u, v \in todo : Source(u) = a /\ Source(v) = a => u = v
        PROVE  balance'[a] >= 0
    <3>1. CASE a = Source(t)
      <4>1. Lone(t) /\ Ready(t)
        BY <2>1, <2>6, <3>1
      <4>2. balance[a] >= TotalAmt(t)
        BY <3>1, <4>1 DEF SolvencyInv, SpenderInv, Covers
      <4>3. balance[a] \in Int /\ TotalAmt(t) \in Int
        BY <1>2
      <4> QED BY <2>3, <3>1, <4>2, <4>3
    <3>2. CASE a # Source(t)
      BY <2>3, <2>6, <3>2 DEF SolvencyInv, LoneSpenderIsSolvent
    <3> QED BY <3>1, <3>2
  <2>7. LoneSpenderIsSolvent'
    BY <1>1, <2>6 DEF LoneSpenderIsSolvent
  <2> QED BY <2>5, <2>7
<1>9. CASE Credit(t)
  <2> DEFINE d == Destinations(t)[at[t]]
  <2>1. /\ balance' = [balance EXCEPT ![d] = @ + AmountAt(t)]
        /\ at[t] \in DOMAIN Amounts(t)
        /\ NextOf(t, Destinations(t), "credit", "record")
    BY <1>9 DEF Credit
  <2>2. AmountAt(t) \in Nat
    <3>1. Amounts(t)[at[t]] >= 0
      BY <1>1, <2>1 DEF NothingNegative
    <3> QED BY <1>3, <2>1, <3>1 DEF AmountAt
  <2> HIDE DEF d
  <2>3. \A a \in Stored : balance'[a] >= balance[a]
    BY <1>2, <2>1, <2>2
  <2>4. step'[t] \in {"credit", "record"}
    <3>1. "credit" \in Steps /\ "record" \in Steps
      BY DEF Steps
    <3>2. Len(Destinations(t)) \in Nat /\ Len(Destinations(t)) <= Len(Rows(t))
      BY <1>1, RequestType
    <3> QED BY <1>1, <2>1, <3>1, <3>2, NextOfType
  <2> QED BY <1>4, <2>3, <2>4
<1>10. CASE Panic(t)
  <2>1. balance' = balance /\ ~Ready(t)'
    BY <1>10 DEF Panic, At
  <2> HIDE DEF Ready
  <2> QED BY <1>5, <2>1
<1>11. CASE Record(t)
  <2>1. balance' = balance /\ step'[t] = "unlock"
    BY <1>1, <1>11, GotoType DEF Record, Steps
  <2> QED BY <1>5, <2>1
<1>12. CASE Unlock(t) \/ UnlockFails(t)
  <2>1. PICK s \in {"unlock", "undo"} :
           NextOf(t, Rows(t), s, IF s = "unlock" THEN "done" ELSE "failed")
    BY <1>1, <1>12, RequestType DEF Unlock, UnlockFails
  <2>2. step'[t] \in {"unlock", "undo", "done", "failed"}
    <3>1. s \in Steps /\ (IF s = "unlock" THEN "done" ELSE "failed") \in Steps
      BY DEF Steps
    <3>2. Len(Rows(t)) \in Nat /\ Len(Rows(t)) <= Len(Rows(t))
      BY <1>1, RequestType
    <3> QED BY <1>1, <2>1, <3>1, <3>2, NextOfType
  <2>3. balance' = balance
    BY <1>12 DEF Unlock, UnlockFails, Fails
  <2> QED BY <1>5, <2>2, <2>3
<1>13. CASE LockFails(t) \/ StatementFails(t)
  <2>1. PICK s \in {"failed", "undo"} : Goto(t, s)
    BY <1>13 DEF LockFails, StatementFails
  <2>2. step'[t] = s
    BY <1>1, <2>1, GotoType DEF Steps
  <2>3. balance' = balance
    BY <1>13 DEF LockFails, StatementFails, Fails
  <2> QED BY <1>5, <2>2, <2>3
<1> QED BY <1>6, <1>7, <1>8, <1>9, <1>10, <1>11, <1>12, <1>13 DEF Call, Error

\* Whoever alone spends from an account does not overdraw it, unless a caller credits
\* it with a negative amount, which ValidateMultiDestTransaction does not refuse.
THEOREM LoneSpenderIsSolventHolds ==
    ASSUME NothingNegative
    PROVE  Spec => []LoneSpenderIsSolvent
<1>1. Init => SpenderInv /\ LoneSpenderIsSolvent
  <2> SUFFICES ASSUME Init PROVE SpenderInv /\ LoneSpenderIsSolvent
    OBVIOUS
  <2>1. \A a \in Stored : balance[a] >= 0
    BY MultiDestAssumption DEF Init
  <2> QED BY <2>1 DEF Init, SpenderInv, LoneSpenderIsSolvent
<1>2. TypeInv /\ SpenderInv /\ LoneSpenderIsSolvent /\ [Next]_vars
         => SpenderInv' /\ LoneSpenderIsSolvent'
  <2>1. CASE UNCHANGED vars
    BY <2>1 DEF vars, db, SpenderInv, LoneSpenderIsSolvent, Covers
  <2>2. CASE Next
    BY <2>2, SolvencyStep DEF Next, SolvencyInv
  <2> QED BY <2>1, <2>2
<1> QED BY <1>1, <1>2, TypeInvariant, PTL DEF Spec

\* The indices of a destination are finitely many, and what they bring is an integer.
LEMMA CreditType ==
    ASSUME NEW t \in Tx, NEW C, C \subseteq DOMAIN Destinations(t), C \subseteq DOMAIN Amounts(t)
    PROVE  IsFiniteSet(C) /\ SumFunctionOnSet(Amounts(t), C) \in Int
<1>1. Destinations(t) \in Seq(Account) /\ Amounts(t) \in Seq(Int)
  BY RequestType
<1>2. IsFiniteSet(1..Len(Destinations(t))) /\ C \subseteq 1..Len(Destinations(t))
  <2>1. Len(Destinations(t)) \in Int /\ DOMAIN Destinations(t) = 1..Len(Destinations(t))
    BY <1>1
  <2> QED BY <2>1, FS_Interval
<1>3. IsFiniteSet(C)
  BY <1>2, FS_Subset
<1>4. \A i \in C : Amounts(t)[i] \in Int
  BY <1>1
<1> QED BY <1>3, <1>4, SumType

LEMMA SpentType ==
    ASSUME NEW t \in Tx, NEW a
    PROVE  Spent(t, a) \in Int
BY TotalType DEF Spent

LEMMA MovedType ==
    ASSUME NEW t \in Tx, NEW a, Credited(t, a) \subseteq DOMAIN Amounts(t)
    PROVE  Moved(t, a) \in Int /\ IsFiniteSet(Credited(t, a))
<1>1. Credited(t, a) \subseteq DOMAIN Destinations(t)
  BY DEF Credited, To
<1>2. IsFiniteSet(Credited(t, a)) /\ SumFunctionOnSet(Amounts(t), Credited(t, a)) \in Int
  BY <1>1, CreditType
<1>3. Spent(t, a) \in Int
  BY SpentType
<1> QED BY <1>2, <1>3 DEF Moved

LEMMA BalanceStep ==
    ASSUME TypeInv, BalanceInv, NEW t \in todo, Call(t) \/ Error(t)
    PROVE  BalanceInv'
<1> DEFINE Recorded == {u \in todo : step[u] \in {"unlock", "done"}}
           Covered(u) == \A a \in Account : Credited(u, a) \subseteq DOMAIN Amounts(u)
<1> SUFFICES ASSUME errors' = 0 PROVE BalanceInv'
  BY DEF BalanceInv
<1> USE DEF db
<1>1. errors = 0 /\ Call(t)
  BY NoErrors
<1>2. /\ IsFiniteSet(Debited) /\ transactions = Recorded
      /\ \A u \in Debited : Covered(u)
      /\ \A a \in Stored :
            balance[a] = InitialBalance + SumFunctionOnSet([u \in todo |-> Moved(u, a)], Debited)
  BY <1>1 DEF BalanceInv
<1>3. /\ todo' = todo /\ todo \subseteq Tx /\ TypeOK /\ TypeOK' /\ t \in Tx
      /\ \A u \in todo : u # t => step'[u] = step[u] /\ at'[u] = at[u]
  BY TypeStep, MultiDestAssumption DEF TypeInv, TypeOK
<1>4. /\ balance \in [Stored -> Int] /\ Stored \subseteq Account /\ InitialBalance \in Int
      /\ step \in [todo -> Steps] /\ Debited \subseteq todo
      /\ at[t] \in 1..Len(Rows(t))
  BY <1>3, MultiDestAssumption DEF TypeOK, Debited, Steps
<1>5. \A u \in todo : \A a \in Account : u # t => Credited(u, a)' = Credited(u, a)
  BY <1>3 DEF Credited
<1>6. \A u \in Debited : \A a \in Stored : Moved(u, a) \in Int
  <2>1. \A u \in Debited : \A a \in Stored : u \in Tx /\ Credited(u, a) \subseteq DOMAIN Amounts(u)
    BY <1>2, <1>3, <1>4
  <2> QED BY <2>1, MovedType
\* The caller moves nothing.
<1>7. ASSUME balance' = balance, Debited' = Debited, transactions' = Recorded',
             \A a \in Account : t \in Debited => Credited(t, a)' = Credited(t, a)
      PROVE  BalanceInv'
  <2>1. \A u \in Debited : \A a \in Account : Credited(u, a)' = Credited(u, a)
    BY <1>4, <1>5, <1>7
  <2>2. \A u \in Debited : Covered(u)'
    BY <1>2, <2>1
  <2>3. \A u \in Debited : \A a \in Stored : Moved(u, a)' = Moved(u, a)
    BY <1>4, <2>1 DEF Moved
  <2>4. ASSUME NEW a \in Stored
        PROVE  SumFunctionOnSet([u \in todo |-> Moved(u, a)'], Debited)
                  = SumFunctionOnSet([u \in todo |-> Moved(u, a)], Debited)
    <3> DEFINE f == [u \in todo |-> Moved(u, a)]
               e == [u \in todo |-> Moved(u, a)']
    <3>1. \A u \in Debited : f[u] \in Int /\ e[u] = f[u]
      BY <1>4, <1>6, <2>3
    <3> HIDE DEF f, e
    <3>2. SumFunctionOnSet(e, Debited) = SumFunctionOnSet(f, Debited)
      BY <1>2, <3>1, SumAgrees
    <3> QED BY <3>2 DEF f, e
  <2> QED BY <1>2, <1>3, <1>7, <2>2, <2>4 DEF BalanceInv
<1>8. CASE Validate(t)
  <2>1. PICK s \in {"check", "refused"} : Goto(t, s)
    BY <1>8 DEF Validate
  <2>2. step[t] = "validate" /\ step'[t] \in {"check", "refused"}
    BY <1>3, <1>8, <2>1, GotoType DEF Validate, At, Steps
  <2>3. Debited' = Debited /\ Recorded' = Recorded /\ t \notin Debited
    BY <1>3, <2>2 DEF Debited
  <2> HIDE DEF Recorded
  <2> QED BY <1>2, <1>7, <1>8, <2>3 DEF Validate
<1>9. CASE Check(t)
  <2>1. step[t] = "check" /\ step'[t] = "set"
    BY <1>4, <1>9 DEF Check, At
  <2>2. Debited' = Debited /\ Recorded' = Recorded /\ t \notin Debited
    BY <1>3, <2>1 DEF Debited
  <2> HIDE DEF Recorded
  <2> QED BY <1>2, <1>7, <1>9, <2>2 DEF Check
<1>10. CASE Set(t)
  <2>1. step[t] = "set" /\ NextOf(t, Rows(t), "check", "debit")
    BY <1>10 DEF Set, At
  <2>2. step'[t] \in {"check", "debit"}
    <3>1. "check" \in Steps /\ "debit" \in Steps
      BY DEF Steps
    <3>2. Len(Rows(t)) \in Nat /\ Len(Rows(t)) <= Len(Rows(t))
      BY <1>3, RequestType
    <3> QED BY <1>3, <2>1, <3>1, <3>2, NextOfType
  <2>3. Debited' = Debited /\ Recorded' = Recorded /\ t \notin Debited
    BY <1>3, <2>1, <2>2 DEF Debited
  <2> HIDE DEF Recorded
  <2> QED BY <1>2, <1>7, <1>10, <2>3 DEF Set
<1>11. CASE Panic(t)
  <2>1. UNCHANGED <<todo, step, at, balance, transactions>>
    BY <1>11 DEF Panic
  <2>2. Debited' = Debited /\ Recorded' = Recorded
    BY <2>1 DEF Debited
  <2>3. \A a \in Account : Credited(t, a)' = Credited(t, a)
    BY <2>1 DEF Credited
  <2> HIDE DEF Recorded
  <2> QED BY <1>2, <1>7, <2>1, <2>2, <2>3
<1>12. CASE Record(t)
  <2>1. step[t] = "record" /\ step'[t] = "unlock" /\ transactions' = transactions \cup {t}
    BY <1>3, <1>12, GotoType DEF Record, At, Steps
  <2>2. Debited' = Debited
    BY <1>3, <2>1 DEF Debited
  <2>3. transactions' = Recorded'
    BY <1>2, <1>3, <2>1
  <2>4. \A a \in Account : Credited(t, a)' = Credited(t, a)
    BY <2>1 DEF Credited
  <2> HIDE DEF Recorded
  <2> QED BY <1>7, <1>12, <2>2, <2>3, <2>4 DEF Record
<1>13. CASE Unlock(t)
  <2>1. step[t] = "unlock" /\ NextOf(t, Rows(t), "unlock", "done")
    <3>1. step[t] # "undo"
      BY <1>1 DEF TypeInv, StepInv
    <3> QED BY <1>3, <1>13, <3>1, RequestType DEF Unlock, At
  <2>2. step'[t] \in {"unlock", "done"}
    <3>1. "unlock" \in Steps /\ "done" \in Steps
      BY DEF Steps
    <3>2. Len(Rows(t)) \in Nat /\ Len(Rows(t)) <= Len(Rows(t))
      BY <1>3, RequestType
    <3> QED BY <1>3, <2>1, <3>1, <3>2, NextOfType
  <2>3. Debited' = Debited /\ Recorded' = Recorded
    BY <1>3, <2>1, <2>2 DEF Debited
  <2>4. \A a \in Account : Credited(t, a)' = Credited(t, a)
    BY <2>1, <2>2 DEF Credited
  <2> HIDE DEF Recorded
  <2> QED BY <1>2, <1>7, <1>13, <2>3, <2>4 DEF Unlock
\* The debit takes the total from the source.
<1>14. CASE Debit(t)
  <2>1. /\ step[t] = "debit" /\ step'[t] = "credit" /\ at'[t] = 1
        /\ balance' = [balance EXCEPT ![Source(t)] = @ - TotalAmt(t)]
        /\ transactions' = transactions
    BY <1>3, <1>14, GotoType DEF Debit, At, Steps
  <2>2. Debited' = Debited \cup {t} /\ t \notin Debited /\ Recorded' = Recorded
    BY <1>3, <2>1 DEF Debited
  <2>3. \A a \in Account : Credited(t, a)' = {}
    <3>1. \A i \in DOMAIN Destinations(t) : ~ (i < 1)
      BY <1>3, RequestType
    <3> QED BY <2>1, <3>1 DEF Credited, To
  <2>4. \A u \in Debited' : Covered(u)'
    BY <1>2, <1>4, <1>5, <2>2, <2>3
  <2>5. IsFiniteSet(Debited')
    BY <1>2, <2>2, FS_AddElement
  <2>6. ASSUME NEW a \in Stored
        PROVE  balance'[a] = InitialBalance
                  + SumFunctionOnSet([u \in todo |-> Moved(u, a)'], Debited \cup {t})
    <3> DEFINE f == [u \in todo |-> Moved(u, a)]
               e == [u \in todo |-> Moved(u, a)']
    <3>1. \A u \in Debited : f[u] \in Int /\ e[u] = f[u]
      <4>1. \A u \in Debited : u # t /\ u \in todo /\ a \in Account
        BY <1>4, <2>2
      <4>2. \A u \in Debited : Moved(u, a)' = Moved(u, a)
        BY <1>5, <4>1 DEF Moved
      <4> QED BY <1>6, <4>1, <4>2
    <3>2. Spent(t, a) \in Int /\ e[t] = 0 - Spent(t, a)
      <4>1. Moved(t, a)' = SumFunctionOnSet(Amounts(t), {}) - Spent(t, a)
        BY <1>4, <2>3 DEF Moved
      <4> QED BY <1>3, <4>1, SpentType, SumOfNothing
    <3>3. balance[a] = InitialBalance + SumFunctionOnSet(f, Debited)
      BY <1>2
    <3>4. balance'[a] = balance[a] - Spent(t, a)
      <4>1. CASE a = Source(t)
        BY <1>4, <2>1, <4>1 DEF Spent
      <4>2. CASE a # Source(t)
        <5>1. balance'[a] = balance[a] /\ Spent(t, a) = 0 /\ balance[a] \in Int
          BY <1>4, <2>1, <4>2 DEF Spent
        <5> QED BY <5>1
      <4> QED BY <4>1, <4>2
    <3> HIDE DEF f, e
    <3>5. SumFunctionOnSet(e, Debited) = SumFunctionOnSet(f, Debited)
      BY <1>2, <3>1, SumAgrees
    <3>6. SumFunctionOnSet(e, Debited \cup {t}) = SumFunctionOnSet(e, Debited) + e[t]
      <4>1. (\A u \in Debited : e[u] \in Int) /\ e[t] \in Int
        BY <3>1, <3>2
      <4> QED BY <1>2, <2>2, <4>1, SumWith
    <3>7. SumFunctionOnSet(f, Debited) \in Int
      BY <1>2, <3>1, SumType
    <3>8. balance'[a] = InitialBalance + SumFunctionOnSet(e, Debited \cup {t})
      BY <1>4, <3>2, <3>3, <3>4, <3>5, <3>6, <3>7
    <3> QED BY <3>8 DEF e
  <2> QED BY <1>2, <1>3, <2>1, <2>2, <2>4, <2>5, <2>6 DEF BalanceInv
\* One destination is credited with its amount.
<1>15. CASE Credit(t)
  <2> DEFINE d == Destinations(t)[at[t]]
  <2>1. /\ step[t] = "credit" /\ at[t] \in DOMAIN Amounts(t) /\ at[t] \in DOMAIN Destinations(t)
        /\ balance' = [balance EXCEPT ![d] = @ + Amounts(t)[at[t]]]
        /\ NextOf(t, Destinations(t), "credit", "record")
        /\ transactions' = transactions
    BY <1>15 DEF Credit, At, AmountAt, TypeInv, StepInv
  <2>2. \/ at[t] < Len(Destinations(t)) /\ step'[t] = "credit" /\ at'[t] = at[t] + 1
        \/ at[t] >= Len(Destinations(t)) /\ step'[t] = "record"
    <3>1. "credit" \in Steps /\ "record" \in Steps
      BY DEF Steps
    <3>2. Len(Destinations(t)) \in Nat /\ Len(Destinations(t)) <= Len(Rows(t))
      BY <1>3, RequestType
    <3> QED BY <1>3, <2>1, <3>1, <3>2, NextOfType
  <2>3. Debited' = Debited /\ t \in Debited /\ Recorded' = Recorded
    BY <1>3, <2>1, <2>2 DEF Debited
  <2>4. \A a \in Account :
           /\ Credited(t, a)' = Credited(t, a) \cup {i \in {at[t]} : d = a}
           /\ at[t] \notin Credited(t, a)
    <3>1. Destinations(t) \in Seq(Account) /\ at[t] \in Nat
      BY <1>3, <1>4, RequestType
    <3>2. \A i \in DOMAIN Destinations(t) :
             (step'[t] = "credit" => i < at'[t]) <=> (i < at[t] \/ i = at[t])
      BY <2>1, <2>2, <3>1
    <3> QED BY <2>1, <3>1, <3>2 DEF Credited, To
  <2>5. \A u \in Debited' : Covered(u)'
    <3>1. \A u \in Debited : u # t => Covered(u)'
      BY <1>2, <1>4, <1>5
    <3>2. Covered(t)'
      BY <1>2, <2>1, <2>3, <2>4
    <3> QED BY <2>3, <3>1, <3>2
  <2>6. Amounts(t) \in Seq(Int)
    BY <1>3, RequestType
  <2> HIDE DEF d
  <2>7. ASSUME NEW a \in Stored
        PROVE  balance'[a] = InitialBalance
                  + SumFunctionOnSet([u \in todo |-> Moved(u, a)'], Debited)
    <3> DEFINE f == [u \in todo |-> Moved(u, a)]
               e == [u \in todo |-> Moved(u, a)']
               n == IF d = a THEN Amounts(t)[at[t]] ELSE 0
    <3>1. n \in Int /\ a \in Account
      BY <1>4, <2>1, <2>6
    <3>2. Credited(t, a) \subseteq DOMAIN Amounts(t) /\ IsFiniteSet(Credited(t, a))
          /\ SumFunctionOnSet(Amounts(t), Credited(t, a)) \in Int
      <4>1. Credited(t, a) \subseteq DOMAIN Amounts(t)
        BY <1>2, <2>3, <3>1
      <4>2. Credited(t, a) \subseteq DOMAIN Destinations(t)
        BY DEF Credited, To
      <4> QED BY <1>3, <4>1, <4>2, CreditType
    <3>3. SumFunctionOnSet(Amounts(t), Credited(t, a)')
             = SumFunctionOnSet(Amounts(t), Credited(t, a)) + n
      <4>1. CASE d # a
        <5>1. Credited(t, a)' = Credited(t, a)
          BY <2>4, <3>1, <4>1
        <5> QED BY <3>2, <4>1, <5>1
      <4>2. CASE d = a
        <5>1. Credited(t, a)' = Credited(t, a) \cup {at[t]} /\ at[t] \notin Credited(t, a)
          BY <2>4, <3>1, <4>2
        <5>2. (\A i \in Credited(t, a) : Amounts(t)[i] \in Int) /\ Amounts(t)[at[t]] \in Int
          BY <2>1, <2>6, <3>2
        <5>3. SumFunctionOnSet(Amounts(t), Credited(t, a) \cup {at[t]})
                 = SumFunctionOnSet(Amounts(t), Credited(t, a)) + Amounts(t)[at[t]]
          BY <3>2, <5>1, <5>2, SumWith
        <5> QED BY <4>2, <5>1, <5>3
      <4> QED BY <4>1, <4>2
    <3>4. e[t] = f[t] + n
      <4>1. /\ Moved(t, a)' = SumFunctionOnSet(Amounts(t), Credited(t, a)') - Spent(t, a)
            /\ Moved(t, a) = SumFunctionOnSet(Amounts(t), Credited(t, a)) - Spent(t, a)
            /\ Spent(t, a) \in Int
        BY <1>3, SpentType DEF Moved
      <4>2. Moved(t, a)' = Moved(t, a) + n
        <5> HIDE DEF n
        <5> QED BY <3>1, <3>2, <3>3, <4>1
      <4> HIDE DEF n
      <4> QED BY <4>2
    <3>5. \A u \in Debited \ {t} : e[u] = f[u]
      <4>1. \A u \in Debited \ {t} : u \in todo /\ Credited(u, a)' = Credited(u, a)
        BY <1>4, <1>5, <3>1
      <4>2. \A u \in Debited \ {t} : Moved(u, a)' = Moved(u, a)
        BY <4>1 DEF Moved
      <4> QED BY <4>1, <4>2
    <3>6. \A u \in Debited : f[u] \in Int
      BY <1>4, <1>6
    <3>7. balance[a] = InitialBalance + SumFunctionOnSet(f, Debited)
      BY <1>2
    <3>8. balance'[a] = balance[a] + n
      <4>1. CASE d = a
        BY <1>4, <2>1, <4>1
      <4>2. CASE d # a
        <5>1. balance'[a] = balance[a] /\ balance[a] \in Int
          BY <1>4, <2>1, <4>2
        <5> QED BY <4>2, <5>1
      <4> QED BY <4>1, <4>2
    <3> HIDE DEF f, e, n
    <3>9. \A u \in Debited : f[u] \in Int /\ e[u] \in Int
      BY <3>1, <3>4, <3>5, <3>6
    <3>10. SumFunctionOnSet(e, Debited) = SumFunctionOnSet(f, Debited) + e[t] - f[t]
      BY <1>2, <2>3, <3>5, <3>9, SumChanges
    <3>11. SumFunctionOnSet(f, Debited) \in Int /\ f[t] \in Int
      BY <1>2, <2>3, <3>6, SumType
    <3>12. balance'[a] = InitialBalance + SumFunctionOnSet(e, Debited)
      BY <1>4, <3>1, <3>4, <3>7, <3>8, <3>10, <3>11
    <3> QED BY <3>12 DEF e
  <2> QED BY <1>2, <1>3, <2>1, <2>3, <2>5, <2>7 DEF BalanceInv
<1> QED BY <1>1, <1>8, <1>9, <1>10, <1>11, <1>12, <1>13, <1>14, <1>15 DEF Call

LEMMA BalanceInvariant == Spec => []BalanceInv
<1>1. Init => BalanceInv
  <2> SUFFICES ASSUME Init PROVE BalanceInv
    OBVIOUS
  <2>1. Debited = {} /\ transactions = {t \in todo : step[t] \in {"unlock", "done"}}
    BY DEF Init, Debited
  <2>2. \A a \in Stored : balance[a] = InitialBalance + 0
    BY MultiDestAssumption DEF Init
  <2>3. \A a : SumFunctionOnSet([t \in todo |-> Moved(t, a)], {}) = 0
    BY SumOfNothing
  <2> QED BY <2>1, <2>2, <2>3, FS_EmptySet DEF BalanceInv
<1>2. TypeInv /\ BalanceInv /\ [Next]_vars => BalanceInv'
  <2>1. CASE UNCHANGED vars
    BY <2>1 DEF vars, db, BalanceInv, Debited, Credited, Moved
  <2>2. CASE Next
    BY <2>2, BalanceStep DEF Next
  <2> QED BY <2>1, <2>2
<1> QED BY <1>1, <1>2, TypeInvariant, PTL DEF Spec

\* Whenever nobody is between its debit and its record, the balances are those of the
\* recorded transfers, each applied once.
THEOREM OutcomeIsExactHolds == Spec => []OutcomeIsExact
<1>1. TypeInv /\ BalanceInv => OutcomeIsExact
  <2> SUFFICES ASSUME TypeInv, BalanceInv, errors = 0,
                      \A t \in todo : step[t] \notin {"credit", "record"},
                      NEW a \in Stored
               PROVE  balance[a] = InitialBalance
                         + SumFunctionOnSet([t \in todo |-> Effect(t, a)], transactions)
    BY DEF OutcomeIsExact
  <2> DEFINE f == [t \in todo |-> Moved(t, a)]
             e == [t \in todo |-> Effect(t, a)]
  <2>1. /\ Debited = transactions /\ IsFiniteSet(Debited) /\ Debited \subseteq todo
        /\ todo \subseteq Tx /\ a \in Account
    BY MultiDestAssumption DEF BalanceInv, Debited, TypeInv, TypeOK
  <2>2. \A t \in Debited : f[t] \in Int /\ e[t] = f[t]
    <3> TAKE t \in Debited
    <3>1. Credited(t, a) = To(t, a)
      BY <2>1 DEF Credited
    <3>2. Moved(t, a) = Effect(t, a)
      BY <3>1 DEF Moved, Effect
    <3>3. Moved(t, a) \in Int
      BY <2>1, MovedType DEF BalanceInv
    <3> QED BY <2>1, <3>2, <3>3
  <2>3. balance[a] = InitialBalance + SumFunctionOnSet(f, Debited)
    BY DEF BalanceInv
  <2> HIDE DEF f, e
  <2>4. SumFunctionOnSet(e, Debited) = SumFunctionOnSet(f, Debited)
    BY <2>1, <2>2, SumAgrees
  <2> QED BY <2>1, <2>3, <2>4 DEF e
<1> QED BY <1>1, TypeInvariant, BalanceInvariant, PTL

=============================================================================
