--------------------------- MODULE MCPbftCluster ---------------------------
(***************************************************************************)
(* Instances of PbftCluster for TLC.  The workloads are the situations of  *)
(* the CSV test sets in the small: transfers between different accounts,   *)
(* transfers that follow one another on the same account, an amount above  *)
(* the balance, a mute server, and a transfer between two blocks of 1000.  *)
(***************************************************************************)
EXTENDS PbftClusterProperties, TLC

CONSTANTS s1, s2, s3, s4, a1, a2, a3, t1, t2, t3, t4, t5, t6

MCShard == [a \in Account |-> IF a = a3 THEN 2 ELSE 1]

Ask(from, to, amount, contact, active, byzantine) ==
    [source |-> from, destination |-> to, amount |-> amount, contact |-> contact,
     active |-> active, byzantine |-> byzantine]

All      == <<s1, s2, s3, s4>>
AllButS4 == <<s1, s2, s3>>

\* The leader is the contact. s4 is mute for t1 and t2, which touch different
\* accounts (t2 is a transfer of an account to itself); t3 has four honest servers,
\* and so more prepares than the quorum; t4 uses the accounts of t1 again. t5 leaves
\* s4 out, so that s4 gets the decision on t6 and can never execute it.
HealthyRequest ==
    (t1 :> Ask(a1, a2, 8, s1, All, {s4})) @@ (t2 :> Ask(a3, a3, 5, s1, All, {s4}))
    @@ (t3 :> Ask(a1, a2, 8, s1, All, {})) @@ (t4 :> Ask(a2, a1, 2, s1, All, {s4}))
    @@ (t5 :> Ask(a1, a2, 1, s1, AllButS4, {})) @@ (t6 :> Ask(a3, a3, 5, s1, All, {s3}))
HealthyScripts == {<<t1, t2>>, <<t3>>, <<t5, t6>>}

\* t2 spends what t1 brings, t3 asks for more than there is, t4 crosses a block, t5
\* has nothing to do with t1 and is agreed on at the same time.
FaultyRequest ==
    (t1 :> Ask(a1, a2, 5, s1, AllButS4, {})) @@ (t2 :> Ask(a2, a1, 15, s1, AllButS4, {}))
    @@ (t3 :> Ask(a1, a2, 17, s1, AllButS4, {})) @@ (t4 :> Ask(a2, a3, 1, s1, AllButS4, {}))
    @@ (t5 :> Ask(a3, a3, 5, s1, AllButS4, {}))
FaultyScripts == {<<t1, t2>>, <<t3, t1>>, <<t4, t1>>, <<t1, t5>>}

\* The contact server is not the leader, so the leader sends itself a prepare.
OffLeaderRequest ==
    (t1 :> Ask(a1, a2, 8, s2, All, {s4})) @@ (t2 :> Ask(a2, a1, 2, s2, All, {s4}))
    @@ (t3 :> Ask(a3, a3, 5, s2, All, {s4})) @@ (t4 :> Ask(a3, a3, 5, s2, All, {}))
OffLeaderScripts == {<<t1, t2>>, <<t1, t3>>, <<t4>>}

\* One transfer at a time for the documented claims.
OneTransfer == {<<t1>>}
OneHonestTransfer == {<<t3>>}
SameAccountTwice == {<<t1, t4>>}

=============================================================================
