------------------------------ MODULE MCLedger ------------------------------
(***************************************************************************)
(* Small instances of Ledger for TLC.                                      *)
(***************************************************************************)
EXTENDS LedgerInvariants, TLC

\* Every node has its own public key where get_key looks for it: a handler of
\* runserver has fetched it from another thread, and the process has then crashed
\* before it saved a chain.
OwnKey == [n \in Nodes |-> {n}]
\* As installed: a node's own key is in localkey.pem only.
NoKeys == [n \in Nodes |-> {}]
\* One node has come to its own public key like that, the others have not.
OneKey == [n \in Nodes |-> IF n = CHOOSE m \in Nodes : TRUE THEN {n} ELSE {}]

OneTime == {1}
TwoTimes == {1, 2}

SymmetricNodes == Permutations(Nodes)
SymmetricWorkers == Permutations(Workers)
=============================================================================
