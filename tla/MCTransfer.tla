----------------------------- MODULE MCTransfer -----------------------------
(***************************************************************************)
(* Small instances of Transfer for TLC.                                    *)
(***************************************************************************)
EXTENDS Transfer, TLC

CONSTANTS n1, n2, n3

\* Everybody has everybody else in the node list.
Everybody == [n \in Nodes |-> Nodes \ {n}]

\* n1 has invited n2, which has invited n3.
Line == (n1 :> {n2}) @@ (n2 :> {n3}) @@ (n3 :> {})

\* n1 has invited both, n2 first: n3 hears of a chunk from two nodes.
Fork == (n1 :> {n2, n3}) @@ (n2 :> {n3}) @@ (n3 :> {})

NoCrash == [n \in Nodes |-> 0]
CrashInTheMiddle == [n \in Nodes |-> IF n = n2 THEN 1 ELSE 0]
=============================================================================
