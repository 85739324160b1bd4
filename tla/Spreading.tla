----------------------------- MODULE Spreading -----------------------------
(***************************************************************************)
(* What the transfer of a file promises: the file of a node only ever      *)
(* grows, by the next chunk of a node that has more of it.                 *)
(***************************************************************************)
EXTENDS Naturals, Sequences

CONSTANTS
  Nodes,
  Origin,    \* the node the file is uploaded to
  Original,  \* its bytes
  ChunkSize

VARIABLE
  file       \* what every node has of it

Init == file = [n \in Nodes |-> IF n = Origin THEN Original ELSE <<>>]

\* The chunk of f that starts at a place; the last one may be shorter.
ChunkAt(f, start) ==
  SubSeq(f, start, IF start + ChunkSize - 1 < Len(f) THEN start + ChunkSize - 1
                   ELSE Len(f))

Copy(n, m) ==
  /\ Len(file[n]) < Len(file[m])
  /\ file' = [file EXCEPT ![n] = @ \o ChunkAt(file[m], Len(@) + 1)]

Next == \E n, m \in Nodes : Copy(n, m)

Spec == Init /\ [][Next]_file
=============================================================================
