--------------------------- MODULE MCBlockStream ---------------------------
(***************************************************************************)
(* Small instances of BlockStream for TLC.                                 *)
(***************************************************************************)
EXTENDS BlockStream, SequencesExt

CONSTANTS a, b

\* Blocks of two lengths; texts that are in two of them.
SomeBlocks ==
  {<<<<a>>, <<a>>, <<b>>>>, <<<<b>>, <<a>>, <<b>>>>, <<<<b>>, <<a>>, <<a, b>>>>,
   <<<<a, b>>, <<b>>, <<a>>>>}

UpToThree == BoundedSeq(SomeBlocks, 3) \ {<<>>}
=============================================================================
