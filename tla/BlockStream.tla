---------------------------- MODULE BlockStream ----------------------------
(***************************************************************************)
(* The bytes of a chain: get_blocks_data, save, load and load_blocks_data  *)
(* of class Blockchain, _convert_to_bytes and from_bytes of class Block.   *)
(*                                                                         *)
(* blockchain.bin may have been torn by a crash, and another request       *)
(* worker may have written its chain into the file since this one opened   *)
(* it.  What does the next start read?                                     *)
(*                                                                         *)
(* The JSON of a block, its hash and its signature are texts, whose        *)
(* letters (base64) are none of the three delimiters.                      *)
(***************************************************************************)
EXTENDS Integers, Sequences

CONSTANTS
  Letters,
  START, END, EOF,   \* the delimiters of Variables
  Chains,            \* the chains that are saved (an empty one is not:
                     \* last_block_number raises)
  Others             \* the chains another worker may save meanwhile

Texts == Seq(Letters)

\* A block: its data, hash and signature.
Block == [1 .. 3 -> Texts]

ASSUME BlockStreamAssumption ==
  /\ Letters \cap {START, END, EOF} = {}
  /\ START # END /\ START # EOF /\ END # EOF
  /\ Chains \subseteq Seq(Block) \ {<<>>}
  /\ Others \subseteq Seq(Block) \ {<<>>}

Byte == Letters \cup {START, END, EOF}

\* _convert_to_bytes
ToBytes(b) ==
  <<START>> \o b[1] \o <<END, START>> \o b[2] \o <<END, START>> \o b[3] \o <<END, EOF>>

VARIABLES
  pc,          \* "serialise", "write", "read", "parse", "done", "raise"
  chain,       \* the chain that is saved
  stream,      \* baos: its bytes as far as they are collected
  ends,        \* where the blocks collected so far end in it
  file,        \* blockchain.bin
  other,       \* the chain another worker saves meanwhile, or <<>>
  otherStream, \* its bytes as far as they are collected
  otherEnds,   \* where its blocks end in them
  place,       \* how many bytes load_blocks_data has read
  buffer,      \* those since the last EOF
  out,         \* the blocks it has added
  at,          \* how many bytes of the buffer from_bytes has looked at
  blocks,      \* the texts it has found
  current,
  recording

mine == <<chain, stream, ends>>
others == <<other, otherStream, otherEnds>>
saved == <<mine, others, file>>
parser == <<at, blocks, current, recording>>
vars == <<pc, saved, place, buffer, out, parser>>

TypeOK ==
  /\ pc \in {"serialise", "write", "read", "parse", "done", "raise"}
  /\ chain \in Seq(Block)
  /\ other \in Seq(Block)
  /\ stream \in Seq(Byte)
  /\ ends \in Seq(1 .. Len(stream))
  /\ otherStream \in Seq(Byte)
  /\ otherEnds \in Seq(1 .. Len(otherStream))
  /\ file \in Seq(Byte)
  /\ place \in 0 .. Len(file)
  /\ buffer \in Seq(Byte)
  /\ out \in Seq([block : Block, bytes : Seq(Byte)])
  /\ at \in 0 .. Len(buffer)
  /\ blocks \in Seq(Texts)
  /\ current \in Texts
  /\ recording \in BOOLEAN

ParserIdle == at = 0 /\ blocks = <<>> /\ current = <<>> /\ recording = FALSE
ParserReset == at' = 0 /\ blocks' = <<>> /\ current' = <<>> /\ recording' = FALSE

Init ==
  /\ pc = "serialise"
  /\ chain \in Chains
  /\ stream = <<>> /\ ends = <<>>
  /\ other = <<>> /\ otherStream = <<>> /\ otherEnds = <<>>
  /\ file = <<>>
  /\ place = 0 /\ buffer = <<>> /\ out = <<>>
  /\ ParserIdle

-----------------------------------------------------------------------------
(* save *)

\* The loop of get_blocks_data.
Extend ==
  /\ pc = "serialise"
  /\ Len(ends) < Len(chain)
  /\ stream' = stream \o ToBytes(chain[Len(ends) + 1])
  /\ ends' = Append(ends, Len(stream'))
  /\ UNCHANGED <<pc, chain, others, file, place, buffer, out, parser>>

\* open(filepath, 'wb')
Open ==
  /\ pc = "serialise"
  /\ Len(ends) = Len(chain)
  /\ pc' = "write"
  /\ file' = <<>>
  /\ UNCHANGED <<mine, others, place, buffer, out, parser>>

\* Another worker, which opens the file as well, saves its chain: the loop of
\* get_blocks_data, and its bytes.
BeginOther ==
  /\ pc = "write"
  /\ other = <<>>
  /\ other' \in Others
  /\ UNCHANGED <<pc, mine, otherStream, otherEnds, file, place, buffer, out, parser>>

ExtendOther ==
  /\ pc = "write"
  /\ Len(otherEnds) < Len(other)
  /\ otherStream' = otherStream \o ToBytes(other[Len(otherEnds) + 1])
  /\ otherEnds' = Append(otherEnds, Len(otherStream'))
  /\ UNCHANGED <<pc, mine, other, file, place, buffer, out, parser>>

WriteOther ==
  /\ pc = "write"
  /\ Len(otherEnds) = Len(other)
  /\ file' = otherStream
  /\ UNCHANGED <<pc, mine, others, place, buffer, out, parser>>

\* All the bytes are written, over those of the other worker if there is one.
\* (Had it written later, the two would change places.)
Write ==
  /\ pc = "write"
  /\ file = otherStream /\ Len(otherEnds) = Len(other)
  /\ file' = stream \o SubSeq(file, Len(stream) + 1, Len(file))
  /\ pc' = "read"
  /\ UNCHANGED <<mine, others, place, buffer, out, parser>>

\* A crash tears the file.
Tear ==
  /\ pc = "write"
  /\ other = <<>>
  /\ \E k \in 0 .. Len(stream) : file' = SubSeq(stream, 1, k)
  /\ pc' = "read"
  /\ UNCHANGED <<mine, others, place, buffer, out, parser>>

-----------------------------------------------------------------------------
(* load *)

\* The loop of load_blocks_data: up to an EOF, for which from_bytes is called.
ReadByte ==
  /\ pc = "read"
  /\ place < Len(file)
  /\ place' = place + 1
  /\ buffer' = Append(buffer, file[place'])
  /\ pc' = IF file[place'] = EOF THEN "parse" ELSE "read"
  /\ UNCHANGED <<saved, out, parser>>

\* What comes after the last EOF is left aside.
Finish ==
  /\ pc = "read"
  /\ place = Len(file)
  /\ pc' = "done"
  /\ UNCHANGED <<saved, place, buffer, out, parser>>

\* The loop of from_bytes, up to the EOF.
Parsing(byte) ==
  /\ pc = "parse"
  /\ at < Len(buffer)
  /\ buffer[at + 1] = byte
  /\ at' = at + 1
  /\ UNCHANGED <<pc, saved, place, buffer, out>>

ParseStart ==
  /\ Parsing(START)
  /\ current' = <<>>
  /\ recording' = TRUE
  /\ UNCHANGED blocks

\* Mutant: an END ends a text even if none has begun.
ParseEndAlways ==
  /\ Parsing(END)
  /\ blocks' = Append(blocks, current)
  /\ recording' = FALSE
  /\ UNCHANGED current

ParseEnd ==
  /\ Parsing(END)
  /\ blocks' = IF recording THEN Append(blocks, current) ELSE blocks
  /\ recording' = FALSE
  /\ UNCHANGED current

ParseLetter ==
  /\ \E a \in Letters :
       /\ Parsing(a)
       /\ current' = IF recording THEN Append(current, a) ELSE current
  /\ UNCHANGED <<blocks, recording>>

AtEOF == pc = "parse" /\ at < Len(buffer) /\ buffer[at + 1] = EOF

\* Mutants: the texts are not counted, the buffer is not emptied.
AddBlockAny ==
  /\ AtEOF
  /\ out' = Append(out, [block |-> blocks, bytes |-> buffer])
  /\ pc' = "read"
  /\ buffer' = <<>>
  /\ ParserReset
  /\ UNCHANGED <<saved, place>>

AddBlockOn ==
  /\ AtEOF
  /\ Len(blocks) = 3
  /\ out' = Append(out, [block |-> blocks, bytes |-> buffer])
  /\ pc' = "read"
  /\ ParserReset
  /\ UNCHANGED <<saved, place, buffer>>

\* Three texts are a block, which keeps the bytes it was made from; the buffer
\* is emptied.
AddBlock ==
  /\ AtEOF
  /\ Len(blocks) = 3
  /\ out' = Append(out, [block |-> blocks, bytes |-> buffer])
  /\ pc' = "read"
  /\ buffer' = <<>>
  /\ ParserReset
  /\ UNCHANGED <<saved, place>>

\* The checks of Blockchain.add fail, or FileList.remove does, when the block is
\* in already: the exception ends the load.  The blocks of the chain have passed
\* them before, one after the other (when they do again is for Ledger to say).
Refuse ==
  /\ AtEOF
  /\ Len(blocks) = 3
  /\ ~(Len(out) < Len(chain) /\ blocks = chain[Len(out) + 1])
  /\ out' \in {out, Append(out, [block |-> blocks, bytes |-> buffer])}
  /\ pc' = "raise"
  /\ UNCHANGED <<saved, place, buffer, parser>>

\* ValueError: Malformed byte structure.
Malformed ==
  /\ AtEOF
  /\ Len(blocks) # 3
  /\ pc' = "raise"
  /\ UNCHANGED <<saved, place, buffer, out, parser>>

-----------------------------------------------------------------------------

Save == Extend \/ Open \/ BeginOther \/ ExtendOther \/ WriteOther \/ Write \/ Tear
Load ==
  \/ ReadByte
  \/ Finish
  \/ ParseStart
  \/ ParseEnd
  \/ ParseLetter
  \/ AddBlock
  \/ Refuse
  \/ Malformed

Next == Save \/ Load

Spec == Init /\ [][Next]_vars

-----------------------------------------------------------------------------
(* Properties *)

\* Blocks that are as they were when they were made, and would be saved with
\* the same bytes again.
Loaded(c) == [k \in DOMAIN c |-> [block |-> c[k], bytes |-> ToBytes(c[k])]]

\* How many blocks of the chain the file has to its end: k.
HasWhole(k) ==
  /\ k = 0 \/ ends[k] <= Len(file)
  /\ k = Len(chain) \/ Len(file) < ends[k + 1]

\* Wherever a crash has torn the file: what is loaded from it are the blocks
\* that are whole in it, and it never raises.
LoadsWholeBlocks ==
  other = <<>> =>
    /\ pc # "raise"
    /\ pc = "done" =>
         \E k \in 0 .. Len(chain) : HasWhole(k) /\ out = Loaded(SubSeq(chain, 1, k))

\* Over the bytes of another worker: the chain is loaded, and after it whole
\* blocks of the other one, as many as are not refused; if that one is cut within
\* a block, the load raises there.  No block is made of parts of two.
NothingInvented ==
  other # <<>> =>
    /\ pc = "raise" =>
         \E m \in 1 .. Len(other) + 1 : \E j \in m - 1 .. Len(other) :
           out = Loaded(chain \o SubSeq(other, m, j))
    /\ pc = "done" =>
         \E m \in 1 .. Len(other) + 1 :
           out = Loaded(chain \o SubSeq(other, m, Len(other)))
=============================================================================
