------------------------------ MODULE BlockLog ------------------------------
(***************************************************************************)
(* The block log of cmd/dyld/persist.go: an append-only file, one block    *)
(* per line, behind a bufio.Writer.                                        *)
(*                                                                         *)
(* The file is the sequence of the pieces that were written to it: the     *)
(* text of a block, a newline, or a part of a text, which is no JSON.  A   *)
(* write(2) is one step: a process that is killed has made it or has not.  *)
(* A machine that goes down may lose the end of the file, at any byte.     *)
(***************************************************************************)
EXTENDS Naturals, SequencesExt

CONSTANTS
    Long   \* sizes of block whose text does not fit the writer's 4096 bytes

Line(b) == [piece |-> "block", block |-> b]
Newline == [piece |-> "newline"]
Partial == [piece |-> "part"]

\* A line and its newline leave in one write when they fit the buffer.  A line
\* that does not is written directly, and its newline by the Flush that follows.
OneWrite(b) == Len(b.txs) \notin Long

\* Every line holds one whole block, or nothing.  The last may lack its newline.
Parses(file) ==
    \A i \in DOMAIN file :
        /\ file[i] # Partial
        /\ i > 1 => file[i] = Newline \/ file[i-1] = Newline

\* read: the blocks of the file in their order.
Blocks(file) ==
    LET read[i \in 0..Len(file)] ==
            IF i = 0 THEN <<>>
            ELSE IF file[i].piece = "block" THEN Append(read[i-1], file[i].block)
            ELSE read[i-1]
    IN  read[Len(file)]

\* The files a machine that goes down may leave: what the disk had already got.
Survivors(file) ==
    {SubSeq(file, 1, k) : k \in 0..Len(file)}
    \cup {Append(SubSeq(file, 1, k), Partial) : k \in {k \in 0..(Len(file)-1) : file[k+1] # Newline}}
=============================================================================
