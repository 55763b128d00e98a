----------------------------- MODULE MCFsBlocks -----------------------------
(* Bounds and call sets for checking FsBlocks with TLC.                    *)
EXTENDS FsBlocks

\* A call record: op, inode, offset, length, byte value, user address.
Call(op, ip, off, n, v) ==
  [op |-> op, ip |-> ip, off |-> off, n |-> n, v |-> v, user |-> TRUE, tot |-> 0, off0 |-> off]

\* Writes at the start, inside the direct/indirect range and at the doubly-
\* indirect range, of a block, a file's worth, and a length that wraps a
\* 4-bit uint; reads of part and of all of a file; truncation.
MCCalls ==
  {Call("writei", ip, off, n, v) : ip \in Inums, off \in {0, 3, 6}, n \in {2, 8, 15}, v \in Vals}
  \cup {Call("readi", ip, off, n, 0) : ip \in Inums, off \in {0, 3}, n \in {3, 15}}
  \cup {Call("itrunc", ip, 0, 0, 0) : ip \in Inums}

=============================================================================
