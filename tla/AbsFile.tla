------------------------------ MODULE AbsFile ------------------------------
(***************************************************************************)
(* What the inode layer promises for file contents (spec 4.F and its       *)
(* round-trip requirement): a file is a sequence of bytes; a write at an   *)
(* offset no further than the end replaces bytes and may extend the file;  *)
(* truncation empties it.  Reads change nothing.  Blocks, the block map    *)
(* and the bitmap are left out.                                            *)
(***************************************************************************)
EXTENDS Integers, Sequences

CONSTANTS Inums, Vals, MaxSize

VARIABLE content   \* content[ip]: the bytes of file ip, byte o at index o+1

Init == content = [ip \in Inums |-> <<>>]

\* Bytes lo .. hi-1 of file ip take value v; lo is at most the file's length.
Write(ip, lo, hi, v) ==
  LET len == IF hi > Len(content[ip]) THEN hi ELSE Len(content[ip])
  IN /\ lo <= Len(content[ip])
     /\ lo < hi /\ hi <= MaxSize
     /\ content' = [content EXCEPT ![ip] =
                      [k \in 1 .. len |-> IF lo < k /\ k <= hi THEN v ELSE content[ip][k]]]

\* The file loses all its bytes.
Truncate(ip) == content' = [content EXCEPT ![ip] = <<>>]

Next ==
  \E ip \in Inums :
    /\ content'[ip] # content[ip]
    /\ \/ Truncate(ip)
       \/ \E lo \in 0 .. Len(content[ip]), hi \in 0 .. MaxSize, v \in Vals : Write(ip, lo, hi, v)

Spec == Init /\ [][Next]_content

=============================================================================
