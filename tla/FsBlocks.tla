------------------------------ MODULE FsBlocks ------------------------------
(***************************************************************************)
(* The block layer of kernel/fs.c (src/unnamed/part_000): the bitmap       *)
(* allocator balloc/bfree (52-104), the block map bmap with its direct,    *)
(* singly- and doubly-indirect levels (379-434), itrunc (442-490) and the  *)
(* byte transfers readi/writei (509-574).                                  *)
(*                                                                         *)
(* The caller holds the inode's sleep-lock, so the calls on one inode run  *)
(* one after the other; balloc and bfree hold the bitmap block's buffer    *)
(* lock, so each is atomic.  One process makes the calls.  What another    *)
(* CPU can do meanwhile is the reuse of a released buffer: the bytes bmap  *)
(* reads from a buffer after brelse (line 422) are those of the block the  *)
(* buffer was reused for, unless log_write pinned it in this transaction.  *)
(*                                                                         *)
(* A block's contents are seen two ways: as an array of uint block         *)
(* numbers (tbl) when it is an indirect block and as bytes (data) when it  *)
(* holds file data.  balloc's bzero clears both.  Block 0 (the boot        *)
(* block, never in the bitmap) has a tbl too: a zero read from a reused    *)
(* buffer makes bmap use it.                                               *)
(***************************************************************************)
EXTENDS Integers, Sequences, FiniteSets

CONSTANTS
  NDIRECT, NINDIRECT,  \* direct entries in addrs; entries of an indirect block
  BSIZE,               \* bytes per block
  UINT_BITS,           \* width of uint, the type of off and n
  NBLOCK,              \* the data blocks are 1 .. NBLOCK
  Inums,               \* the inodes whose contents are read and written
  Vals,                \* the byte values a caller writes (0 is bzero's)
  Calls,               \* the calls the process may make
  MaxCalls,            \* the number of calls the process makes
  RecycleReleased      \* may a released, unpinned buffer be reused by another CPU

MAXFILE == NDIRECT + NINDIRECT + NINDIRECT * NINDIRECT
UINT == 2 ^ UINT_BITS
Blocks == 1 .. NBLOCK
Ptr == 0 .. NBLOCK          \* a block number, 0 for "not allocated"

ASSUME MAXFILE * BSIZE < UINT

VARIABLES
  bitmap,    \* the blocks whose bitmap bit is set
  addrs,     \* addrs[ip][k], k \in 0 .. NDIRECT+1: ip->addrs
  tbl,       \* tbl[b][j]: uint j of block b
  data,      \* data[b][k]: byte k of block b
  size,      \* size[ip]: ip->size
  pinned,    \* blocks log_write pinned in the buffer cache this transaction
  pc,        \* "idle", a loop label, or "panic"
  cur,       \* the call in progress: op, ip, off, n, tot, v, user, off0
  buf,       \* the bytes readi has copied out so far
  ret,       \* the value the last call returned
  ncalls,    \* calls made
  why        \* the message of the panic, or "none"

vars == <<bitmap, addrs, tbl, data, size, pinned, pc, cur, buf, ret, ncalls, why>>

ZeroTbl == [j \in 0 .. NINDIRECT - 1 |-> 0]
ZeroData == [k \in 0 .. BSIZE - 1 |-> 0]
Least(S) == CHOOSE x \in S : \A y \in S : x <= y
MinOf(x, y) == IF x < y THEN x ELSE y

-----------------------------------------------------------------------------
(* bmap works on a record S of the state it changes: bm (bitmap), ad      *)
(* (the inode's addrs), tb, dt, pn (pinned), the block it returns (addr)  *)
(* and err, the panic it ends in.                                          *)

\* balloc with the scan of blocks starting at 0, the reserved boot block.
BallocFromZero(S) ==
  IF Ptr \ S.bm = {} THEN [S EXCEPT !.err = "balloc: out of blocks", !.new = 0]
  ELSE LET b == Least(Ptr \ S.bm)
       IN [S EXCEPT !.bm = @ \cup {b}, !.tb[b] = ZeroTbl, !.dt[b] = ZeroData,
                    !.pn = @ \cup {b}, !.new = b]

\* balloc: the first clear bit is set and the block is zeroed by bzero,
\* whose log_write pins it; no clear bit is a panic.
Balloc(S) ==
  IF Blocks \ S.bm = {} THEN [S EXCEPT !.err = "balloc: out of blocks", !.new = 0]
  ELSE LET b == Least(Blocks \ S.bm)
       IN [S EXCEPT !.bm = @ \cup {b}, !.tb[b] = ZeroTbl, !.dt[b] = ZeroData,
                    !.pn = @ \cup {b}, !.new = b]

\* "if((addr = ip->addrs[k]) == 0) ip->addrs[k] = addr = balloc(ip->dev)":
\* the inode's own entry k, allocated on demand; the inode is not a buffer,
\* so nothing is logged.
AddrOf(S, k) ==
  IF S.ad[k] # 0 THEN S
  ELSE LET T == Balloc(S) IN [T EXCEPT !.ad[k] = T.new]

\* Entry j of indirect block t, allocated on demand and the block logged.
EntryOf(S, t, j) ==
  IF S.tb[t][j] # 0 THEN [S EXCEPT !.new = S.tb[t][j]]
  ELSE LET T == Balloc(S)
       IN [T EXCEPT !.tb[t][j] = T.new, !.pn = @ \cup {t}]
\* bmap with the inner index computed as k / NINDIRECT.
BmapSet_swapIdx(S, bn) ==
  IF bn < NDIRECT THEN
    LET T == AddrOf(S, bn) IN {[T EXCEPT !.addr = T.ad[bn]]}
  ELSE IF bn - NDIRECT < NINDIRECT THEN
    LET T1 == AddrOf(S, NDIRECT)
        T2 == EntryOf(T1, T1.ad[NDIRECT], bn - NDIRECT)
    IN {[T2 EXCEPT !.addr = T2.new]}
  ELSE
    LET k == bn - NDIRECT - NINDIRECT
        singlyIndirect == k \div NINDIRECT
        i == k \div NINDIRECT
        T1 == AddrOf(S, NDIRECT + 1)
        dubly == T1.ad[NDIRECT + 1]
    IN IF singlyIndirect >= NINDIRECT
         THEN {[T1 EXCEPT !.err = "bmap: out of range", !.addr = 0]}
         ELSE
           LET T2 == EntryOf(T1, dubly, singlyIndirect)
               \* a[singlyIndirect] after brelse(bp)
               reread == IF RecycleReleased /\ dubly \notin T2.pn
                           THEN {T2.tb[x][singlyIndirect] : x \in Ptr}
                           ELSE {T2.tb[dubly][singlyIndirect]}
           IN {LET T3 == EntryOf(T2, p, i) IN [T3 EXCEPT !.addr = T3.new] : p \in reread}


\* The outcomes of bmap(ip, bn) from S: a set, because the singly-indirect
\* block number is read again from a released buffer in the doubly-indirect
\* branch.  An index past the doubly-indirect range is not checked by the
\* code; it reads past the indirect block, which the model ends in a panic.
BmapSet(S, bn) ==
  IF bn < NDIRECT THEN
    LET T == AddrOf(S, bn) IN {[T EXCEPT !.addr = T.ad[bn]]}
  ELSE IF bn - NDIRECT < NINDIRECT THEN
    LET T1 == AddrOf(S, NDIRECT)
        T2 == EntryOf(T1, T1.ad[NDIRECT], bn - NDIRECT)
    IN {[T2 EXCEPT !.addr = T2.new]}
  ELSE
    LET k == bn - NDIRECT - NINDIRECT
        singlyIndirect == k \div NINDIRECT
        i == k % NINDIRECT
        T1 == AddrOf(S, NDIRECT + 1)
        dubly == T1.ad[NDIRECT + 1]
    IN IF singlyIndirect >= NINDIRECT
         THEN {[T1 EXCEPT !.err = "bmap: out of range", !.addr = 0]}
         ELSE
           LET T2 == EntryOf(T1, dubly, singlyIndirect)
               \* a[singlyIndirect] after brelse(bp)
               reread == IF RecycleReleased /\ dubly \notin T2.pn
                           THEN {T2.tb[x][singlyIndirect] : x \in Ptr}
                           ELSE {T2.tb[dubly][singlyIndirect]}
           IN {LET T3 == EntryOf(T2, p, i) IN [T3 EXCEPT !.addr = T3.new] : p \in reread}

-----------------------------------------------------------------------------
SX == INSTANCE SequencesExt
FSX == INSTANCE FiniteSetsExt

\* The state bmap and balloc work on, for inode ip.
StateOf(ip) ==
  [bm |-> bitmap, ad |-> addrs[ip], tb |-> tbl, dt |-> data, pn |-> pinned,
   new |-> 0, addr |-> 0, err |-> "none"]

\* Take the block-layer state back from T; the data bytes are dt.
Adopt(ip, T, dt) ==
  /\ bitmap' = T.bm
  /\ addrs' = [addrs EXCEPT ![ip] = T.ad]
  /\ tbl' = T.tb
  /\ data' = dt
  /\ pinned' = T.pn

Panic(T) ==
  /\ pc' = "panic" /\ why' = T.err
  /\ UNCHANGED <<bitmap, addrs, tbl, data, size, pinned, cur, buf, ret, ncalls>>

\* The uint entries of block t, in order.
TblSeq(t) == [j \in 1 .. NINDIRECT |-> tbl[t][j - 1]]
NonZero(sq) == SelectSeq(sq, LAMBDA x : x # 0)

\* The blocks itrunc frees for ip, in its order: the direct blocks; the
\* singly-indirect block's entries, then the block; each second-level
\* block's entries, then it, then the doubly-indirect block.  These are
\* the blocks reachable from ip->addrs.
FreeOrder(ip) ==
  LET ad == addrs[ip]
      ind == ad[NDIRECT]
      dub == ad[NDIRECT + 1]
      direct == NonZero([k \in 1 .. NDIRECT |-> ad[k - 1]])
      single == IF ind = 0 THEN <<>> ELSE NonZero(TblSeq(ind)) \o <<ind>>
      double == IF dub = 0 THEN <<>>
                ELSE SX!FlattenSeq([j \in 1 .. NINDIRECT |->
                       LET t == tbl[dub][j - 1]
                       IN IF t = 0 THEN <<>> ELSE NonZero(TblSeq(t)) \o <<t>>])
                     \o <<dub>>
  IN direct \o single \o double

\* bfree of the blocks of L in order panics "freeing free block" when one
\* has its bit clear: it was never allocated or is freed a second time.
FreeingFree(L) == \E k \in 1 .. Len(L) : L[k] \notin bitmap \/ \E j \in 1 .. k - 1 : L[j] = L[k]

-----------------------------------------------------------------------------
\* A new call, in a new log transaction: the blocks the previous one pinned
\* were unpinned at its commit.
start ==
  /\ pc = "idle"
  /\ ncalls < MaxCalls
  /\ \E c \in Calls :
       /\ cur' = [c EXCEPT !.off0 = c.off]
       /\ pc' = c.op
  /\ pinned' = {}
  /\ buf' = <<>>
  /\ ncalls' = ncalls + 1
  /\ UNCHANGED <<bitmap, addrs, tbl, data, size, ret, why>>

Return(v) == ret' = v /\ pc' = "idle"
\* writei without the off + n < off check.
writei_noWrapCheck ==
  LET ip == cur.ip
      end == (cur.off + cur.n) % UINT
  IN /\ pc = "writei"
     /\ IF cur.off > size[ip] \/ end > MAXFILE * BSIZE
          THEN Return(-1)
          ELSE ret' = ret /\ pc' = IF cur.n > 0 THEN "wr_loop" ELSE "wr_end"
     /\ UNCHANGED <<bitmap, addrs, tbl, data, size, pinned, cur, buf, ncalls, why>>


\* writei's range checks, in uint arithmetic.
writei ==
  LET ip == cur.ip
      end == (cur.off + cur.n) % UINT
  IN /\ pc = "writei"
     /\ IF cur.off > size[ip] \/ end < cur.off \/ end > MAXFILE * BSIZE
          THEN Return(-1)
          ELSE ret' = ret /\ pc' = IF cur.n > 0 THEN "wr_loop" ELSE "wr_end"
     /\ UNCHANGED <<bitmap, addrs, tbl, data, size, pinned, cur, buf, ncalls, why>>
\* writei's loop mapping block tot/BSIZE instead of off/BSIZE.
wr_loop_totIndex ==
  LET ip == cur.ip
      m == MinOf(cur.n - cur.tot, BSIZE - (cur.off % BSIZE))
  IN /\ pc = "wr_loop"
     /\ \E T \in BmapSet(StateOf(ip), cur.tot \div BSIZE) :
          IF T.err # "none" THEN Panic(T)
          ELSE /\ why' = why
               /\ \E fail \in IF cur.user THEN BOOLEAN ELSE {FALSE} :
                 IF fail
                   THEN /\ Adopt(ip, T, T.dt)
                        /\ pc' = "wr_end" /\ UNCHANGED cur
                   ELSE /\ Adopt(ip, [T EXCEPT !.pn = @ \cup {T.addr}],
                                 [T.dt EXCEPT ![T.addr] =
                                    [k \in 0 .. BSIZE - 1 |->
                                       IF (cur.off % BSIZE) <= k /\ k < (cur.off % BSIZE) + m
                                         THEN cur.v ELSE T.dt[T.addr][k]]])
                        /\ cur' = [cur EXCEPT !.tot = @ + m, !.off = (@ + m) % UINT]
                        /\ pc' = IF cur.tot + m < cur.n THEN "wr_loop" ELSE "wr_end"
     /\ UNCHANGED <<size, buf, ret, ncalls>>


\* One pass of writei's loop: bmap the block, copy m bytes in (either_copyin
\* from a user address may fail: brelse and break), log_write the block.
wr_loop ==
  LET ip == cur.ip
      m == MinOf(cur.n - cur.tot, BSIZE - (cur.off % BSIZE))
  IN /\ pc = "wr_loop"
     /\ \E T \in BmapSet(StateOf(ip), cur.off \div BSIZE) :
          IF T.err # "none" THEN Panic(T)
          ELSE /\ why' = why
               /\ \E fail \in IF cur.user THEN BOOLEAN ELSE {FALSE} :
                 IF fail
                   THEN /\ Adopt(ip, T, T.dt)
                        /\ pc' = "wr_end" /\ UNCHANGED cur
                   ELSE /\ Adopt(ip, [T EXCEPT !.pn = @ \cup {T.addr}],
                                 [T.dt EXCEPT ![T.addr] =
                                    [k \in 0 .. BSIZE - 1 |->
                                       IF (cur.off % BSIZE) <= k /\ k < (cur.off % BSIZE) + m
                                         THEN cur.v ELSE T.dt[T.addr][k]]])
                        /\ cur' = [cur EXCEPT !.tot = @ + m, !.off = (@ + m) % UINT]
                        /\ pc' = IF cur.tot + m < cur.n THEN "wr_loop" ELSE "wr_end"
     /\ UNCHANGED <<size, buf, ret, ncalls>>

\* After the loop: grow size to the offset reached, iupdate, return n.
wr_end ==
  LET ip == cur.ip
  IN /\ pc = "wr_end"
     /\ size' = IF cur.n > 0 /\ cur.off > size[ip] THEN [size EXCEPT ![ip] = cur.off] ELSE size
     /\ Return(cur.n)
     /\ UNCHANGED <<bitmap, addrs, tbl, data, pinned, cur, buf, ncalls, why>>
\* readi without clamping n to the end of the file.
readi_noClamp ==
  LET ip == cur.ip
      end == (cur.off + cur.n) % UINT
  IN /\ pc = "readi"
     /\ IF cur.off > size[ip] \/ end < cur.off
          THEN Return(-1) /\ UNCHANGED cur
          ELSE LET n == cur.n
               IN /\ cur' = [cur EXCEPT !.n = n]
                  /\ ret' = ret /\ pc' = IF n > 0 THEN "rd_loop" ELSE "rd_end"
     /\ UNCHANGED <<bitmap, addrs, tbl, data, size, pinned, buf, ncalls, why>>


\* readi's range checks; n is clamped to the bytes left in the file.
readi ==
  LET ip == cur.ip
      end == (cur.off + cur.n) % UINT
  IN /\ pc = "readi"
     /\ IF cur.off > size[ip] \/ end < cur.off
          THEN Return(-1) /\ UNCHANGED cur
          ELSE LET n == IF end > size[ip] THEN size[ip] - cur.off ELSE cur.n
               IN /\ cur' = [cur EXCEPT !.n = n]
                  /\ ret' = ret /\ pc' = IF n > 0 THEN "rd_loop" ELSE "rd_end"
     /\ UNCHANGED <<bitmap, addrs, tbl, data, size, pinned, buf, ncalls, why>>

\* One pass of readi's loop: bmap the block and copy m bytes out.
rd_loop ==
  LET ip == cur.ip
      m == MinOf(cur.n - cur.tot, BSIZE - (cur.off % BSIZE))
  IN /\ pc = "rd_loop"
     /\ \E T \in BmapSet(StateOf(ip), cur.off \div BSIZE) :
          IF T.err # "none" THEN Panic(T)
          ELSE /\ Adopt(ip, T, T.dt) /\ why' = why
               /\ \E fail \in IF cur.user THEN BOOLEAN ELSE {FALSE} :
                    IF fail
                      THEN pc' = "rd_end" /\ UNCHANGED <<cur, buf>>
                      ELSE /\ buf' = buf \o [k \in 1 .. m |-> T.dt[T.addr][(cur.off % BSIZE) + k - 1]]
                           /\ cur' = [cur EXCEPT !.tot = @ + m, !.off = (@ + m) % UINT]
                           /\ pc' = IF cur.tot + m < cur.n THEN "rd_loop" ELSE "rd_end"
     /\ UNCHANGED <<size, ret, ncalls>>

\* readi returns n.
rd_end ==
  /\ pc = "rd_end"
  /\ Return(cur.n)
  /\ UNCHANGED <<bitmap, addrs, tbl, data, size, pinned, cur, buf, ncalls, why>>
\* itrunc without bfree(ip->addrs[NDIRECT]) after the singly-indirect entries.
itrunc_keepInd ==
  LET ip == cur.ip
      L == FreeOrder(ip)
  IN /\ pc = "itrunc"
     /\ IF FreeingFree(L)
          THEN Panic([err |-> "freeing free block"])
          ELSE /\ bitmap' = bitmap \ ({L[k] : k \in 1 .. Len(L)} \ {addrs[ip][NDIRECT]})
               /\ addrs' = [addrs EXCEPT ![ip] = [k \in 0 .. NDIRECT + 1 |-> 0]]
               /\ size' = [size EXCEPT ![ip] = 0]
               /\ pc' = "idle"
               /\ UNCHANGED <<tbl, data, pinned, cur, buf, ret, ncalls, why>>


\* itrunc, called by iput for an inode with no links and no references:
\* bfree each block of FreeOrder (a block whose bit is clear is "freeing
\* free block"), zero the addrs entries, size 0, iupdate.
itrunc ==
  LET ip == cur.ip
      L == FreeOrder(ip)
  IN /\ pc = "itrunc"
     /\ IF FreeingFree(L)
          THEN Panic([err |-> "freeing free block"])
          ELSE /\ bitmap' = bitmap \ {L[k] : k \in 1 .. Len(L)}
               /\ addrs' = [addrs EXCEPT ![ip] = [k \in 0 .. NDIRECT + 1 |-> 0]]
               /\ size' = [size EXCEPT ![ip] = 0]
               /\ pc' = "idle"
               /\ UNCHANGED <<tbl, data, pinned, cur, buf, ret, ncalls, why>>

-----------------------------------------------------------------------------
\* An empty file system: no block allocated, every inode empty.
Init ==
  /\ bitmap = {}
  /\ addrs = [ip \in Inums |-> [k \in 0 .. NDIRECT + 1 |-> 0]]
  /\ tbl = [b \in Ptr |-> ZeroTbl]
  /\ data = [b \in Ptr |-> ZeroData]
  /\ size = [ip \in Inums |-> 0]
  /\ pinned = {}
  /\ pc = "idle"
  /\ cur = CHOOSE c \in Calls : TRUE
  /\ buf = <<>>
  /\ ret = 0
  /\ ncalls = 0
  /\ why = "none"

\* Every call has been made, or the kernel panicked: the system stops.
Halted == (pc = "idle" /\ ncalls = MaxCalls) \/ pc = "panic"

Next ==
  \/ start \/ writei \/ wr_loop \/ wr_end \/ readi \/ rd_loop \/ rd_end \/ itrunc
  \/ Halted /\ UNCHANGED vars

Spec == Init /\ [][Next]_vars

-----------------------------------------------------------------------------
(* Properties                                                              *)

TypeOK ==
  /\ bitmap \subseteq Blocks
  /\ addrs \in [Inums -> [0 .. NDIRECT + 1 -> Ptr]]
  /\ size \in [Inums -> 0 .. MAXFILE * BSIZE]
  /\ pinned \subseteq Ptr
  /\ pc \in {"idle", "panic", "writei", "wr_loop", "wr_end", "readi", "rd_loop", "rd_end", "itrunc"}

\* The block bmap would find for byte block bn of ip, without allocating.
Lookup(ip, bn) ==
  LET k == bn - NDIRECT - NINDIRECT
      ind == addrs[ip][NDIRECT]
      dub == addrs[ip][NDIRECT + 1]
  IN CASE bn < NDIRECT -> addrs[ip][bn]
       [] bn < NDIRECT + NINDIRECT -> IF ind = 0 THEN 0 ELSE tbl[ind][bn - NDIRECT]
       [] k \div NINDIRECT < NINDIRECT /\ dub # 0 /\ tbl[dub][k \div NINDIRECT] # 0 ->
             tbl[tbl[dub][k \div NINDIRECT]][k % NINDIRECT]
       [] OTHER -> 0

ByteAt(ip, o) == LET b == Lookup(ip, o \div BSIZE) IN IF b = 0 THEN 0 ELSE data[b][o % BSIZE]

\* The bytes of file ip as readi would return them.
Content(ip) == [k \in 1 .. size[ip] |-> ByteAt(ip, k - 1)]

\* balloc, bmap and itrunc keep the bitmap exact (spec's invariant): a
\* block's bit is set iff the block is reachable from some inode, and it is
\* reachable once: never shared by two inodes or two positions, never
\* leaked, never both free and in use.  (The references, counted with
\* repetition, are as many as the distinct blocks they reach.)
BlocksAccounted ==
  /\ UNION {SX!ToSet(FreeOrder(ip)) : ip \in Inums} = bitmap
  /\ FSX!MapThenSumSet(LAMBDA ip : Len(FreeOrder(ip)), Inums) = Cardinality(bitmap)

\* No sequence of readi, writei and itrunc calls makes bfree free a free
\* block or bmap index past the doubly-indirect block (writei's range
\* checks are all that keep bn below MAXFILE).
NoFatalCorruption == why \in {"none", "balloc: out of blocks"}

\* While writei runs, every byte it has copied so far is what bmap's
\* lookup of that offset now finds.
WrittenReadsBack ==
  pc \in {"wr_loop", "wr_end"} =>
    \A o \in cur.off0 .. cur.off0 + cur.tot - 1 : ByteAt(cur.ip, o) = cur.v

\* When readi returns, the bytes it copied are the file's bytes at off.
ReadReturnsContent ==
  pc = "rd_end" =>
    /\ cur.off0 + cur.tot <= size[cur.ip]
    /\ \A k \in 1 .. cur.tot : buf[k] = ByteAt(cur.ip, cur.off0 + k - 1)

\* The block layer implements files as byte sequences: the bytes the
\* block map reaches change only as a write or a truncation says.
Abs == INSTANCE AbsFile WITH content <- [ip \in Inums |-> Content(ip)], MaxSize <- MAXFILE * BSIZE

ImplementsAbsFile == Abs!Spec

=============================================================================
