------------------------------- MODULE ICache -------------------------------
(***************************************************************************)
(* The in-memory inode cache of kernel/fs.c (icache) and its subroutines   *)
(* iget, idup, ilock, iunlock and iput, as executed by kernel processes.   *)
(*                                                                         *)
(* The on-disk inodes are abstracted to their type and link count (the     *)
(* block map of an inode is the subject of another module).  A cache slot  *)
(* keeps the fields of struct inode that the properties tell apart: inum,  *)
(* ref, valid, type, nlink, the in-memory symlink target and its sleep-    *)
(* lock.  The device number is omitted: there is one device (ROOTDEV).     *)
(*                                                                         *)
(* A spin-lock critical section of icache.lock that never blocks (iget,    *)
(* idup, the fast path of iput) is one atomic step.  The free path of iput *)
(* holds icache.lock across acquiresleep, so there icache.lock is a        *)
(* variable.  A sleep-lock acquisition is a step of its own, because a     *)
(* process may wait there.                                                 *)
(***************************************************************************)
EXTENDS Integers, FiniteSets, FiniteSetsExt

CONSTANTS
  Procs,        \* kernel processes executing system calls
  Slots,        \* the NINODE slots of icache.inode[]
  Inums,        \* inode numbers of the device, ROOTINO among them
  ROOTINO,      \* the root directory's inode number
  Names,        \* directory entry names (single path components)
  NoProc,       \* no holder of a lock
  NoSlot,       \* the null struct inode pointer
  NoName        \* an all-zero ip->target buffer

ASSUME ROOTINO \in Inums /\ NoSlot \notin Slots /\ NoProc \notin Procs

\* File types of kernel/stat.h; type 0 marks a free on-disk inode.
T_FREE == 0
T_DIR == 1
T_FILE == 2
T_DEVICE == 3
T_SYMLINK == 4
Types == {T_FREE, T_DIR, T_FILE, T_DEVICE, T_SYMLINK}

VARIABLES
  \* on-disk state, as seen through the buffer cache and the log
  dtype,        \* dinode.type of every inode number
  dnlink,       \* dinode.nlink of every inode number
  \* icache
  sinum,        \* ip->inum of every slot (0 before first use)
  ref,          \* ip->ref
  valid,        \* ip->valid
  stype,        \* ip->type
  snlink,       \* ip->nlink
  starget,      \* ip->target: kept in the slot only, never in the dinode
  slock,        \* holder of ip->lock (a sleep-lock)
  icache,       \* holder of icache.lock on the free path of iput
  \* per-process control
  pc,           \* the label a process executes next
  lkS, lkRet,   \* argument and return label of ilock
  puS, puRet    \* argument and return label of iput

cacheVars == <<sinum, ref, valid, stype, snlink, starget, slock, icache>>

-----------------------------------------------------------------------------
(* iget(dev, inum), fs.c 243-274: under icache.lock, a slot with ref > 0   *)
(* holding inum is shared; else the first slot with ref = 0 in scan order  *)
(* is recycled.  NoSlot when the table is full (panic "iget: no inodes").  *)
CachedSlot(i) == {s \in Slots : ref[s] > 0 /\ sinum[s] = i}

IgetSlot(i) ==
  IF CachedSlot(i) # {} THEN CHOOSE s \in CachedSlot(i) : TRUE
  ELSE IF \E s \in Slots : ref[s] = 0 THEN Min({s \in Slots : ref[s] = 0})
  ELSE NoSlot

\* Variant: the cached path returns the slot without ip->ref++.
IgetRefNoInc(i, s) == IF CachedSlot(i) # {} THEN ref ELSE [ref EXCEPT ![s] = 1]

\* The cache after iget(i) has returned slot s = IgetSlot(i).
IgetRef(i, s) == [ref EXCEPT ![s] = @ + 1]
IgetInum(i, s) == [sinum EXCEPT ![s] = i]
IgetValid(i, s) == IF CachedSlot(i) # {} THEN valid ELSE [valid EXCEPT ![s] = FALSE]

\* Apply iget(i), returning s, to ref, sinum and valid.
Iget(i, s) ==
  /\ s # NoSlot
  /\ ref' = IgetRef(i, s)
  /\ sinum' = IgetInum(i, s)
  /\ valid' = IgetValid(i, s)

-----------------------------------------------------------------------------
(* ilock(ip), fs.c 289-314: wait for the sleep-lock, then read the dinode  *)
(* if the slot is not valid; panic if the inode read is free.              *)
LoadedType(s) == IF valid[s] THEN stype[s] ELSE dtype[sinum[s]]
LoadedNlink(s) == IF valid[s] THEN snlink[s] ELSE dnlink[sinum[s]]

ILockPanics(s) == ref[s] < 1 \/ LoadedType(s) = T_FREE

ilock(p) ==
  LET s == lkS[p] IN
  /\ pc[p] = "ilock"
  /\ slock[s] = NoProc
  /\ slock' = [slock EXCEPT ![s] = p]
  /\ valid' = [valid EXCEPT ![s] = TRUE]
  /\ stype' = [stype EXCEPT ![s] = LoadedType(s)]
  /\ snlink' = [snlink EXCEPT ![s] = LoadedNlink(s)]
  /\ pc' = [pc EXCEPT ![p] = IF ILockPanics(s) THEN "panic" ELSE lkRet[p]]
  /\ UNCHANGED <<dtype, dnlink, sinum, ref, starget, icache, lkS, lkRet, puS, puRet>>

\* Call ilock(s) from process p, continuing at label ret.
CallILock(p, s, ret) ==
  /\ lkS' = [lkS EXCEPT ![p] = s]
  /\ lkRet' = [lkRet EXCEPT ![p] = ret]
  /\ pc' = [pc EXCEPT ![p] = "ilock"]

\* iunlock(ip), fs.c 317-324, for a lock the caller holds.
IUnlock(s) == [slock EXCEPT ![s] = NoProc]

-----------------------------------------------------------------------------
(* iput(ip), fs.c 333-359.  The free path is taken when this is the last   *)
(* reference to a valid inode with no links.                               *)
\* Variants of the free-path test: without ref == 1, without nlink == 0,
\* and with ref == 0 for ref == 1.
IputFreesShared(s) == ref[s] >= 1 /\ valid[s] /\ snlink[s] = 0
IputFreesLinked(s) == ref[s] = 1 /\ valid[s]
IputFreesNever(s) == ref[s] = 0 /\ valid[s] /\ snlink[s] = 0

IputFrees(s) == ref[s] = 1 /\ valid[s] /\ snlink[s] = 0

\* Call iput(s) from process p, continuing at label ret.
CallIput(p, s, ret) ==
  /\ puS' = [puS EXCEPT ![p] = s]
  /\ puRet' = [puRet EXCEPT ![p] = ret]
  /\ pc' = [pc EXCEPT ![p] = "iput"]

\* acquire(&icache.lock); the test; on the fast path ref-- and release.
iput(p) ==
  LET s == puS[p] IN
  /\ pc[p] = "iput"
  /\ icache = NoProc
  /\ IF IputFrees(s)
       THEN /\ icache' = p
            /\ pc' = [pc EXCEPT ![p] = "iput_sleep"]
            /\ UNCHANGED ref
       ELSE /\ ref' = [ref EXCEPT ![s] = @ - 1]
            /\ pc' = [pc EXCEPT ![p] = puRet[p]]
            /\ UNCHANGED icache
  /\ UNCHANGED <<dtype, dnlink, sinum, valid, stype, snlink, starget, slock,
                 lkS, lkRet, puS, puRet>>

\* acquiresleep(&ip->lock) while holding icache.lock; release(&icache.lock).
iput_sleep(p) ==
  LET s == puS[p] IN
  /\ pc[p] = "iput_sleep"
  /\ slock[s] = NoProc
  /\ slock' = [slock EXCEPT ![s] = p]
  /\ icache' = NoProc
  /\ pc' = [pc EXCEPT ![p] = "iput_trunc"]
  /\ UNCHANGED <<dtype, dnlink, sinum, ref, valid, stype, snlink, starget,
                 lkS, lkRet, puS, puRet>>

\* Variant: the slot stays valid after the inode is freed.
iput_trunc_keepValid(p) ==
  LET s == puS[p] IN
  /\ pc[p] = "iput_trunc"
  /\ stype' = [stype EXCEPT ![s] = T_FREE]
  /\ dtype' = [dtype EXCEPT ![sinum[s]] = T_FREE]
  /\ dnlink' = [dnlink EXCEPT ![sinum[s]] = snlink[s]]
  /\ slock' = IUnlock(s)
  /\ pc' = [pc EXCEPT ![p] = "iput_dec"]
  /\ UNCHANGED <<sinum, ref, valid, snlink, starget, icache, lkS, lkRet, puS, puRet>>

\* itrunc(ip); ip->type = 0; iupdate(ip); ip->valid = 0; releasesleep.
\* itrunc's own iupdate and the freeing of blocks leave type and nlink as
\* they are; the final iupdate writes type 0 and nlink to the dinode.
iput_trunc(p) ==
  LET s == puS[p] IN
  /\ pc[p] = "iput_trunc"
  /\ stype' = [stype EXCEPT ![s] = T_FREE]
  /\ dtype' = [dtype EXCEPT ![sinum[s]] = T_FREE]
  /\ dnlink' = [dnlink EXCEPT ![sinum[s]] = snlink[s]]
  /\ valid' = [valid EXCEPT ![s] = FALSE]
  /\ slock' = IUnlock(s)
  /\ pc' = [pc EXCEPT ![p] = "iput_dec"]
  /\ UNCHANGED <<sinum, ref, snlink, starget, icache, lkS, lkRet, puS, puRet>>

\* acquire(&icache.lock); ip->ref--; release(&icache.lock).
iput_dec(p) ==
  LET s == puS[p] IN
  /\ pc[p] = "iput_dec"
  /\ icache = NoProc
  /\ ref' = [ref EXCEPT ![s] = @ - 1]
  /\ pc' = [pc EXCEPT ![p] = puRet[p]]
  /\ UNCHANGED <<dtype, dnlink, sinum, valid, stype, snlink, starget, slock,
                 icache, lkS, lkRet, puS, puRet>>

\* One step of the subroutines of the inode cache.
CacheStep(p) == ilock(p) \/ iput(p) \/ iput_sleep(p) \/ iput_trunc(p) \/ iput_dec(p)

=============================================================================
