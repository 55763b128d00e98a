------------------------------- MODULE KAlloc -------------------------------
(***************************************************************************)
(* The per-CPU physical page allocator of kernel/kalloc.c (src/unnamed/    *)
(* part_001, lines 1-137): kmems[3], one free list and one spin-lock per   *)
(* CPU; kfree pushes on the current CPU's list; kalloc pops from it and,   *)
(* when it is empty, steal() scans all lists for a page while still        *)
(* holding its own lock.                                                   *)
(*                                                                         *)
(* Each CPU runs a fixed sequence of kalloc and kfree calls.  A spin-lock  *)
(* holder has interrupts off and cannot be preempted, so the CPU is the    *)
(* actor.  A page is a model value; its contents (the junk fill) are left  *)
(* out.                                                                    *)
(***************************************************************************)
EXTENDS Integers, Sequences, FiniteSets

CONSTANTS
  CPUs,         \* the harts running code, a subset of 0..NKMEM-1
  Pages,        \* the physical pages freerange hands to kfree at boot
  BootOrder,    \* the order of freerange's kfree calls: a sequence of Pages
  Program,      \* Program[c]: the sequence of calls CPU c makes
  NoCPU, NoPage

\* struct kmem kmems[3].
NKMEM == 3
Kmems == 0 .. NKMEM - 1

ASSUME CPUs \subseteq Kmems /\ \A c \in CPUs : Program[c] \in Seq({"kalloc", "kfree"})

VARIABLES
  kmem,         \* kmem[i]: kmems[i].freelist, first element at the head
  lk,           \* lk[i]: the CPU holding kmems[i].lock, or NoCPU
  pc,           \* the label each CPU executes next
  r,            \* kalloc's local r (a page or NoPage)
  si,           \* steal's loop index i
  fp,           \* the page kfree is freeing
  held,         \* the pages each CPU's code holds (kalloc results, not yet freed)
  done          \* the number of calls of Program[c] made

vars == <<kmem, lk, pc, r, si, fp, held, done>>

Goto(c, l) == pc' = [pc EXCEPT ![c] = l]

\* kfree(p) pushes p on the front of the list.
Push(pg, list) == <<pg>> \o list

-----------------------------------------------------------------------------
\* Make the next call of the program.  kfree frees a page the CPU holds; a
\* CPU holding none (all its kallocs returned 0) has nothing to free.
start(c) ==
  /\ pc[c] = "idle"
  /\ done[c] < Len(Program[c])
  /\ done' = [done EXCEPT ![c] = @ + 1]
  /\ IF Program[c][done[c] + 1] = "kalloc"
       THEN Goto(c, "ka_acq") /\ UNCHANGED fp
       ELSE IF held[c] # {}
              THEN \E pg \in held[c] : fp' = [fp EXCEPT ![c] = pg] /\ Goto(c, "kf_acq")
              ELSE UNCHANGED <<pc, fp>>
  /\ UNCHANGED <<kmem, lk, r, si, held>>

\* acquire(&kmems[hart].lock) in kalloc, hart = getcpu().
ka_acq(c) ==
  /\ pc[c] = "ka_acq"
  /\ lk[c] = NoCPU
  /\ lk' = [lk EXCEPT ![c] = c]
  /\ Goto(c, "ka_body")
  /\ UNCHANGED <<kmem, r, si, fp, held, done>>

\* Pop the own list, or call steal(hart) when it is empty.
ka_body(c) ==
  /\ pc[c] = "ka_body"
  /\ IF kmem[c] # <<>>
       THEN /\ r' = [r EXCEPT ![c] = Head(kmem[c])]
            /\ kmem' = [kmem EXCEPT ![c] = Tail(kmem[c])]
            /\ Goto(c, "ka_rel") /\ UNCHANGED si
       ELSE si' = [si EXCEPT ![c] = 0] /\ Goto(c, "st_next") /\ UNCHANGED <<r, kmem>>
  /\ UNCHANGED <<lk, fp, held, done>>

\* Variant: steal without the holding() test, acquiring its own lock again.
st_next_noSkip(c) ==
  /\ pc[c] = "st_next"
  /\ IF si[c] = NKMEM
       THEN r' = [r EXCEPT ![c] = NoPage] /\ Goto(c, "ka_rel") /\ UNCHANGED si
       ELSE Goto(c, "st_acq") /\ UNCHANGED <<r, si>>
  /\ UNCHANGED <<kmem, lk, fp, held, done>>

\* steal: past the last list return rs = 0; skip a list whose lock this CPU
\* holds (holding()); else acquire that list's lock.
st_next(c) ==
  /\ pc[c] = "st_next"
  /\ CASE si[c] = NKMEM ->
            r' = [r EXCEPT ![c] = NoPage] /\ Goto(c, "ka_rel") /\ UNCHANGED si
       [] lk[si[c]] = c ->
            si' = [si EXCEPT ![c] = @ + 1] /\ UNCHANGED <<r, pc>>
       [] OTHER ->
            Goto(c, "st_acq") /\ UNCHANGED <<r, si>>
  /\ UNCHANGED <<kmem, lk, fp, held, done>>

\* acquire(&kmems[i].lock) in steal.
st_acq(c) ==
  /\ pc[c] = "st_acq"
  /\ lk[si[c]] = NoCPU
  /\ lk' = [lk EXCEPT ![si[c]] = c]
  /\ Goto(c, "st_body")
  /\ UNCHANGED <<kmem, r, si, fp, held, done>>

\* Variant: the stolen page is taken without unlinking it from the list.
st_body_noUnlink(c) ==
  LET i == si[c] IN
  /\ pc[c] = "st_body"
  /\ lk' = [lk EXCEPT ![i] = NoCPU]
  /\ IF kmem[i] # <<>>
       THEN r' = [r EXCEPT ![c] = Head(kmem[i])] /\ Goto(c, "ka_rel") /\ UNCHANGED si
       ELSE si' = [si EXCEPT ![c] = @ + 1] /\ Goto(c, "st_next") /\ UNCHANGED r
  /\ UNCHANGED <<kmem, fp, held, done>>

\* With kmems[i].lock held: take its first page and return it, or move on;
\* either way release the lock.
st_body(c) ==
  LET i == si[c] IN
  /\ pc[c] = "st_body"
  /\ lk' = [lk EXCEPT ![i] = NoCPU]
  /\ IF kmem[i] # <<>>
       THEN /\ r' = [r EXCEPT ![c] = Head(kmem[i])]
            /\ kmem' = [kmem EXCEPT ![i] = Tail(kmem[i])]
            /\ Goto(c, "ka_rel") /\ UNCHANGED si
       ELSE si' = [si EXCEPT ![c] = @ + 1] /\ Goto(c, "st_next") /\ UNCHANGED <<r, kmem>>
  /\ UNCHANGED <<fp, held, done>>

\* Variant: a 0 returned by steal is recorded as a page.
ka_rel_noNullCheck(c) ==
  /\ pc[c] = "ka_rel"
  /\ lk' = [lk EXCEPT ![c] = NoCPU]
  /\ held' = [held EXCEPT ![c] = @ \cup {r[c]}]
  /\ r' = [r EXCEPT ![c] = NoPage]
  /\ Goto(c, "idle")
  /\ UNCHANGED <<kmem, si, fp, done>>

\* release(&kmems[hart].lock); return r.
ka_rel(c) ==
  /\ pc[c] = "ka_rel"
  /\ lk' = [lk EXCEPT ![c] = NoCPU]
  /\ held' = IF r[c] = NoPage THEN held ELSE [held EXCEPT ![c] = @ \cup {r[c]}]
  /\ r' = [r EXCEPT ![c] = NoPage]
  /\ Goto(c, "idle")
  /\ UNCHANGED <<kmem, si, fp, done>>

\* acquire(&kmems[hart].lock) in kfree.
kf_acq(c) ==
  /\ pc[c] = "kf_acq"
  /\ lk[c] = NoCPU
  /\ lk' = [lk EXCEPT ![c] = c]
  /\ Goto(c, "kf_push")
  /\ UNCHANGED <<kmem, r, si, fp, held, done>>

\* Push the page on the own list and release the lock.
kf_push(c) ==
  /\ pc[c] = "kf_push"
  /\ kmem' = [kmem EXCEPT ![c] = Push(fp[c], @)]
  /\ lk' = [lk EXCEPT ![c] = NoCPU]
  /\ held' = [held EXCEPT ![c] = @ \ {fp[c]}]
  /\ Goto(c, "idle")
  /\ UNCHANGED <<r, si, fp, done>>

-----------------------------------------------------------------------------
\* After kinit: every lock initialised and free; freerange ran on the boot
\* hart 0, whose kfree pushed the pages in BootOrder onto kmems[0].
Init ==
  /\ kmem = [i \in Kmems |-> IF i = 0
                              THEN [k \in 1 .. Len(BootOrder) |-> BootOrder[Len(BootOrder) + 1 - k]]
                              ELSE <<>>]
  /\ lk = [i \in Kmems |-> NoCPU]
  /\ pc = [c \in CPUs |-> "idle"]
  /\ r = [c \in CPUs |-> NoPage]
  /\ si = [c \in CPUs |-> 0]
  /\ fp = [c \in CPUs |-> NoPage]
  /\ held = [c \in CPUs |-> {}]
  /\ done = [c \in CPUs |-> 0]

\* A step of CPU c inside a call.
Proceed(c) ==
  \/ ka_acq(c) \/ ka_body(c) \/ st_next(c) \/ st_acq(c) \/ st_body(c) \/ ka_rel(c)
  \/ kf_acq(c) \/ kf_push(c)

Finished == \A c \in CPUs : pc[c] = "idle" /\ done[c] = Len(Program[c])

Next ==
  \/ \E c \in CPUs : start(c) \/ Proceed(c)
  \/ Finished /\ UNCHANGED vars

\* A spinning CPU retries acquire until the lock is free; a holder runs on
\* with interrupts off.  Both justify weak fairness of each CPU's steps.
Spec == Init /\ [][Next]_vars /\ \A c \in CPUs : WF_vars(Proceed(c))

-----------------------------------------------------------------------------
(* Properties                                                              *)

Gr == INSTANCE Graphs

TypeOK ==
  /\ kmem \in [Kmems -> Seq(Pages)]
  /\ lk \in [Kmems -> CPUs \cup {NoCPU}]
  /\ r \in [CPUs -> Pages \cup {NoPage}]
  /\ si \in [CPUs -> 0 .. NKMEM]
  /\ held \in [CPUs -> SUBSET Pages]

\* The places a page can be: on a free list (counted per occurrence), in
\* kalloc's r, or held by the code of a CPU.
Occurrences(pg) ==
  Cardinality({<<i, k>> \in Kmems \X (1 .. Len(BootOrder)) : k <= Len(kmem[i]) /\ kmem[i][k] = pg})
  + Cardinality({c \in CPUs : r[c] = pg})
  + Cardinality({c \in CPUs : pg \in held[c]})

\* kalloc, steal and kfree move pages between the lists and their callers
\* under the lists' locks: every page is in exactly one place, never on
\* two lists, twice on one, or both free and handed out.
PageExclusive == \A pg \in Pages : Occurrences(pg) = 1

\* CPU c spins for a lock CPU d holds.
WaitEdges ==
  {e \in CPUs \X CPUs :
     \/ pc[e[1]] \in {"ka_acq", "kf_acq"} /\ lk[e[1]] = e[2]
     \/ pc[e[1]] = "st_acq" /\ lk[si[e[1]]] = e[2]}

\* No CPUs spin for each other's kmem locks in a cycle (a CPU spinning on a
\* lock it holds itself is a cycle of one).
NoDeadlyEmbrace == ~Gr!HasCycle([node |-> CPUs, edge |-> WaitEdges])

\* Every kalloc and kfree returns.
CallsReturn == \A c \in CPUs : pc[c] # "idle" ~> pc[c] = "idle"

\* The allocator as its callers see it: the pages on the lists are the
\* pool; a page in r belongs to the CPU that popped it.
Abs == INSTANCE AbsPageAlloc WITH
         pool <- {pg \in Pages : \E i \in Kmems : \E k \in 1 .. Len(kmem[i]) : kmem[i][k] = pg},
         owned <- [c \in CPUs |-> held[c] \cup ({r[c]} \ {NoPage})]

\* kalloc and kfree implement the single-pool allocator.
ImplementsAbsPageAlloc == Abs!Spec

=============================================================================
