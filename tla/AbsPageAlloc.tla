---------------------------- MODULE AbsPageAlloc ----------------------------
(***************************************************************************)
(* What the physical page allocator promises its callers (the comments of  *)
(* kalloc and kfree in kernel/kalloc.c): one pool of free pages; kalloc    *)
(* hands a caller a page no one else has, or 0; kfree returns a page the   *)
(* caller has to the pool.  How the pool is split per CPU and locked is    *)
(* left out.                                                               *)
(***************************************************************************)
CONSTANTS CPUs, Pages

VARIABLES
  pool,     \* the free pages
  owned     \* owned[c]: the pages the code running on CPU c holds

Init == pool = Pages /\ owned = [c \in CPUs |-> {}]

\* kalloc() returns a free page to CPU c.
Alloc(c) ==
  \E pg \in pool :
    /\ pool' = pool \ {pg}
    /\ owned' = [owned EXCEPT ![c] = @ \cup {pg}]

\* kfree(pa) of a page CPU c holds.
Free(c) ==
  \E pg \in owned[c] :
    /\ pool' = pool \cup {pg}
    /\ owned' = [owned EXCEPT ![c] = @ \ {pg}]

Next == \E c \in CPUs : Alloc(c) \/ Free(c)

Spec == Init /\ [][Next]_<<pool, owned>>

=============================================================================
