------------------------------ MODULE MCKAlloc ------------------------------
(* Model values and call sequences for checking KAlloc with TLC.           *)
EXTENDS KAlloc, TLC

CONSTANTS pg1, pg2

MCPages == {pg1, pg2}
MCBootOrder == <<pg1, pg2>>

\* Two harts, two pages: each kalloc's own list may be empty, so steal finds
\* a page on the other's list or none at all; kfree refills its own list.
\* At most one page is held while both CPUs are in kalloc, so a page lies on
\* the own list of one of them.
MCProgram == (0 :> <<"kalloc", "kalloc", "kfree">>) @@ (1 :> <<"kalloc", "kfree", "kalloc">>)

\* Both harts allocate twice from one page: the second kallocs find every
\* list empty.
MCProgramExhaust == (0 :> <<"kalloc", "kalloc">>) @@ (1 :> <<"kalloc", "kalloc">>)
MCBootOrderOne == <<pg1>>
MCPagesOne == {pg1}

=============================================================================
