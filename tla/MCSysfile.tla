----------------------------- MODULE MCSysfile -----------------------------
(* Model values and call sets for checking Sysfile with TLC.               *)
EXTENDS Sysfile

\* Model values naming the processes and the directory entries.
CONSTANTS p1, p2, a, b

\* Two-name root directory; open with and without O_CREATE, read-only.
OpenCalls ==
  [op : {"open"}, x : Names, y : {NoName}, creat : BOOLEAN, nofollow : {FALSE}, wr : {FALSE}]

LinkCalls ==
  {c \in [op : {"link"}, x : Names, y : Names, creat : {FALSE}, nofollow : {FALSE}, wr : {FALSE}] :
     c.x # c.y}

UnlinkCalls ==
  [op : {"unlink"}, x : Names, y : {NoName}, creat : {FALSE}, nofollow : {FALSE}, wr : {FALSE}]

CloseCalls ==
  [op : {"close"}, x : {CHOOSE n \in Names : TRUE}, y : {NoName}, creat : {FALSE},
   nofollow : {FALSE}, wr : {FALSE}]

MkdirCalls ==
  [op : {"mkdir"}, x : Names, y : {NoName}, creat : {FALSE}, nofollow : {FALSE}, wr : {FALSE}]

\* chdir takes its path in y: a name or "/".
ChdirCalls ==
  [op : {"chdir"}, x : {CHOOSE n \in Names : TRUE}, y : Names \cup {RootPath}, creat : {FALSE},
   nofollow : {FALSE}, wr : {FALSE}]

\* Every process may make any of the calls without symlinks.
MCProgramPlain ==
  [p \in Procs |-> OpenCalls \cup LinkCalls \cup UnlinkCalls \cup CloseCalls
                     \cup MkdirCalls \cup ChdirCalls]

\* One call of each kind, for the small symlink scenarios.
Sym(x, t) == [op |-> "symlink", x |-> x, y |-> t, creat |-> FALSE, nofollow |-> FALSE, wr |-> FALSE]
Open(x, c, w) == [op |-> "open", x |-> x, y |-> NoName, creat |-> c, nofollow |-> FALSE, wr |-> w]
Unlink(x) == [op |-> "unlink", x |-> x, y |-> NoName, creat |-> FALSE, nofollow |-> FALSE, wr |-> FALSE]
Mkdir(x) == [op |-> "mkdir", x |-> x, y |-> NoName, creat |-> FALSE, nofollow |-> FALSE, wr |-> FALSE]
Mknod(x) == [op |-> "mknod", x |-> x, y |-> NoName, creat |-> FALSE, nofollow |-> FALSE, wr |-> FALSE]

\* p1 makes symlink /a -> /b, creates /b and opens /a, with and without
\* O_NOFOLLOW; p2 makes /b a device or creates it, opens, links /b to /a,
\* unlinks /b and closes: /b is never a
\* link to the symlink, so no cycle can form, and the symlink is never
\* unlinked while followed.
MCProgramSymlink ==
  [p \in Procs |->
     IF p = p1
       THEN {Sym(a, b), Open(b, TRUE, FALSE), Open(a, FALSE, FALSE),
             [Open(a, FALSE, FALSE) EXCEPT !.nofollow = TRUE]} \cup CloseCalls
       ELSE OpenCalls \cup {c \in LinkCalls : c.x = b} \cup {Unlink(b), Mknod(b)}
              \cup CloseCalls]

\* symlink /a -> /a then open /a: every hop of symfollow keeps the reference
\* it took, and the tenth returns with the symlink locked.
MCProgramLoop == [p \in Procs |-> {Sym(a, a), Open(a, FALSE, FALSE)}]

\* p1 makes /a -> /b and opens /a while p2 unlinks /a.
MCProgramDeadlock ==
  [p \in Procs |-> IF p = p1 THEN {Sym(a, b), Open(a, FALSE, FALSE)} ELSE {Unlink(a)}]

\* symlink /a -> "/", create and keep open /b, then open /a.
MCProgramTargetLost == [p \in Procs |-> {Sym(a, RootPath), Open(b, TRUE, FALSE), Open(a, FALSE, FALSE)}]

\* Each process makes a directory and removes it again: the second mkdir
\* may be given the inode number the first unlink is still freeing.
MCProgramOrphan == [p \in Procs |-> IF p = p1 THEN {Mkdir(a), Unlink(a)} ELSE {Mkdir(b), Unlink(b)}]

MCInums == 1..4
MCSlots == 1..4
MCSlotsSmall == 1..3

=============================================================================
