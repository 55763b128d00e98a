-------------------------------- MODULE SysFd --------------------------------
(***************************************************************************)
(* The file-descriptor system calls of kernel/sysfile.c (argfd, fdalloc,   *)
(* sys_dup, sys_read, sys_write, sys_close, sys_fstat, sys_pipe, the      *)
(* descriptor half of sys_open, and sys_exec with the pages it takes for  *)
(* its arguments), the two pingpong programs kept at the                  *)
(* end of that file (lines 589-609 and 610-638), and the shell user/nsh.c *)
(* that wires pipelines and redirections out of pipe, fork, close, dup,   *)
(* open and exec.                                                          *)
(*                                                                         *)
(* The struct file layer, pipes, the console, fork, exit and wait live in  *)
(* file.c, pipe.c, console.c and proc.c, which this repository does not    *)
(* contain; they are modelled by their xv6 contract at the granularity     *)
(* sysfile.c sees them:                                                    *)
(*   - a file has a reference count; fileclose drops it and, at zero,      *)
(*     closes the pipe end it stands for;                                  *)
(*   - pipealloc takes two free files and one page (the struct pipe)     *)
(*     from kalloc; pipeclose gives the page to kfree when both ends are   *)
(*     closed;                                                             *)
(*   - kalloc hands out some page of the free list, or 0 when it is empty; *)
(*     which one is immaterial, so the model takes a fixed one;            *)
(*   - exec(path, argv) starts the program path names, or returns -1;     *)
(*   - piperead sleeps while the pipe is empty and a writer is open, then *)
(*     returns what is there (0 at end of file); pipewrite fails once the  *)
(*     read end is closed and sleeps while the buffer is full;             *)
(*   - the console hands a reader the next typed line, and 0 once the     *)
(*     input is over; a write to it is shown;                              *)
(*   - a regular file is read and written at the open file's offset.      *)
(* Each message is one 8-byte read or write, and PIPESIZE is a multiple   *)
(* of 8, so a pipe's buffer is a sequence of whole messages.              *)
(*                                                                         *)
(* A system call runs on one process and touches only its own ofile table  *)
(* and the file and pipe objects under their spin-locks, so each call is   *)
(* one step; a call that sleeps is a step that is not enabled.             *)
(***************************************************************************)
EXTENDS Integers, Sequences, FiniteSets

CONSTANTS
  NPROC,        \* process slots (param.h, scaled); slot 1 runs first
  NOFILE,       \* open files per process (param.h, scaled)
  NFILE,        \* struct file slots in ftable (param.h, scaled)
  Pages,        \* the pages kalloc may hand to pipealloc
  PIPESIZE,     \* the messages a pipe buffer holds
  MaxCalls,     \* bound on the Driver's calls
  Scenarios,    \* the programs a behaviour may run
  Scripts,      \* the inputs typed to nsh: sequences of lines of characters
  Names,        \* the regular files the scripts name
  MAXLINE,      \* nsh's buf[MAXLINE]
  MAXARGS,      \* nsh's argv[MAXARGS]
  MAXARG,       \* NELEM(argv) in sys_exec (param.h MAXARG, scaled)
  Garbage       \* the contents of an uninitialised local

ASSUME Scenarios \subseteq {"pingpong1", "pingpong2", "driver", "nsh"}
\* gets(buf, MAXLINE) takes at most MAXLINE - 1 characters of a line.
ASSUME \A s \in Scripts : \A k \in DOMAIN s : Len(s[k]) < MAXLINE

Procs == 1 .. NPROC
Fds == 0 .. NOFILE - 1
Files == 1 .. NFILE      \* struct file pointers; 0 is the null pointer
NoFile == 0
Console == 1             \* the file init opened on the console
Arrays == {"parent_fd", "child_fd", "fd"}
Parent == 1              \* pingpong's process, the Driver, or nsh
Child == 2               \* the slot allocproc gives pingpong's fork

VARIABLES
  ofile,   \* ofile[p][fd]: p->ofile[fd]
  fref,    \* fref[f]: f->ref; a file with ref 0 is free in ftable
  fend,    \* fend[f]: pipe end "r" or "w", "con", or an inode file
           \* opened for reading ("ir") or writing ("iw")
  fpipe,   \* fpipe[f]: f->pipe, the page holding the struct pipe
  fname,   \* fname[f]: the regular file f->ip stands for
  foff,    \* foff[f]: f->off
  pbuf,    \* pbuf[pg]: the messages in the pipe at pg not yet read
  fdata,   \* fdata[n]: the messages in regular file n
  fexist,  \* fexist[n]: whether file n has been created
  cin,     \* the number of typed lines the console has handed out
  cout,    \* what has been written to the console
  state,   \* state[p]: "unused", "run" (RUNNABLE, RUNNING or SLEEPING), "zombie"
  par,     \* par[p]: p->parent; 0 is init, which is not modelled
  code,    \* code[p]: the program p runs, a sequence of instructions
  pc,      \* pc[p]: index in code[p] of p's next instruction
  line,    \* line[p]: the line nsh's buf holds
  fdv,     \* fdv[p][a]: the int a[2] arrays pipe() fills
  buf,     \* buf[p]: the 8-byte buffer read() fills
  kmem,    \* kmem.freelist: the pages kalloc may hand out
  argv,    \* argv[p]: the pages sys_exec's argv[] holds, in order
  uarg,    \* uarg[p]: the Driver's exec arguments: n strings, the last
           \* one at a readable address when ok
  panicked, \* a panic() has stopped the kernel
  calls,   \* the number of calls the Driver has made
  last,    \* the last call made: process, call and return value
  scn,     \* the program this behaviour runs
  script   \* what is typed to nsh

ftab == <<fend, fpipe, fname, foff>>
kvars == <<ofile, fref, ftab, pbuf, fdata, fexist, cin, cout, kmem>>
xvars == <<argv, uarg, panicked>>
pvars == <<state, par, code, line>>
cfgv == <<scn, script>>
vars == <<kvars, pvars, pc, fdv, buf, calls, last, cfgv, xvars>>

Lowest(S) == CHOOSE x \in S : \A y \in S : x =< y

-----------------------------------------------------------------------------
(* The programs.  An instruction names the call and its operand: the       *)
(* element arr[i] of one of the program's arrays, or the literal            *)
(* descriptor i when arr is "", and the message written.  A fork names the *)
(* code of the child's branch; the parent goes on with what follows.       *)
Ins(op, a, i, m) == [op |-> op, arr |-> a, i |-> i, msg |-> m, child |-> << >>]
Pipe(a) == Ins("pipe", a, 0, "")
Fork(c) == [Ins("fork", "", 0, "") EXCEPT !.child = c]
Read(a, i) == Ins("read", a, i, "")
Write(a, i, m) == Ins("write", a, i, m)
Close(a, i) == Ins("close", a, i, "")
Dup(a, i) == Ins("dup", a, i, "")
Open(n, wr) == Ins("open", "", wr, n)    \* wr = 1: O_CREATE|O_WRONLY; 0: O_RDONLY
Exec(av, pp) == Ins("exec", "", pp, av)  \* pp = 1 inside execPipe
Exit == Ins("exit", "", 0, "")
Op(o) == Ins(o, "", 0, "")

\* pingpong, first version: no descriptor is closed before exit().  The
\* printf calls write to the console and are left out.
PingPong1 ==
  <<Pipe("parent_fd"), Pipe("child_fd"),
    Fork(<<Read("parent_fd", 0), Write("child_fd", 1, "pong"), Exit>>),
    Write("parent_fd", 1, "ping"), Read("child_fd", 0), Exit>>

\* Mutant: the parent's second close names child_fd[0] (the end it reads)
\* instead of child_fd[1].
PingPong2_closeEarly ==
  <<Pipe("parent_fd"), Pipe("child_fd"),
    Fork(<<Close("parent_fd", 1), Read("parent_fd", 0),
           Close("child_fd", 0), Write("child_fd", 1, "pong"),
           Close("child_fd", 1), Close("parent_fd", 0), Exit>>),
    Close("parent_fd", 0), Close("child_fd", 0),
    Write("parent_fd", 1, "ping"), Read("child_fd", 0),
    Close("parent_fd", 1), Close("child_fd", 0), Exit>>

\* pingpong, second version: each side closes the ends it does not use.
PingPong2 ==
  <<Pipe("parent_fd"), Pipe("child_fd"),
    Fork(<<Close("parent_fd", 1), Read("parent_fd", 0),
           Close("child_fd", 0), Write("child_fd", 1, "pong"),
           Close("child_fd", 1), Close("parent_fd", 0), Exit>>),
    Close("parent_fd", 0), Close("child_fd", 1),
    Write("parent_fd", 1, "ping"), Read("child_fd", 0),
    Close("parent_fd", 1), Close("child_fd", 0), Exit>>

-----------------------------------------------------------------------------
(* nsh.  A line is a sequence of characters; Nul stands for '\0' and "VT"  *)
(* for '\v'.  setargs scans the 100-byte buf, getcmd having zeroed it.     *)
Nul == "NUL"
whitespace == {" ", "\t", "\r", "\n", "VT"}

\* strchr(whitespace, c) is not null: c is a whitespace character, or the
\* terminating '\0', which strchr also finds.
InWs(c) == c \in whitespace \cup {Nul}

\* buf holds the line b, and getcmd's memset left '\0' in the rest of it.
Char(b, k) == IF k =< Len(b) THEN b[k] ELSE Nul

\* The index of the first character from j on that does not satisfy InWs
\* (SkipWs, the loop at lines 38-40) or does (SkipWord, lines 43-45).
\* Past the line SkipWs runs through the zeros to MAXLINE + 1, a read past
\* buf, and SkipWord stops at once.
RECURSIVE SkipWs(_, _)
SkipWs(b, j) ==
  IF j > Len(b) THEN MAXLINE + 1 ELSE IF InWs(b[j]) THEN SkipWs(b, j + 1) ELSE j
RECURSIVE SkipWord(_, _)
SkipWord(b, j) ==
  IF j > Len(b) \/ InWs(b[j]) THEN j ELSE SkipWord(b, j + 1)

\* setargs' for loop from index j, argv holding the words found so far.
\* ub: the loop read or wrote past buf, or past argv[MAXARGS - 1].
RECURSIVE SetargsLoop(_, _, _)
SetargsLoop(b, j, av) ==
  LET UB == [ub |-> TRUE, argv |-> << >>]
      s == SkipWs(b, j)
      e == SkipWord(b, s)
  IN IF j > MAXLINE THEN UB
     ELSE IF Char(b, j) \in {"\n", Nul} THEN [ub |-> Len(av) >= MAXARGS, argv |-> av]
     ELSE IF s > MAXLINE \/ Len(av) >= MAXARGS THEN UB
     ELSE SetargsLoop(IF e =< Len(b) THEN [b EXCEPT ![e] = Nul] ELSE b,
                      e + 1, Append(av, SubSeq(b, s, e - 1)))

\* setargs(buf, argv, &argc) on the line l, in a buffer zeroed beyond it.
Setargs(l) == SetargsLoop(l, 1, << >>)

\* argv[k] of a command line; past argc it is the null pointer.
Arg(av, k) == IF k =< Len(av) THEN av[k] ELSE << >>

\* Plumbing that keeps a pipe end the stage does not use (mutants).
PipeLeft_keepRead == <<Close("", 1), Dup("fd", 1), Close("fd", 1)>>
PipeRight_keepWrite == <<Close("", 0), Dup("fd", 0), Close("fd", 0)>>

\* The stdout and stdin plumbing of execPipe's child and parent.
PipeLeft == <<Close("", 1), Dup("fd", 1), Close("fd", 0), Close("fd", 1)>>
PipeRight == <<Close("", 0), Dup("fd", 0), Close("fd", 0), Close("fd", 1)>>

\* runcmd(argv, argc) and execPipe(argv, argc), as the instructions they
\* make a process execute.  runcmd hands a line with a "|" after argv[0]
\* to execPipe, which does not come back when the execs succeed;
\* otherwise the first ">" or "<" after argv[0] closes stdout or stdin,
\* opens argv[i+1] in its place and cuts argv at i; then exec(argv[0]).
\* execPipe cuts argv at the first "|", makes a pipe and forks: the child
\* runs the left part with the pipe as stdout, the parent the right part
\* with the pipe as stdin.
RECURSIVE Runcmd(_, _), ExecPipe(_)
Runcmd(av, pp) ==
  LET At(t) == {k \in 2 .. Len(av) : av[k] = t}
      rd == At(<<">">>) \cup At(<<"<">>)
      i == Lowest(rd)
      out == av[i] = <<">">>
  IN IF At(<<"|">>) # {} THEN ExecPipe(av)
     ELSE IF rd = {} THEN <<Exec(av, pp)>>
     ELSE <<Close("", IF out THEN 1 ELSE 0), Open(Arg(av, i + 1), IF out THEN 1 ELSE 0),
            Exec(SubSeq(av, 1, i - 1), pp)>>
ExecPipe(av) ==
  LET i == Lowest({k \in 1 .. Len(av) : av[k] = <<"|">>})
  IN <<Pipe("fd"), Fork(PipeLeft \o Runcmd(SubSeq(av, 1, i - 1), 1))>>
     \o PipeRight \o Runcmd(SubSeq(av, i + 1, Len(av)), 1)

\* main: while(getcmd(buf) >= 0) { if(fork() == 0) { setargs; runcmd; } wait(0); }
\* exit(0).  getcmd at the end of input jumps to exit, wait back to getcmd.
ShellMain == <<Op("getcmd"), Fork(<<Op("setargs")>>), Op("wait"), Exit>>

\* The programs the scripts run: "e" (echo, writing one message) and "c"
\* (cat: copy stdin to stdout until read returns 0 or -1, exit on a
\* failed write).
Echo == <<Write("", 1, "echo"), Exit>>
Cat == <<Op("catread"), Op("catwrite"), Exit>>
\* "u" is uptime.c: Usage() prints two lines and exits when argv[1] is
\* missing or does not start with a digit; otherwise uptime(), sleep(time)
\* (which change nothing modelled here) and one printf.  printf is one
\* write to fd 1 whose result is ignored.
Digits == {"0", "1", "2", "3", "4", "5", "6", "7", "8", "9"}
Usage == <<Write("", 1, "usage"), Write("", 1, "usage"), Exit>>
Ticks == <<Write("", 1, "ticks"), Exit>>
Uptime(av) ==
  IF Len(av) < 2 \/ Char(av[2], 1) \notin Digits THEN Usage ELSE Ticks
Programs == {Echo, Cat, Usage, Ticks}
Known == {<<"e">>, <<"c">>, <<"u">>}
Program(av) ==
  CASE av[1] = <<"e">> -> Echo
    [] av[1] = <<"c">> -> Cat
    [] av[1] = <<"u">> -> Uptime(av)

\* setargs and runcmd depend on the line alone: their result for each line a
\* script can supply, computed once.
ScriptLines == UNION {{s[k] : k \in 1 .. Len(s)} : s \in Scripts}
Parsed == [l \in ScriptLines |->
             LET r == Setargs(l) IN
             [ub |-> r.ub, argc |-> Len(r.argv), cmd |-> Runcmd(r.argv, 0)]]

\* The program the first process runs.  The Driver's calls are chosen
\* freely; its code is the final exit().
Main ==
  CASE scn = "pingpong1" -> PingPong1
    [] scn = "pingpong2" -> PingPong2
    [] scn = "driver"    -> <<Exit>>
    [] scn = "nsh"       -> ShellMain

Running(p) == state[p] = "run"
Cur(p) == code[p][pc[p]]
Next1(p) == [pc EXCEPT ![p] = @ + 1]
Return(p, c, r) == last' = [p |-> p, call |-> c, r |-> r]

\* The values the descriptor operand of p's instruction may hold: a read of
\* an element pipe() never wrote is a read of uninitialised stack memory.
FdArg(p) ==
  LET v == IF Cur(p).arr = "" THEN Cur(p).i ELSE fdv[p][Cur(p).arr][Cur(p).i]
  IN IF v = Garbage THEN -1 .. NOFILE ELSE {v}

-----------------------------------------------------------------------------
(* Files and pipes.                                                        *)
Holds(p, f) == Cardinality({fd \in Fds : ofile[p][fd] = f})
FreeFiles == {f \in Files : fref[f] = 0}
IsPipe(f) == fend[f] \in {"r", "w"}
\* The pages of the pipes a file with reference counts fr keeps open.
PipePages(fr) == {fpipe[f] : f \in {g \in Files : fr[g] > 0 /\ IsPipe(g)}}
\* pipeclose: the page of a pipe whose last end the step closes goes to
\* kfree.
Reclaim(fr) == kmem' = kmem \cup (PipePages(fref) \ PipePages(fr))
\* kalloc's choice among the free pages.
Kalloc == CHOOSE pg \in kmem : TRUE
EndOpen(pg, e) == \E f \in Files : fref[f] > 0 /\ fpipe[f] = pg /\ fend[f] = e
Readable(f) == fend[f] \in {"r", "con", "ir"}
Writable(f) == fend[f] \in {"w", "con", "iw"}

\* fileclose(f): f->ref--; the last close closes the pipe end or the inode.
fileclose(fr, f) == [fr EXCEPT ![f] = @ - 1]

\* argfd: fd in range and open in p's table.
argfd(p, fd) == fd \in Fds /\ ofile[p][fd] # NoFile

\* fdalloc: the lowest free slot of table t, or -1.
fdalloc(t) ==
  LET free == {fd \in Fds : t[fd] = NoFile}
  IN IF free = {} THEN -1 ELSE Lowest(free)

\* writei of one message at offset k - 1 of the contents s.
PutAt(s, k, m) == IF k =< Len(s) THEN [s EXCEPT ![k] = m] ELSE Append(s, m)

-----------------------------------------------------------------------------
(* The system calls, each the whole call.  The caller's update of its own *)
(* pc is left to the process actions below.                                *)

\* Mutant: the fd1 failure path does not clear ofile[fd0] (line 545).
pipe_undo_keepFd0(t0, fd0) == t0

\* The table sys_pipe leaves when fdalloc(wf) fails: ofile[fd0] is cleared
\* again if fdalloc(rf) filled it.
pipe_undo(t0, fd0) == IF fd0 >= 0 THEN [t0 EXCEPT ![fd0] = NoFile] ELSE t0

\* sys_pipe(fdarray): pipealloc, two fdallocs, two copyouts.  ok says whether
\* fdarray is a writable user address; arr is where the program keeps the fds.
sys_pipe(p, ok, arr) ==
  /\ UNCHANGED <<fname, foff, fdata, fexist, cin, cout>>
  /\ \/ /\ Cardinality(FreeFiles) < 2 \/ kmem = {}
        /\ Return(p, "pipe", -1)
        /\ UNCHANGED <<ofile, fref, fend, fpipe, pbuf, fdv, kmem>>
     \/ /\ Cardinality(FreeFiles) >= 2 /\ kmem # {}
        /\ LET pg == Kalloc
               rf == Lowest(FreeFiles)
               wf == Lowest(FreeFiles \ {rf})
               fr == [fref EXCEPT ![rf] = 1, ![wf] = 1]
               fd0 == fdalloc(ofile[p])
               t0 == IF fd0 >= 0 THEN [ofile[p] EXCEPT ![fd0] = rf] ELSE ofile[p]
               fd1 == IF fd0 >= 0 THEN fdalloc(t0) ELSE -1
               t1 == IF fd1 >= 0 THEN [t0 EXCEPT ![fd1] = wf] ELSE t0
           IN /\ fend' = [fend EXCEPT ![rf] = "r", ![wf] = "w"]
              /\ fpipe' = [fpipe EXCEPT ![rf] = pg, ![wf] = pg]
              /\ pbuf' = [pbuf EXCEPT ![pg] = << >>]
              /\ IF fd0 < 0 \/ fd1 < 0
                   THEN /\ ofile' = [ofile EXCEPT ![p] = pipe_undo(t0, fd0)]
                        /\ fref' = fileclose(fileclose(fr, rf), wf)
                        /\ Return(p, "pipe", -1)
                        /\ UNCHANGED <<fdv, kmem>>
                 ELSE IF ~ok
                   THEN /\ ofile' = [ofile EXCEPT ![p] = [t1 EXCEPT ![fd0] = NoFile, ![fd1] = NoFile]]
                        /\ fref' = fileclose(fileclose(fr, rf), wf)
                        /\ Return(p, "pipe", -1)
                        /\ UNCHANGED <<fdv, kmem>>
                   ELSE /\ ofile' = [ofile EXCEPT ![p] = t1]
                        /\ fref' = fr
                        /\ kmem' = kmem \ {pg}
                        /\ Return(p, "pipe", 0)
                        /\ fdv' = IF arr \in Arrays
                                    THEN [fdv EXCEPT ![p][arr] = [i \in 0 .. 1 |-> IF i = 0 THEN fd0 ELSE fd1]]
                                    ELSE fdv

\* Mutant: sys_dup without filedup (line 71).
sys_dup_noFiledup(p, fd) ==
  LET nfd == fdalloc(ofile[p])
  IN IF ~argfd(p, fd) \/ nfd < 0
       THEN Return(p, "dup", -1) /\ UNCHANGED kvars
       ELSE /\ ofile' = [ofile EXCEPT ![p][nfd] = ofile[p][fd]]
            /\ Return(p, "dup", nfd)
            /\ UNCHANGED <<fref, ftab, pbuf, fdata, fexist, cin, cout, kmem>>

\* sys_dup(fd).
sys_dup(p, fd) ==
  LET nfd == fdalloc(ofile[p])
  IN IF ~argfd(p, fd) \/ nfd < 0
       THEN Return(p, "dup", -1) /\ UNCHANGED kvars
       ELSE /\ ofile' = [ofile EXCEPT ![p][nfd] = ofile[p][fd]]
            /\ fref' = [fref EXCEPT ![ofile[p][fd]] = @ + 1]
            /\ Return(p, "dup", nfd)
            /\ UNCHANGED <<ftab, pbuf, fdata, fexist, cin, cout, kmem>>

\* sys_fstat(fd, st): argfd, then filestat, which copies the inode's stat
\* out to st for an inode or device file and returns -1 for a pipe.
sys_fstat(p, fd) ==
  /\ Return(p, "fstat", IF argfd(p, fd) /\ ~IsPipe(ofile[p][fd]) THEN 0 ELSE -1)
  /\ UNCHANGED kvars

\* Mutant: sys_close without clearing ofile[fd] (line 109).
sys_close_keepSlot(p, fd) ==
  IF ~argfd(p, fd)
    THEN Return(p, "close", -1) /\ UNCHANGED kvars
    ELSE /\ fref' = fileclose(fref, ofile[p][fd])
         /\ Return(p, "close", 0)
         /\ UNCHANGED <<ofile, ftab, pbuf, fdata, fexist, cin, cout>>
         /\ Reclaim(fref')

\* sys_close(fd).
sys_close(p, fd) ==
  IF ~argfd(p, fd)
    THEN Return(p, "close", -1) /\ UNCHANGED kvars
    ELSE /\ ofile' = [ofile EXCEPT ![p][fd] = NoFile]
         /\ fref' = fileclose(fref, ofile[p][fd])
         /\ Return(p, "close", 0)
         /\ UNCHANGED <<ftab, pbuf, fdata, fexist, cin, cout>>
         /\ Reclaim(fref')

\* sys_read(fd, p, 8): argfd, then fileread: -1 unless f->readable, else
\* piperead (not enabled while it sleeps), consoleread, or readi at f->off.
sys_read(p, fd) ==
  IF ~argfd(p, fd) \/ ~Readable(ofile[p][fd])
    THEN Return(p, "read", -1) /\ UNCHANGED <<kvars, buf>>
    ELSE LET f == ofile[p][fd]
             pg == fpipe[f]
             data == fdata[fname[f]]
             Got(m) == buf' = [buf EXCEPT ![p] = m] /\ Return(p, "read", 8)
             Eof == Return(p, "read", 0) /\ UNCHANGED <<kvars, buf>>
         IN \/ /\ fend[f] = "r" /\ pbuf[pg] # << >>
               /\ Got(Head(pbuf[pg]))
               /\ pbuf' = [pbuf EXCEPT ![pg] = Tail(@)]
               /\ UNCHANGED <<ofile, fref, ftab, fdata, fexist, cin, cout, kmem>>
            \/ fend[f] = "r" /\ pbuf[pg] = << >> /\ ~EndOpen(pg, "w") /\ Eof
            \/ /\ fend[f] = "con" /\ cin < Len(script)
               /\ Got("line") /\ cin' = cin + 1
               /\ UNCHANGED <<ofile, fref, ftab, pbuf, fdata, fexist, cout, kmem>>
            \/ fend[f] = "con" /\ cin = Len(script) /\ Eof
            \/ /\ fend[f] = "ir" /\ foff[f] < Len(data)
               /\ Got(data[foff[f] + 1]) /\ foff' = [foff EXCEPT ![f] = @ + 1]
               /\ UNCHANGED <<ofile, fref, fend, fpipe, fname, pbuf, fdata, fexist, cin, cout, kmem>>
            \/ fend[f] = "ir" /\ foff[f] = Len(data) /\ Eof

\* sys_write(fd, m, 8): argfd, then filewrite: -1 unless f->writable, else
\* pipewrite (-1 once the read end is closed, not enabled while the buffer
\* is full), consolewrite, or writei at f->off.
sys_write(p, fd, m) ==
  IF ~argfd(p, fd) \/ ~Writable(ofile[p][fd])
    THEN Return(p, "write", -1) /\ UNCHANGED kvars
    ELSE LET f == ofile[p][fd]
             pg == fpipe[f]
             n == fname[f]
         IN \/ fend[f] = "w" /\ ~EndOpen(pg, "r") /\ Return(p, "write", -1) /\ UNCHANGED kvars
            \/ /\ fend[f] = "w" /\ EndOpen(pg, "r") /\ Len(pbuf[pg]) < PIPESIZE
               /\ pbuf' = [pbuf EXCEPT ![pg] = Append(@, m)]
               /\ Return(p, "write", 8)
               /\ UNCHANGED <<ofile, fref, ftab, fdata, fexist, cin, cout, kmem>>
            \/ /\ fend[f] = "con"
               /\ cout' = Append(cout, m)
               /\ Return(p, "write", 8)
               /\ UNCHANGED <<ofile, fref, ftab, pbuf, fdata, fexist, cin, kmem>>
            \/ /\ fend[f] = "iw"
               /\ fdata' = [fdata EXCEPT ![n] = PutAt(@, foff[f] + 1, m)]
               /\ foff' = [foff EXCEPT ![f] = @ + 1]
               /\ Return(p, "write", 8)
               /\ UNCHANGED <<ofile, fref, fend, fpipe, fname, pbuf, fexist, cin, cout, kmem>>

\* sys_open(n, O_CREATE|O_WRONLY) when wr = 1, sys_open(n, O_RDONLY) when
\* wr = 0, n naming a regular file: create finds or makes it, namei fails
\* when it does not exist; then filealloc and fdalloc, a failure of either
\* closing the file again; f->off = 0 and the mode's end.
sys_open(p, n, wr) ==
  LET f == Lowest(FreeFiles)
      fd == fdalloc(ofile[p])
  IN IF n \notin Names \/ (wr = 0 /\ ~fexist[n])
       THEN Return(p, "open", -1) /\ UNCHANGED kvars
       ELSE /\ fexist' = [fexist EXCEPT ![n] = TRUE]
            /\ IF FreeFiles = {} \/ fd < 0
                 THEN /\ Return(p, "open", -1)
                      /\ UNCHANGED <<ofile, fref, ftab, pbuf, fdata, cin, cout, kmem>>
                 ELSE /\ ofile' = [ofile EXCEPT ![p][fd] = f]
                      /\ fref' = [fref EXCEPT ![f] = 1]
                      /\ fend' = [fend EXCEPT ![f] = IF wr = 1 THEN "iw" ELSE "ir"]
                      /\ fname' = [fname EXCEPT ![f] = n]
                      /\ foff' = [foff EXCEPT ![f] = 0]
                      /\ Return(p, "open", fd)
                      /\ UNCHANGED <<fpipe, pbuf, fdata, cin, cout, kmem>>

\* allocproc: the lowest UNUSED slot, or 0 when the table is full.
allocproc == LET free == {c \in Procs : state[c] = "unused"}
             IN IF free = {} THEN 0 ELSE Lowest(free)

\* Mutant: the bad path returns -1 without its kfree loop.
exec_bad_noFree(p, km, av) == kmem' = km /\ argv' = [argv EXCEPT ![p] = << >>]

\* After exec, kfree every page of argv (lines 515-520); km is the free
\* list the loop starts from.
exec_free(p, km, av) ==
  kmem' = km \cup {av[k] : k \in DOMAIN av} /\ argv' = [argv EXCEPT ![p] = << >>]

\* bad: the same loop before return -1 (lines 522-525).
exec_bad(p, km, av) ==
  kmem' = km \cup {av[k] : k \in DOMAIN av} /\ argv' = [argv EXCEPT ![p] = << >>]

\* One pass i = Len(argv[p]) of sys_exec's loop over the user's argv (lines
\* 491-513), and where the pass leaves the loop the rest of the call.  The
\* user's argv holds n strings, the last one at a readable address when ok;
\* found says whether exec(path) finds the program, which then returns argc.
\* Ok is the caller's step when the call returns argc, Fail its step when it
\* returns -1, and Wait its step when the loop goes on.
sys_exec(p, n, ok, found, Ok, Fail, Wait) ==
  LET i == Len(argv[p]) IN
  /\ UNCHANGED <<ofile, fref, ftab, pbuf, fdata, fexist, cin, cout>>
  /\ \/ /\ i >= MAXARG
        /\ exec_bad(p, kmem, argv[p]) /\ Fail /\ UNCHANGED panicked
     \/ /\ i < MAXARG /\ i = n
        /\ exec_free(p, kmem, argv[p]) /\ IF found THEN Ok ELSE Fail
        /\ UNCHANGED panicked
     \/ /\ i < MAXARG /\ i < n /\ kmem = {}
        /\ panicked' = TRUE /\ Wait /\ UNCHANGED <<kmem, argv>>
     \/ /\ i < MAXARG /\ i < n /\ kmem # {}
        /\ LET av == Append(argv[p], Kalloc)
               km == kmem \ {Kalloc}
           IN IF ~ok /\ i = n - 1
                THEN exec_bad(p, km, av) /\ Fail
                ELSE kmem' = km /\ argv' = [argv EXCEPT ![p] = av] /\ Wait
        /\ UNCHANGED panicked

\* fork(): the child gets a copy of the parent's table, each file filedup'ed,
\* and of its memory; it starts on the code cc of fork() == 0's branch.
fork(p, c, cc) ==
  /\ ofile' = [ofile EXCEPT ![c] = ofile[p]]
  /\ fref' = [f \in Files |-> fref[f] + Holds(p, f)]
  /\ state' = [state EXCEPT ![c] = "run"]
  /\ par' = [par EXCEPT ![c] = p]
  /\ code' = [code EXCEPT ![c] = cc]
  /\ line' = [line EXCEPT ![c] = line[p]]
  /\ fdv' = [fdv EXCEPT ![c] = fdv[p]]
  /\ buf' = [buf EXCEPT ![c] = buf[p]]
  /\ Return(p, "fork", c)
  /\ UNCHANGED <<ftab, pbuf, fdata, fexist, cin, cout, kmem>>

\* exit(): fileclose every open descriptor, give the children to init and
\* become a ZOMBIE for the parent's wait().
exit(p) ==
  /\ ofile' = [ofile EXCEPT ![p] = [fd \in Fds |-> NoFile]]
  /\ fref' = [f \in Files |-> fref[f] - Holds(p, f)]
  /\ state' = [state EXCEPT ![p] = "zombie"]
  /\ par' = [c \in Procs |-> IF par[c] = p THEN 0 ELSE par[c]]
  /\ Return(p, "exit", 0)
  /\ UNCHANGED <<ftab, pbuf, fdata, fexist, cin, cout, code, line>>
  /\ Reclaim(fref')

Children(p) == {c \in Procs : par[c] = p /\ state[c] # "unused"}

\* wait(0): free a ZOMBIE child and return its pid, return -1 at once when
\* p has no children, and sleep while every child still runs.
wait(p) ==
  \/ \E c \in Children(p) :
       /\ state[c] = "zombie"
       /\ state' = [state EXCEPT ![c] = "unused"]
       /\ Return(p, "wait", c)
  \/ /\ Children(p) = {}
     /\ Return(p, "wait", -1)
     /\ UNCHANGED state

-----------------------------------------------------------------------------
(* The processes.  A program's process executes its next instruction; the  *)
(* Driver makes up to MaxCalls calls with any arguments, then exits.       *)
At(p, o) == Running(p) /\ Cur(p).op = o

pp_pipe(p) ==
  /\ At(p, "pipe")
  /\ sys_pipe(p, TRUE, Cur(p).arr)
  /\ pc' = Next1(p)
  /\ UNCHANGED <<pvars, buf, calls, cfgv>>

\* if(fork() == 0): the child runs the branch, the parent the code after
\* it; when allocproc finds no slot fork returns -1 and only the parent goes on.
pp_fork(p) ==
  /\ At(p, "fork")
  /\ LET c == allocproc IN
     IF c = 0
       THEN /\ Return(p, "fork", -1)
            /\ pc' = Next1(p)
            /\ UNCHANGED <<kvars, pvars, fdv, buf>>
       ELSE /\ fork(p, c, Cur(p).child)
            /\ pc' = [pc EXCEPT ![p] = @ + 1, ![c] = 1]
  /\ UNCHANGED <<calls, cfgv>>

pp_read(p) ==
  /\ At(p, "read")
  /\ \E fd \in FdArg(p) : sys_read(p, fd)
  /\ pc' = Next1(p)
  /\ UNCHANGED <<pvars, fdv, calls, cfgv>>

pp_write(p) ==
  /\ At(p, "write")
  /\ \E fd \in FdArg(p) : sys_write(p, fd, Cur(p).msg)
  /\ pc' = Next1(p)
  /\ UNCHANGED <<pvars, fdv, buf, calls, cfgv>>

pp_close(p) ==
  /\ At(p, "close")
  /\ \E fd \in FdArg(p) : sys_close(p, fd)
  /\ pc' = Next1(p)
  /\ UNCHANGED <<pvars, fdv, buf, calls, cfgv>>

pp_dup(p) ==
  /\ At(p, "dup")
  /\ \E fd \in FdArg(p) : sys_dup(p, fd)
  /\ pc' = Next1(p)
  /\ UNCHANGED <<pvars, fdv, buf, calls, cfgv>>

pp_open(p) ==
  /\ At(p, "open")
  /\ sys_open(p, Cur(p).msg, Cur(p).i)
  /\ pc' = Next1(p)
  /\ UNCHANGED <<pvars, fdv, buf, calls, cfgv>>

\* exec(argv, argv[0]) goes through sys_exec, which copies each string of
\* argv into a page of its own first.  exec keeps the descriptor table and
\* starts the program argv[0] names.  When it names none, exec returns -1
\* and runcmd returns into main, whose child goes on at wait(0) and from
\* there reads the next line itself.  A failed exec inside execPipe would
\* return into runcmd's loop over argv with argv[i] cut to null.  The
\* scripts name only programs that exist there, and the return is left
\* disabled.
pp_exec(p) ==
  /\ At(p, "exec")
  /\ LET av == Cur(p).msg
         found == av # << >> /\ av[1] \in Known
         Started == /\ code' = [code EXCEPT ![p] = Program(av)]
                    /\ pc' = [pc EXCEPT ![p] = 1]
                    /\ Return(p, "exec", Len(av))
         Failed == /\ Cur(p).i = 0
                   /\ code' = [code EXCEPT ![p] = ShellMain]
                   /\ pc' = [pc EXCEPT ![p] = 3]
                   /\ Return(p, "exec", -1)
     IN sys_exec(p, Len(av), TRUE, found, Started, Failed, UNCHANGED <<code, pc, last>>)
  /\ UNCHANGED <<state, par, line, fdv, buf, calls, cfgv, uarg>>

pp_exit(p) ==
  /\ At(p, "exit")
  /\ exit(p)
  /\ UNCHANGED <<pc, fdv, buf, calls, cfgv>>

\* getcmd: gets(buf, MAXLINE) reads fd 0, which the console answers with
\* the next typed line; at the end of the input (or with fd 0 closed) buf[0]
\* stays 0 and main leaves its loop for exit(0).  A shell whose fd 0 is a
\* pipe or a file is not reached by the scripts, and the step is disabled.
pp_getcmd(p) ==
  /\ At(p, "getcmd")
  /\ ofile[p][0] = NoFile \/ fend[ofile[p][0]] = "con"
  /\ IF ofile[p][0] # NoFile /\ cin < Len(script)
       THEN /\ line' = [line EXCEPT ![p] = script[cin + 1]]
            /\ cin' = cin + 1
            /\ pc' = Next1(p)
       ELSE /\ pc' = [pc EXCEPT ![p] = @ + 3]
            /\ UNCHANGED <<line, cin>>
  /\ Return(p, "getcmd", 0)
  /\ UNCHANGED <<ofile, fref, ftab, pbuf, fdata, fexist, cout, kmem, state, par,
                 code, fdv, buf, calls, cfgv>>

\* The forked child: setargs(buf, argv, &argc), then runcmd(argv, argc).
\* When setargs reads past buf, it goes on into the stack above it, writes
\* '\0's there and takes words out of it: the model lets that end in a
\* fault that kills the child, or in words naming no program, an exec that
\* fails and the child back in main's loop.
pp_setargs(p) ==
  /\ At(p, "setargs")
  /\ LET r == Parsed[line[p]] IN
     IF ~r.ub
       THEN /\ code' = [code EXCEPT ![p] = r.cmd]
            /\ pc' = [pc EXCEPT ![p] = 1]
            /\ Return(p, "setargs", r.argc)
            /\ UNCHANGED <<kvars, state, par, line>>
       ELSE \/ exit(p) /\ UNCHANGED pc
            \/ /\ code' = [code EXCEPT ![p] = ShellMain]
               /\ pc' = [pc EXCEPT ![p] = 3]
               /\ Return(p, "setargs", -1)
               /\ UNCHANGED <<kvars, state, par, line>>
  /\ UNCHANGED <<fdv, buf, calls, cfgv>>

\* main's wait(0), then back to getcmd.
pp_wait(p) ==
  /\ At(p, "wait")
  /\ wait(p)
  /\ pc' = [pc EXCEPT ![p] = @ - 2]
  /\ UNCHANGED <<kvars, par, code, line, fdv, buf, calls, cfgv>>

\* cat: while((n = read(0, buf, sizeof buf)) > 0) write(1, buf, n) == n
\* or exit; then exit.
pp_catread(p) ==
  /\ At(p, "catread")
  /\ sys_read(p, 0)
  /\ pc' = [pc EXCEPT ![p] = IF last'.r > 0 THEN @ + 1 ELSE @ + 2]
  /\ UNCHANGED <<pvars, fdv, calls, cfgv>>

pp_catwrite(p) ==
  /\ At(p, "catwrite")
  /\ sys_write(p, 1, buf[p])
  /\ pc' = [pc EXCEPT ![p] = IF last'.r > 0 THEN @ - 1 ELSE @ + 1]
  /\ UNCHANGED <<pvars, fdv, buf, calls, cfgv>>

\* init's wait loop frees every ZOMBIE it inherited.
init_reap(c) ==
  /\ state[c] = "zombie" /\ par[c] = 0
  /\ state' = [state EXCEPT ![c] = "unused"]
  /\ UNCHANGED <<kvars, par, code, line, pc, fdv, buf, calls, last, cfgv>>

\* Descriptor arguments of the Driver: every slot, and one out of range on
\* each side.
DrvArgs == -1 .. NOFILE

DrvCall(p) ==
  /\ scn = "driver" /\ p = Parent /\ Running(p) /\ argv[p] = << >>
  /\ calls < MaxCalls /\ calls' = calls + 1

drv_pipe(p) ==
  /\ DrvCall(p)
  /\ \E ok \in BOOLEAN : sys_pipe(p, ok, "")
  /\ UNCHANGED <<pvars, pc, buf, cfgv>>

drv_dup(p) ==
  /\ DrvCall(p)
  /\ \E fd \in DrvArgs : sys_dup(p, fd)
  /\ UNCHANGED <<pvars, pc, fdv, buf, cfgv>>

drv_close(p) ==
  /\ DrvCall(p)
  /\ \E fd \in DrvArgs : sys_close(p, fd)
  /\ UNCHANGED <<pvars, pc, fdv, buf, cfgv>>

\* A read or write that would sleep forever (the Driver being the only other
\* end) is not enabled, so the Driver makes no such call.
drv_read(p) ==
  /\ DrvCall(p)
  /\ \E fd \in DrvArgs : sys_read(p, fd)
  /\ UNCHANGED <<pvars, pc, fdv, cfgv>>

drv_write(p) ==
  /\ DrvCall(p)
  /\ \E fd \in DrvArgs : sys_write(p, fd, "ping")
  /\ UNCHANGED <<pvars, pc, fdv, buf, cfgv>>

drv_fstat(p) ==
  /\ DrvCall(p)
  /\ \E fd \in DrvArgs : sys_fstat(p, fd)
  /\ UNCHANGED <<pvars, pc, fdv, buf, cfgv>>

\* exec(path, argv) with a path that names no program, and an argv of one
\* string or of MAXARG strings, the last at a readable address or not.  The
\* call goes on with drv_exec_next until it returns.
drv_exec(p) ==
  /\ DrvCall(p)
  /\ \E n \in {1, MAXARG}, ok \in BOOLEAN :
       /\ uarg' = [uarg EXCEPT ![p] = [n |-> n, ok |-> ok]]
       /\ sys_exec(p, n, ok, FALSE, Return(p, "exec", n), Return(p, "exec", -1),
                   UNCHANGED last)
  /\ UNCHANGED <<pvars, pc, fdv, buf, cfgv>>

drv_exec_next(p) ==
  /\ scn = "driver" /\ p = Parent /\ argv[p] # << >>
  /\ sys_exec(p, uarg[p].n, uarg[p].ok, FALSE, Return(p, "exec", uarg[p].n),
              Return(p, "exec", -1), UNCHANGED last)
  /\ UNCHANGED <<pvars, pc, fdv, buf, calls, cfgv, uarg>>

\* Slot 1 is the first process of the program: nsh starts as init left it,
\* with the console open on fds 0, 1 and 2; the other programs start with an
\* empty table.
Init ==
  /\ scn \in Scenarios
  /\ script \in IF scn = "nsh" THEN Scripts ELSE {<< >>}
  /\ ofile = [p \in Procs |-> [fd \in Fds |->
               IF scn = "nsh" /\ p = Parent /\ fd =< 2 THEN Console ELSE NoFile]]
  /\ fref = [f \in Files |-> IF scn = "nsh" /\ f = Console THEN 3 ELSE 0]
  /\ fend = [f \in Files |-> IF scn = "nsh" /\ f = Console THEN "con" ELSE "r"]
  /\ fpipe = [f \in Files |-> CHOOSE pg \in Pages : TRUE]
  /\ fname = [f \in Files |-> CHOOSE n \in Names : TRUE]
  /\ foff = [f \in Files |-> 0]
  /\ pbuf = [pg \in Pages |-> << >>]
  /\ fdata = [n \in Names |-> << >>]
  /\ fexist = [n \in Names |-> FALSE]
  /\ cin = 0
  /\ cout = << >>
  /\ state = [p \in Procs |-> IF p = Parent THEN "run" ELSE "unused"]
  /\ par = [p \in Procs |-> 0]
  /\ code = [p \in Procs |-> IF p = Parent THEN Main ELSE << >>]
  /\ pc = [p \in Procs |-> 1]
  /\ line = [p \in Procs |-> << >>]
  /\ fdv = [p \in Procs |-> [a \in Arrays |-> [i \in 0 .. 1 |-> Garbage]]]
  /\ buf = [p \in Procs |-> Garbage]
  /\ calls = 0
  /\ last = [p |-> Parent, call |-> "none", r |-> 0]
  /\ kmem = Pages
  /\ argv = [p \in Procs |-> << >>]
  /\ uarg = [p \in Procs |-> [n |-> 0, ok |-> TRUE]]
  /\ panicked = FALSE

\* After a panic no process runs again.
Step(p) ==
  /\ ~panicked
  /\ \/ /\ \/ pp_pipe(p) \/ pp_fork(p) \/ pp_read(p) \/ pp_write(p)
           \/ pp_close(p) \/ pp_dup(p) \/ pp_open(p) \/ pp_exit(p)
           \/ pp_getcmd(p) \/ pp_setargs(p) \/ pp_wait(p) \/ pp_catread(p)
           \/ pp_catwrite(p) \/ init_reap(p)
           \/ drv_pipe(p) \/ drv_dup(p) \/ drv_close(p) \/ drv_read(p)
           \/ drv_write(p) \/ drv_fstat(p)
        /\ UNCHANGED xvars
     \/ pp_exec(p) \/ drv_exec(p) \/ drv_exec_next(p)

\* Every process has exited and init has freed it, or the kernel panicked.
Done == (panicked \/ \A p \in Procs : state[p] = "unused") /\ UNCHANGED vars

Next == (\E p \in Procs : Step(p)) \/ Done

\* The scheduler runs every RUNNABLE process and init's wait loop; a process
\* asleep in piperead, pipewrite or wait is not enabled until its wakeup.
Spec == Init /\ [][Next]_vars /\ \A p \in Procs : WF_vars(Step(p))

-----------------------------------------------------------------------------
Items == {"ping", "pong", "echo", "line", "usage", "ticks"}

TypeOK ==
  /\ ofile \in [Procs -> [Fds -> Files \cup {NoFile}]]
  /\ fref \in [Files -> Nat]
  /\ fend \in [Files -> {"r", "w", "con", "ir", "iw"}]
  /\ fpipe \in [Files -> Pages]
  /\ fname \in [Files -> Names]
  /\ foff \in [Files -> Nat]
  /\ pbuf \in [Pages -> Seq(Items)]
  /\ \A pg \in Pages : Len(pbuf[pg]) =< PIPESIZE
  /\ fdata \in [Names -> Seq(Items)]
  /\ cin \in 0 .. Len(script)
  /\ cout \in Seq(Items)
  /\ state \in [Procs -> {"unused", "run", "zombie"}]
  /\ par \in [Procs -> Procs \cup {0}]
  /\ pc \in [Procs -> Nat]
  /\ fdv \in [Procs -> [Arrays -> [0 .. 1 -> Fds \cup {-1, Garbage}]]]
  /\ calls \in 0 .. MaxCalls
  /\ kmem \subseteq Pages
  /\ argv \in [Procs -> Seq(Pages)] /\ \A p \in Procs : Len(argv[p]) =< MAXARG
  /\ uarg \in [Procs -> [n : 0 .. MAXARG, ok : BOOLEAN]]
  /\ panicked \in BOOLEAN

\* Each struct file's ref is exactly the number of descriptor slots, over all
\* processes, that name it: sys_dup and fork add one per new slot, sys_close
\* and exit drop one per slot cleared, and sys_pipe's two failure paths
\* (sysfile.c 543-548 and 552-558) clear every slot they filled and close
\* both files.  A ref above the count is a file and pipe page never freed; a
\* ref below it is a slot naming a freed file that filealloc hands out again.
FileRefsExact ==
  \A f \in Files :
    fref[f] = Cardinality({pf \in Procs \X Fds : ofile[pf[1]][pf[2]] = f})

\* Every page is in exactly one place: on kalloc's free list, holding the
\* struct pipe of a pipe some open file names, or in the argv[] of a
\* sys_exec in progress.  Pages change place by pipealloc and sys_exec's
\* kalloc on any CPU, by the last close of a pipe's two ends through close()
\* or exit(), and by sys_exec's two kfree loops, after exec and on bad.  A
\* page in two places is handed out twice; a page in none is lost for good.
PagesAccounted ==
  LET held(p) == {argv[p][k] : k \in DOMAIN argv[p]}
      pipes == PipePages(fref)
  IN /\ kmem \cap pipes = {}
     /\ \A p \in Procs : /\ held(p) \cap (kmem \cup pipes) = {}
                         /\ Cardinality(held(p)) = Len(argv[p])
     /\ \A p, q \in Procs : p # q => held(p) \cap held(q) = {}
     /\ kmem \cup pipes \cup UNION {held(p) : p \in Procs} = Pages

\* A pipe() that returns -1 leaves the caller's descriptor table, every
\* file's reference count and the set of free pages as they were: the
\* pipealloc, fdalloc and copyout steps it made are all undone.  (A step of
\* sys_exec that does not return leaves last as it was, and moves a page.)
PipeFailLeavesNoTrace ==
  [][last'.call = "pipe" /\ last'.r = -1 /\ UNCHANGED xvars =>
       /\ ofile' = ofile
       /\ fref' = fref
       /\ kmem' = kmem]_vars

\* Both pingpong programs end with both processes exited, the child having
\* read "ping" and the parent "pong": neither read() waits forever and
\* neither returns early at end of file or on a closed descriptor.
PingPongExchanges ==
  scn \in {"pingpong1", "pingpong2"} =>
    <>(~Running(Parent) /\ ~Running(Child) /\ buf[Child] = "ping" /\ buf[Parent] = "pong")

\* The processes above p: its parent, the parent's parent, and so on.
Ancestors(p) ==
  LET RECURSIVE Up(_, _)
      Up(q, k) == IF q = 0 \/ k = 0 THEN {} ELSE {q} \cup Up(par[q], k - 1)
  IN Up(par[p], NPROC)

\* Every program nsh execs in a pipeline holds the pipe it reads only as
\* stdin and the pipe it writes only as stdout, and no other pipe end:
\* execPipe's child and parent each close(1) or close(0), dup the end they
\* keep into the slot just freed (fdalloc takes the lowest), and close both
\* pipe descriptors, and a nested execPipe does the same again.  A pipe end
\* left in another slot is a write end that keeps the reader from seeing
\* end of file, or a read end that keeps the writer from failing.
StagesWired ==
  \A p \in Procs :
    Running(p) /\ code[p] \in Programs =>
      \A fd \in Fds :
        LET f == ofile[p][fd] IN
        f # NoFile /\ IsPipe(f) => fd = IF fend[f] = "r" THEN 0 ELSE 1

\* Whatever is typed, nsh and every process it starts eventually exit: each
\* stage of a pipeline sees end of file once the stage before it exits,
\* each wait(0) returns, and the shell reads the end of the input.
PipelineDrains ==
  scn = "nsh" => <>(\A p \in Procs : ~Running(p))

\* When a shell reads its next command, the command before has finished:
\* every process still running is the shell itself or an ancestor waiting
\* for it.  nsh's main waits for the child it forked (nsh.c 127), and that
\* child runs the last stage of a pipeline itself.
NoStrayStage ==
  \A p \in Procs :
    At(p, "getcmd") => \A q \in Procs : Running(q) => q = p \/ q \in Ancestors(p)
====
