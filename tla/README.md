# TLA+ models of the xv6-riscv kernel: file system, descriptors, page allocator and shell

This directory holds TLA+ specifications of the kernel file system in this
repository, together with the TLC configurations that check them. The source is
spread over three places:

- `src/unnamed/part_000` is `kernel/fs.c`;
- `src/kernel/sysfile.c` holds the system calls, including the symlink
  extension (lines 1-588), and two versions of the user program pingpong
  (lines 589-609 and 610-638);
- `src/unnamed/part_001` is `kernel/kalloc.c`, the per-CPU page allocator;
- `src/user/nsh.c` is a small shell with pipes and redirection, and
  `src/user/uptime.c` a program it can run.

The remaining parts (`part_002` to `part_009`) are other user programs.

## The system and how its parts interact

A system call in `sysfile.c` (open, link, unlink, symlink, close, mkdir,
mknod, chdir) resolves
paths with `namex` (fs.c 692-729). `namex` walks directories one component at a
time, using `dirlookup` and `dirlink`, and gets and locks inodes through the
**inode cache**:

- `iget` and `idup` take a reference to a cache slot under the spin-lock
  `icache.lock`.
- `ilock` takes the slot's sleep-lock and loads the on-disk inode (the dinode)
  if the slot is not valid.
- `iunlock` releases that sleep-lock.
- `iput` drops the reference. When the last reference to an inode with no
  links goes, `iput` holds `icache.lock` while it takes the sleep-lock,
  truncates the inode, writes type 0 to the dinode and clears `valid`.

Several processes run system calls at once. They interact only through:

- the cache slots (`ref`, `valid`, the sleep-locks);
- `icache.lock`;
- the directory entries;
- the dinodes.

The log (`begin_op`/`end_op`) and the buffer cache are external to this
repository. They make each call's writes atomic with respect to a crash, and
they are not modelled.

Symlinks are this repository's extension:

- `sys_symlink` creates a `T_SYMLINK` inode and stores the target in
  `ip->target`.
- `sys_open` follows symlinks through `symfollow` (sysfile.c 317-339), unless
  `O_NOFOLLOW` is given, for at most ten hops.

The descriptor calls (`sys_dup`, `sys_read`, `sys_write`, `sys_close`,
`sys_pipe`) work on the calling process's table `p->ofile[NOFILE]`:

- `argfd` checks a descriptor number;
- `fdalloc` takes the lowest free slot.

They reach the file table, pipes and processes through `filedup`,
`fileclose`, `pipealloc`, `piperead`, `pipewrite`, `fork`, `exit` and
`wait`. Those are in `file.c`, `pipe.c` and `proc.c`, which this repository
does not contain.

`sys_exec` copies each argument string into a page of its own from
`kalloc` (part_001, the per-CPU page allocator), and `kfree`s them all when
exec returns. Every pipe holds a page from the same allocator until both of
its ends are closed. Pipes and execs on different CPUs therefore draw on one
pool of pages.

nsh (`src/user/nsh.c`) is the user program that puts this layer to work. Its
`main` reads a line with `getcmd`, forks, and waits. The child splits the
line into words with `setargs` and runs it with `runcmd`:

- `>` and `<` close stdout or stdin and open the file in its place;
- `|` goes to `execPipe`, which makes a pipe and forks. The child runs the
  left part with the pipe as stdout, and the parent runs the right part with
  the pipe as stdin. Each uses close, dup and close to move the pipe end.

A pipeline is therefore a tree of processes. Only its root is main's child.

pingpong opens two pipes, forks, and the two processes send each other one
8-byte message.

## Modules

| Module | Models | Source |
|---|---|---|
| `ICache` | The inode cache: iget, ilock, iunlock, iput (with the free path split into its steps) | fs.c 243-367 |
| `Sysfile` | namex and the system calls open (with create and symfollow), link, unlink, symlink, mkdir, mknod, chdir and close, run by several processes over `ICache` | sysfile.c 100-453, 456-479, 563-588; fs.c 196-216, 586-742 |
| `MCSysfile` | Model values and the calls each process may make, for TLC | none |
| `FsBlocks` | The block layer: balloc/bfree, bmap (direct, singly- and doubly-indirect), itrunc, readi and writei | fs.c 24-104, 378-574 |
| `AbsFile` | What the block layer promises: each file is a byte sequence that only writes and truncation change | none (spec 4.F) |
| `MCFsBlocks` | The calls the process may make, for TLC | none |
| `KAlloc` | The per-CPU page allocator: kinit, kfree, kalloc and steal on several CPUs | part_001 21-137 |
| `AbsPageAlloc` | What the allocator promises: one pool; kalloc hands out a free page, kfree returns one | none (kalloc.c comments) |
| `MCKAlloc` | Pages, boot order and the call sequence of each CPU, for TLC | none |
| `SysFd` | argfd, fdalloc, sys_dup, sys_read, sys_write, sys_close, sys_fstat, sys_pipe, sys_exec with its argument pages, sys_open of a regular file; fork, exit and wait over a process table; both pingpong programs, nsh and uptime | sysfile.c 22-124, 342-415, 481-561, 589-638; part_001 116-136; nsh.c 9-131; uptime.c 3-21 |
| `MCSysFd` | Pages, file names and the lines typed to nsh, for TLC | none |

### ICache

The state is one function per field of `struct inode` that a property tells
apart:

- `sinum`, `ref`, `valid`, `stype`, `snlink` and `starget` for the fields;
- `slock` for the holder of the sleep-lock;
- `icache` for the holder of `icache.lock` on iput's free path;
- `dtype` and `dnlink` for the dinodes (type and nlink of every inode number).

Fields that are left out:

- `major` and `minor`: no device files are created.
- `size` and `addrs`: these are the block map's business.
- `dev`: there is one device.

Critical sections of `icache.lock` that never block (iget, idup, the fast path
of iput) are single steps. The free path of iput is three steps:

- `iput_sleep`: acquiresleep while holding `icache.lock`, then release it;
- `iput_trunc`: itrunc, type 0, iupdate, valid 0, releasesleep;
- `iput_dec`: ref--.

Each step is a place where another process can run. `ilock` is an action of
its own because a process waits there.

A subroutine call is a return label. `CallILock(p, s, ret)` and
`CallIput(p, s, ret)` set the argument and return label, and jump.

### Sysfile

The name space is the root directory:

- `dirent` maps each name in `Names` to an inode number (0 for a free entry).
- A path is `/x` for a name `x`, or `/` (`RootPath`), or the empty string
  (`NoName`). The empty string is what `namei` sees when a symlink's
  `ip->target` was never set in its cache slot, and it resolves from the
  process's cwd.
- `cwd[p]` is the cache slot `p->cwd` points to. Every process starts in the
  root, and the cwd holds one reference to its slot.
- A directory made by mkdir holds only `.` and `..`, because every named path
  is in the root. So unlink's `isdirempty` test is always true. Creating a
  directory raises the root's nlink for `..` (`DotDot`), and unlinking one
  lowers it again.

Each system call is a chain of actions, one per stretch of code between two
places where the process may wait or another may run:

- `start` picks a call from `Program[p]`, and `namex` follows (`nx_start`,
  `nx_look`).
- open without `O_CREATE`: `open_got`, `open_chk`, then `sf_got`/`sf_chk` for
  symfollow, then `open_fd`.
- create: `cr_dp`, `cr_look` (dirlookup or ialloc), `cr_exist`, `cr_init`.
- symlink: create, then `sl_set`.
- link: `ln_got`, `ln_inc`, `ln_dp`, `ln_dirlink`, `ln_done` or the rollback
  `ln_dec`.
- unlink: `ul_dp`, `ul_look`, `ul_rm`, `ul_dec`.
- mkdir: create with type `T_DIR`, then `mk_done` (iunlockput).
- mknod: create with type `T_DEVICE`, then `mn_done` (iunlockput). The
  device's major number is taken to be valid, so sys_open's device check
  never fails.
- chdir: namei, then `cd_got` (ilock), `cd_chk` (the `T_DIR` test, iunlock,
  and iput of the old cwd), `cd_set`.
- close: `sys_close`.

Each action holds every state change of its stretch of code. For example,
`ul_rm` zeroes the entry, unlocks the directory and calls iput on it.

`symTarget` is a history variable: the target each symlink inode was created
with. `SymlinkTargetKept` compares the slot's target against it.

A process has one file descriptor. `NOFILE` is abstracted to one, so a second
open fails in `fdalloc`, as it does when the table is full.

### FsBlocks

One process makes readi, writei and itrunc calls on a few inodes. The caller
of these functions holds the inode's sleep-lock, so calls on one inode never
overlap, and balloc and bfree hold the bitmap buffer's lock, so each is one
step. The state:

- `bitmap`: the blocks whose bit is set;
- `addrs[ip]`: `ip->addrs`, with `NDIRECT` direct entries, the indirect and
  the doubly-indirect block;
- `tbl[b]` and `data[b]`: block `b` read as a table of block numbers and as
  bytes. `bzero` clears both;
- `size[ip]`: `ip->size`;
- `pinned`: the blocks `log_write` has pinned in the buffer cache during the
  current call;
- `pc`, `cur`, `buf`, `ret`: the call in progress, the bytes readi copied, the
  value returned.

bmap, balloc and itrunc's free order are pure operators over a record of the
state. `BmapSet` returns a set of outcomes because of one race: bmap releases
the doubly-indirect buffer (fs.c 421) and reads `a[singlyIndirect]` from it
afterwards. When `RecycleReleased` is TRUE and the buffer is not pinned,
another CPU may have reused the buffer, and the read returns an entry of any
block.

The loops of readi and writei are one action per block (`rd_loop`,
`wr_loop`). A copy to or from user space may fail, which breaks the loop.

`off` and `n` are `uint`s and wrap modulo `2^UINT_BITS`, which is what
writei's `off + n < off` check is about.

`Content(ip)` is the byte sequence bmap reaches for offsets below the size.
Through it `FsBlocks` is shown to implement `AbsFile` (`ImplementsAbsFile`).

### KAlloc

Each CPU runs a fixed sequence of kalloc and kfree calls (`Program`). A
spin-lock holder runs with interrupts off, so the CPU is the actor. Each
action is one stretch of code between two lock operations:

- kfree: `kf_acq` and `kf_push`;
- kalloc: `ka_acq`, `ka_body`, then, on an empty own list, steal's loop
  (`st_next`, `st_acq`, `st_body`), then `ka_rel`.

steal takes each other CPU's lock while kalloc still holds its own. `kmem[i]`
is list `i` as a sequence, head first. `held[c]` is the pages CPU `c`'s code
holds. The refinement maps the union of the lists to `AbsPageAlloc`'s pool,
and `held` plus kalloc's `r` to its owned pages.

### SysFd

The state is the per-process table `ofile`, and each file's `fref`, its pipe
end `fend` and its pipe `fpipe`. A pipe is named by its page, and `pbuf`
holds its unread messages. Each system call is one action, with every early
return, because it touches only the caller's table and objects under their
own spin-locks. A call that would sleep (piperead on an empty pipe with an
open writer, pipewrite on a full one) is a step that is not enabled.

The external code is modelled by its xv6 contract:

- `fileclose` drops the ref.
- A pipe end is open while a file with a nonzero ref stands for it.
- `kmem` is kalloc's free list as one pool of pages: the single pool that
  `KAlloc` is shown to implement (`ImplementsAbsPageAlloc`). `Kalloc` hands
  out a fixed free page. Pages are interchangeable, so which one does not
  matter.
- `pipealloc` takes the two lowest free files and a page from `kmem`, or fails
  and changes nothing.
- `pipeclose` gives the page back (`Reclaim`) when a close or an exit drops
  the last reference to the pipe's second end.

`sys_pipe` is written statement by statement: pipealloc, `fd0`, `fd1`, then
the two copyouts. Each failure path clears the slots it filled and closes
both files.

A regular file is a name in `Names` with its contents `fdata` (a sequence
of messages) and `fexist`. A file-table entry on it has the name `fname` and
the offset `foff`, with `fend` "ir" or "iw". `sys_open` models the two modes
nsh uses. `O_CREATE|O_WRONLY` finds or creates the file, and `O_RDONLY` fails
when the file is missing. A failure of filealloc or fdalloc returns -1. The
console is file 1 (`fend` "con"). Reads from it return the script's next
line, and writes to it append to `cout`.

`sys_exec` is one step per pass of its loop over the user's argv. Each
step checks `i >= NELEM(argv)` (bound `MAXARG`), then the terminating null,
then takes a page with kalloc, and panics when none is free. A failed
fetchstr after the kalloc goes to `bad`. The pages taken so far are
`argv[p]`, and they stay out of `kmem` between steps while other processes
run. When the loop ends, exec starts the program or returns -1, and
`exec_free` returns every page; `bad` returns them with `exec_bad`. A panic
sets `panicked` and no process moves again. `sys_fstat` returns -1 unless
argfd finds an inode or device file.

The process table is `state` (UNUSED, RUNNING, ZOMBIE) and `par`, the parent,
where 0 is init. Each process runs a sequence of instructions, `code[p]`,
and `pc[p]` indexes into it:

- `allocproc` takes the lowest UNUSED slot;
- `fork` fails with -1 when there is none;
- `exit` closes every descriptor, gives the children to init and leaves a
  ZOMBIE;
- `wait(0)` frees a ZOMBIE child, returns -1 when there are no children,
  and otherwise sleeps;
- init's wait loop (`init_reap`) frees orphaned zombies.

Four programs are possible, and a behaviour runs one of them (`scn`):

- **pingpong1 and pingpong2.** Each is a sequence of instructions for the
  parent and the child (`PingPong1`, `PingPong2`). The pc indexes into it:
  `fork() == 0` picks the child's sequence. The locals `parent_fd`,
  `child_fd` and the read buffer start as `Garbage`. A descriptor read from
  an element that pipe() never wrote may be any number.
- **driver.** One process makes up to `MaxCalls` calls of pipe (with a good or
  bad `fdarray`), dup, close, read, write, fstat and exec. Their descriptor
  arguments range from -1 to NOFILE. The exec names no program, and its argv
  holds one string or MAXARG strings, with the last at a readable address or
  not (`uarg`). `drv_exec_next` carries the call on to its return.
- **nsh.** The shell starts with the console as fds 0-2 and reads the lines
  of a script, each a sequence of characters.
  - `ShellMain` is main's loop: getcmd, fork, wait. At the end of input
    getcmd goes to exit, and wait goes back to getcmd.
  - `Setargs` is setargs character by character (`SkipWs`, `SkipWord`).
    `strchr` matches the terminating NUL too, so a line with two trailing
    blanks, or with blanks only, runs on into the zeroed rest of `buf` and
    past its end. The model makes that outcome (`ub`) either a fault that
    kills the child or words that name no program.
  - `Runcmd` and `ExecPipe` turn argv into the instructions the process then
    executes: the redirection's close and open, or the pipe, fork, and the
    plumbing of `PipeLeft` and `PipeRight`.
  - Each exec goes through `sys_exec` with the line's words as argv.
  - An exec runs `Echo` ("e", a stand-in for echo), `Cat` ("c": read stdin
    and write stdout until end of file) or `Uptime` ("u", uptime.c). A
    failed exec returns into main's loop, at its wait.
  - `Parsed` evaluates setargs and runcmd once for each line of the scripts.
    It is a cache, and it changes no behaviour.

## Properties

Each property is stated in natural language above its definition.

### Sysfile

- `TypeOK`: the type invariant.
- `NoPanic`: no process reaches a kernel panic. That covers ilock of a freed
  inode, iget with a full cache, the unlink nlink test, and dirlink of a name
  that exists.
- `LinkCountSound`: every directory entry names an allocated inode, and an
  inode's nlink is at least the number of entries naming it.
- `NoSleepUnderSpin`: iput's free path never waits for a sleep-lock while
  holding `icache.lock`. This is the claim in the code's comment at fs.c 339.
- `NoDeadlyEmbrace`: the graph of processes waiting for locks other processes
  hold has no cycle. It uses `Graphs!HasCycle`.
- `NoLockAfterReturn`: no call returns holding a sleep-lock.
- `RefsBalancedAtRest`: when every process is between calls, every slot's
  `ref` equals its open files plus its cwds, and no lock is held.
- `NoOrphanAtRest`: between calls, every allocated inode is named by an
  entry, is open, or is a cwd. The code violates it (run `orphan`).
- `ParentLinkExact`: the root's nlink is 1 plus the number of its entries
  that name directories, each counting for its `..`.
- `FreeOnlyUnreferenced` (an action property): a dinode is freed only when no
  entry names it, no open file refers to it, and it is no process's cwd. The
  one exception is a chdir that is dropping that cwd itself.
- `SymlinkTargetKept`: a loaded symlink slot carries the target it was created
  with.
- `CallsReturn` (liveness): every call returns.

### FsBlocks

- `TypeOK`: the type invariant.
- `BlocksAccounted`: a block's bit is set exactly when one inode reaches it,
  once. No block is shared, leaked, or both free and in use.
- `NoFatalCorruption`: no call sequence makes bfree free a free block, or
  makes bmap index past the doubly-indirect range. Running out of blocks is
  allowed.
- `WrittenReadsBack`: during writei, every byte copied so far is what a lookup
  of its offset finds now.
- `ReadReturnsContent`: the bytes readi returns are the file's bytes.
- `ImplementsAbsFile`: the refinement to `AbsFile`.

### KAlloc

- `TypeOK`: the type invariant.
- `PageExclusive`: every page is in exactly one place. That place is one list
  position, a kalloc's `r`, or a caller.
- `NoDeadlyEmbrace`: no cycle of CPUs spinning on each other's locks.
- `CallsReturn` (liveness): every kalloc and kfree returns.
- `ImplementsAbsPageAlloc`: the refinement to `AbsPageAlloc`.

### SysFd

- `TypeOK`: the type invariant.
- `FileRefsExact`: each file's ref equals the number of descriptor slots,
  over all processes, that name it. dup and fork add references, close and
  exit drop them, and pipe's failure paths must undo exactly what they did.
- `PipeFailLeavesNoTrace` (an action property): a pipe() that returns -1
  leaves the caller's table, every ref and the free pages unchanged.
- `PagesAccounted`: every page is in exactly one place. That place is the
  free list, the struct pipe of a pipe an open file names, or the argv of a
  sys_exec in progress. Pages move by pipealloc and sys_exec's kalloc, by
  the last close of a pipe through close or exit, and by sys_exec's two kfree
  loops, while the stages of a pipeline exec and make and close pipes at the
  same time. A kfree loop that skips a page, or a bad path without one,
  loses pages for good.
- `PingPongExchanges` (liveness): in both pingpong programs, both processes
  exit, the child having read "ping" and the parent "pong".
- `StagesWired`: every program nsh runs holds the pipe it reads only as
  fd 0, the pipe it writes only as fd 1, and no other pipe end. This depends
  on close, then dup into the lowest free slot, then close both ends, done
  in that order by both sides of every `|`, however the stages interleave.
- `PipelineDrains` (liveness): whatever the script, every process nsh starts
  exits, and so does nsh. Every stage must see end of file, so no copy of a
  write end may stay open anywhere.
- `NoStrayStage`: when a shell reads its next command, every running
  process is that shell or an ancestor waiting for it. The command before
  has finished. The `nsh_wait` run shows that this fails.

## Runs

| Run | Config | Expect | What it shows |
|---|---|---|---|
| plain | `MCSysfile_plain.cfg` | pass | Two processes, each making two calls of open (with and without O_CREATE), link, unlink, close, mkdir and chdir on names a, b, keep all the safety properties (2.1M states, about two minutes). |
| symlink | `MCSysfile_symlink.cfg` | pass | p1 makes /a -> /b, creates /b and opens /a with and without O_NOFOLLOW; p2 makes /b a device with mknod, or creates it, opens, links /b, unlinks /b and closes. Safety holds and every call returns (157k states, about a minute). |
| loop | `MCSysfile_loop.cfg` | violation | symlink /a -> /a, open /a: ten hops, then the call returns with /a still locked and one reference leaked per hop (`RefsBalancedAtRest`). The two symfollow defects, line 327 and line 335, show up in the same final state. |
| deadlock | `MCSysfile_deadlock.cfg` | violation | open of /a -> /b while /a is unlinked: open holds /a and waits for /, unlink holds / and waits for /a. |
| target_lost | `MCSysfile_target_lost.cfg` | violation | symlink /a -> /, open /b with O_CREATE and keep it open, open /a: the symlink comes back in a recycled slot with no target. |
| kalloc | `MCKAlloc.cfg` | pass | Two CPUs, two pages, three calls each: pages are never shared or lost, no lock cycle, every call returns, and the allocator refines the single pool. |
| kalloc_deadlock | `MCKAlloc_deadlock.cfg` | violation | One page, two CPUs each calling kalloc twice: both own lists empty, each CPU holds its lock and spins in steal on the other's. |
| fsblocks | `MCFsBlocks.cfg` | pass | Three calls of writei, readi and itrunc on two inodes, up to one full file: the bitmap stays exact, nothing panics, reads return what writes stored, and the layer refines `AbsFile` (96k states). |
| fsblocks_stale | `MCFsBlocks_stale.cfg` | violation | With buffer reuse allowed, bmap's read after brelse follows a wrong entry, and a write lands in a block the file does not reach. |
| orphan | `MCSysfile_orphan.cfg` | violation | p1 makes and unlinks /a, and p2 makes and unlinks /b. p1's iput frees inode 2 and pauses before `ref--`. p2's mkdir gets inode 2 in the same slot. p2's unlink then sees `ref == 2` and skips the free, and p1's late `ref--` brings it to 0. The directory stays allocated with nlink 0 and no name. |
| fd | `MCSysFd.cfg` | pass | Both pingpong programs exchange their messages and exit. A process making any five descriptor calls (exhausting the table, the file table and copyout included) keeps every ref exact, and a failed pipe() leaves no trace. Its exec calls take pages up to the bound, return them on both return paths, or run out and panic, and no page is lost or shared. nsh runs seven scripts: pipelines of two and three stages, > and <, a redirected stage in a pipeline, uptime with and without a number, an empty line and a blank one. Every stage is wired to stdin and stdout only, and every process exits. About 19,000 states, 20 seconds. |
| nsh_wait | `MCSysFd_nsh_wait.cfg` | violation | `e > f \| c`: cat sees end of file once echo has moved its stdout to f, cat exits, main's wait returns, and nsh reads the next command while echo still runs. |

The findings in `PROJECT.json` say what each violation means for the code.

## Bounds and why they are enough

The full-size runs use:

- two processes;
- two names;
- four inode numbers (the root and three others);
- four cache slots;
- two calls per process.

Two calls per process are enough for every two-actor interleaving of the
operations:

- create against unlink;
- link against unlink;
- close racing the last unlink, where the free path of iput fires;
- ialloc reusing an inode number while its old slot is still in `iput_dec`;
- mkdir and unlink of a directory, which take one call each. That is why the
  orphan race is within two calls. With files, the same race needs open,
  close and unlink: three calls.

Four slots hold the root, two open files and one inode in transit. With three
slots a legal run exhausts the cache and iget panics. The kernel's NINODE is
50, so that panic would be an artefact of the bound, and the runs use four.

The symlink violation runs are single scenarios of one or two processes,
chosen so that the shortest counterexample is the defect itself.

### SysFd

The run uses `NPROC = 4`, `NOFILE = 5`, `NFILE = 5`, five pages,
`PIPESIZE = 1` message, `MaxCalls = 5`, `MAXLINE = 100`, `MAXARGS = 10` and
`MAXARG = 4`. MAXLINE and MAXARGS are nsh's own constants.

- Five pages are what `e | c | c` needs at its peak: two pipes and three
  stages, each part way through an exec of one word. A sixth would only add
  free pages. With five, the driver runs out: two pipes and an exec of MAXARG
  strings panic on the fourth kalloc.
- `MAXARG = 4` stands for 32. The scripts' longest argv (`u 1`) fits below
  it. The driver's exec of MAXARG strings fills argv and takes the bad path
  at `i >= NELEM(argv)` with every slot full, where the kfree loops stop on
  the bound instead of a null entry.

- pingpong needs four descriptors, four files and two pipes, so it never
  runs short. NOFILE and NFILE are 16 and 100 in xv6, so the real program
  has room to spare too.
- The driver reaches each failure of sys_pipe within five calls:
  - pipealloc (pipe, pipe, pipe, with the files gone);
  - fd1 (pipe, dup, dup, pipe);
  - fd0 (pipe, dup, dup, dup, pipe);
  - copyout (pipe with a bad address).
- The driver also reaches dup with a full table, reads at end of file,
  writes to a pipe whose read end is closed, and descriptors -1 and NOFILE.
- `e | c | c` takes all five files (the console and two pipes) and all
  four process slots (the shell, its child and two stages). A pipeline's
  stages are as many processes as the table can hold.
- `PIPESIZE = 1` makes every second write of a stage sleep until the next
  stage reads. Usage's two writes into `| c` need that.
- One file name is enough for > and < to meet on the same file, and for the
  race between a left stage and the next command.
- The lines are short, but the blank line reaches setargs' overread, and
  `e > f | c` reaches the stray stage.

### FsBlocks and KAlloc

FsBlocks uses `NDIRECT = 1`, `NINDIRECT = 2` and `BSIZE = 2`. A file then
has every level of the block map (one direct block, two through the indirect
block, four through the doubly-indirect one), and `MAXFILE * BSIZE = 14`
bytes. `UINT_BITS = 4` scales `uint` to the same proportion: a write of 15
bytes at offset 3 or 6 wraps past 16, and one at offset 0 does not wrap but
ends past MAXFILE.
Each of these values is in `MCCalls`. `NBLOCK = 11` is one full file's
blocks (seven data blocks, the indirect block, the doubly-indirect block and
two second-level blocks), so a second file may run out of blocks. Three calls
reach write, then overwrite or truncate, then read.

KAlloc uses two CPUs and two pages. With a single page a kalloc can find
every list empty, and that is the deadlock run. With two pages, the programs
of the pass run allocate, free and reallocate, so steal both finds a page on
the other list and finds none.

## Fairness

`Fairness` is weak fairness of each process's in-call steps (`Proceed(p)`):

- xv6 schedules every runnable process;
- `releasesleep` wakes every process sleeping on that lock, so a process whose
  lock is free stays able to take it until it does.

Starting a new call is not fair: a process may stop making calls.

KAlloc assumes weak fairness of each CPU's steps. A spinning CPU keeps
testing the lock, and the holder runs with interrupts off until it releases
it. FsBlocks checks only safety, so it assumes no fairness.

SysFd assumes weak fairness of each process's steps, init's wait loop
included. A process asleep in piperead, pipewrite or wait is woken by the
other side's wakeup, and then stays runnable until it runs. While asleep,
its step is not enabled.
The Driver makes no call that would sleep forever: no read of an empty pipe
whose only writer is itself.

Deadlock checking is on. The only terminal state is the one where every
process has made its calls (`Finished`; `Done` in SysFd), and there the system stutters.
In SysFd the state after a panic in sys_exec is terminal too: the kernel
has stopped.

## Not modelled, and why

- **The earlier revision of the page allocator (part_001 lines 138-232).**
  It is superseded by lines 1-137 and is not the code that runs.
- **steal returning 0 while a page is free.** steal scans lists one lock at a
  time, so it can miss a page that another CPU frees onto a list it has
  already passed. The author's comment at part_001 line 109 accepts this:
  steal returns what it found, with no panic. pipealloc turns such a 0
  into a failed pipe(), but sys_exec panics on it. SysFd uses the single pool
  the allocator refines, where kalloc fails only when the pool is empty. The
  hazard is listed in `PROJECT.json`, and no property claims more.
- **readi and writei's return value.** On a failed copy both return `n`
  (fs.c 532, 573), where spec 4.F promises the bytes actually moved. This is
  visible in the code itself, and the model keeps the copy failure, but no
  run states the return value.
- **What a failed copy leaves behind.** When `either_copyin` fails, the model
  copies nothing of that chunk. The real copy may have moved part of it.
- **Paths below the first level.** Paths have at most one component, so a
  directory made by mkdir stays empty. Deeper walks repeat the `nx_look`
  step, and `isdirempty` would then need the directory's entries.
- **read and write of inodes through file descriptors, and exec's own
  work.** read and write of an inode reach `readi` and `writei`, which
  `FsBlocks` models directly. `SysFd` models read and write on pipes, on the
  console, and on files as sequences of messages. exec.c is not in the
  repository: exec is modelled by what sys_exec sees, a program started or
  -1. sys_exec's argstr and fetchaddr failures return -1 before a page is
  taken, or take the same bad path as fetchstr, and are not told apart.
- **sys_open's device-number check (lines 385-389).** No inode keeps a major
  number, and mknod's is taken to be valid.
- **sys_exec's panic.** When kalloc has no page for an argument, sys_exec
  panics instead of failing (line 508). The fd run reaches it (`panicked`).
  No claim of the spec or the code says it should not, so no run states it.
- **The directory-writability check after a symlink.** sys_open refuses a
  directory opened for writing (line 371) before it follows a symlink
  (line 377), so a symlink to / opened O_RDWR yields a writable file of the
  root directory. The model keeps that order. The run that showed the defect
  was given up for the descriptor layer: the defect is one open() call,
  plain from the code, and easy to unit test.
- **pingpong's unchecked pipe() and fork().** If pipe() fails, the arrays stay
  uninitialised, and the model keeps that case (`Garbage`). The fd run never
  exhausts resources there, because with it no exchange can be promised. If
  fork() fails (the process table is full), the parent runs alone, and
  pingpong1 then sleeps forever in read. fork can fail in the model, and
  nsh's pipelines reach that, but the pingpong scenarios start with free
  slots.
- **nsh's unchecked pipe(), and setargs staying in bounds.** execPipe ignores
  pipe()'s result (nsh.c 94). The scripts fit in NFILE, so the failure path,
  which uses uninitialised stack, is not reached. setargs runs past buf on
  a line with trailing blanks (nsh.c 38). The model makes the outcome
  nondeterministic, and `PipelineDrains` checks that the shell still ends.
  No run claims setargs stays in bounds, since any such line breaks it.
- **The prompt, gets' editing and printf's formatting.** Scripts supply
  whole lines. A printf is one write of one message to fd 1, and uptime's
  `uptime()` and `sleep()` change nothing the model keeps.
- **The log, the buffer cache and crashes.** These are external to the
  repository. The log makes each call atomic against a crash, so crash
  recovery of the file system is the log's property, not this code's. The
  buffer cache appears only as the `pinned` set and the reuse race in bmap.
- **User programs other than pingpong, nsh and uptime.** They are single-threaded
  formatting and printing utilities. `primes` forks a chain of processes connected by pipes, but the
  pipe implementation is not in this repository.
