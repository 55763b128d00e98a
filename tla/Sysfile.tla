------------------------------ MODULE Sysfile ------------------------------
(***************************************************************************)
(* The file-system system calls of kernel/sysfile.c (open with and without *)
(* O_CREATE, link, unlink, symlink, close) and the path lookup of          *)
(* kernel/fs.c (namex, dirlookup, dirlink, ialloc) they call, run by       *)
(* several processes at once over the inode cache of module ICache.        *)
(*                                                                         *)
(* The name space is the root directory: a path is "/x" for a name x, the  *)
(* path "/" (RootPath) or the empty string left in an unset ip->target     *)
(* (NoName).  Directory contents are a function from names to inode        *)
(* numbers (0 for a free dirent); the offsets of dirents are abstracted.   *)
(* begin_op/end_op are left out: the log makes each call's writes atomic   *)
(* with respect to a crash, and there is no crash in this module.          *)
(***************************************************************************)
EXTENDS ICache, TLC

CONSTANTS
  RootPath,     \* the path "/"
  NoFile,       \* a free p->ofile[] entry
  MaxCalls,     \* system calls each process makes (bound of the model)
  Program,      \* Program[p]: the calls process p may make
  Unset         \* no call yet; no symlink target recorded yet

\* The limit on symlinks followed by symfollow (sysfile.c 334).
SYMLOOP == 10

Paths == Names \cup {RootPath, NoName}

Call == [op : {"open", "link", "unlink", "symlink", "close", "mkdir", "mknod", "chdir"},
         x : Names, y : Paths, creat : BOOLEAN, nofollow : BOOLEAN, wr : BOOLEAN]

ASSUME \A p \in Procs : Program[p] \subseteq Call

VARIABLES
  dirent,       \* the root directory's entries: name -> inum, 0 if free
  call,         \* the call a process is executing
  ip, dp,       \* the local variables ip and dp of that call
  hops,         \* symfollow's counter of symlinks followed
  ofile,        \* the open file of a process: its inode slot and writability
  left,         \* calls a process has still to make
  nxName, nxParent, nxIp, nxRet,  \* namex: its arguments, ip, return label
  symTarget,    \* history: the target each symlink inode was created with
  cwd           \* p->cwd: the slot of each process's current directory

procVars == <<pc, lkS, lkRet, puS, puRet, call, ip, dp, hops, ofile, left,
              nxName, nxParent, nxIp, nxRet>>
sysVars == <<dirent, call, ip, dp, hops, ofile, left, nxName, nxParent, nxIp,
             nxRet, symTarget, cwd>>
vars == <<dtype, dnlink, dirent, cacheVars, procVars, symTarget, cwd>>

\* The slot holding the root directory, each process's first cwd (proc.c
\* userinit).
RootSlot == Min(Slots)

File == [ip : Slots, wr : BOOLEAN]

\* dirlookup(dp, name): the inode number of the root directory's entry for
\* name, 0 when no entry matches (the scan over dirents is abstracted).
dirlookup(x) == dirent[x]

\* dirlink(dp, name, inum) once dirlookup found no entry: the free dirent
\* for name takes inum.
dirlink(x, inum) == [dirent EXCEPT ![x] = inum]

-----------------------------------------------------------------------------
(* namex(path, nameiparent, name), fs.c 691-729, for the paths above.      *)
CallNamex(p, path, parent, ret) ==
  /\ nxName' = [nxName EXCEPT ![p] = path]
  /\ nxParent' = [nxParent EXCEPT ![p] = parent]
  /\ nxRet' = [nxRet EXCEPT ![p] = ret]
  /\ pc' = [pc EXCEPT ![p] = "nx_start"]

\* The starting inode: iget(ROOTDEV, ROOTINO) for "/...", idup(cwd) for "".
\* When skipelem finds no element, namex returns at once (fs.c 724-728).
nx_start(p) ==
  LET s == IF nxName[p] = NoName THEN cwd[p] ELSE IgetSlot(ROOTINO)
      i == IF nxName[p] = NoName THEN sinum[s] ELSE ROOTINO
  IN
  /\ pc[p] = "nx_start"
  /\ icache = NoProc
  /\ IF s = NoSlot
       THEN /\ pc' = [pc EXCEPT ![p] = "panic"]
            /\ UNCHANGED <<ref, sinum, valid, nxIp, lkS, lkRet, puS, puRet>>
       ELSE /\ Iget(i, s)
            /\ CASE nxName[p] \in Names ->
                      CallILock(p, s, "nx_look") /\ nxIp' = [nxIp EXCEPT ![p] = s]
                      /\ UNCHANGED <<puS, puRet>>
                 [] nxParent[p] ->
                      CallIput(p, s, nxRet[p]) /\ nxIp' = [nxIp EXCEPT ![p] = NoSlot]
                      /\ UNCHANGED <<lkS, lkRet>>
                 [] OTHER ->
                      pc' = [pc EXCEPT ![p] = nxRet[p]] /\ nxIp' = [nxIp EXCEPT ![p] = s]
                      /\ UNCHANGED <<lkS, lkRet, puS, puRet>>
  /\ UNCHANGED <<dtype, dnlink, dirent, stype, snlink, starget, slock, icache,
                 call, ip, dp, hops, ofile, left, nxName, nxParent, nxRet, symTarget, cwd>>

\* With the directory locked: for nameiparent stop one level early, else
\* dirlookup the name (iget of the entry's inode) and iunlockput the
\* directory.  nxIp holds the result when the call returns.
nx_look(p) ==
  LET d == nxIp[p]
      e == dirlookup(nxName[p])
      s == IgetSlot(e)
  IN
  /\ pc[p] = "nx_look"
  /\ slock' = IUnlock(d)
  /\ CASE stype[d] # T_DIR ->
            CallIput(p, d, nxRet[p]) /\ nxIp' = [nxIp EXCEPT ![p] = NoSlot]
            /\ UNCHANGED <<ref, sinum, valid>>
       [] nxParent[p] ->
            pc' = [pc EXCEPT ![p] = nxRet[p]] /\ UNCHANGED <<ref, sinum, valid, puS, puRet, nxIp>>
       [] e = 0 ->
            CallIput(p, d, nxRet[p]) /\ nxIp' = [nxIp EXCEPT ![p] = NoSlot]
            /\ UNCHANGED <<ref, sinum, valid>>
       [] s = NoSlot ->
            pc' = [pc EXCEPT ![p] = "panic"] /\ UNCHANGED <<ref, sinum, valid, puS, puRet, nxIp>>
       [] OTHER ->
            icache = NoProc /\ Iget(e, s) /\ CallIput(p, d, nxRet[p]) /\ nxIp' = [nxIp EXCEPT ![p] = s]
  /\ UNCHANGED <<dtype, dnlink, dirent, stype, snlink, starget, icache, lkS, lkRet,
                 call, ip, dp, hops, ofile, left, nxName, nxParent, nxRet, symTarget, cwd>>

-----------------------------------------------------------------------------
(* The system calls.  Each starts from "idle" and returns there.           *)

\* Call iput(s) and, when it returns, ilock(t) continuing at label ret.
CallIputThenILock(p, s, t, ret) ==
  /\ puS' = [puS EXCEPT ![p] = s]
  /\ puRet' = [puRet EXCEPT ![p] = "ilock"]
  /\ lkS' = [lkS EXCEPT ![p] = t]
  /\ lkRet' = [lkRet EXCEPT ![p] = ret]
  /\ pc' = [pc EXCEPT ![p] = "iput"]

Goto(p, l) == pc' = [pc EXCEPT ![p] = l]

\* Make a call: sys_open, sys_link, sys_unlink and sys_symlink start with
\* namex of their first path.
start(p) ==
  /\ pc[p] = "idle"
  /\ left[p] > 0
  /\ left' = [left EXCEPT ![p] = @ - 1]
  /\ \E c \in Program[p] :
       /\ c.op # "close"
       /\ call' = [call EXCEPT ![p] = c]
       /\ CASE c.op = "open" /\ c.creat -> CallNamex(p, c.x, TRUE, "cr_dp")
            [] c.op = "open" -> CallNamex(p, c.x, FALSE, "open_got")
            [] c.op = "link" -> CallNamex(p, c.x, FALSE, "ln_got")
            [] c.op = "unlink" -> CallNamex(p, c.x, TRUE, "ul_dp")
            [] c.op = "symlink" -> CallNamex(p, c.x, TRUE, "cr_dp")
            [] c.op = "mkdir" -> CallNamex(p, c.x, TRUE, "cr_dp")
            [] c.op = "mknod" -> CallNamex(p, c.x, TRUE, "cr_dp")
            [] c.op = "chdir" -> CallNamex(p, c.y, FALSE, "cd_got")
  /\ UNCHANGED <<dtype, dnlink, dirent, cacheVars, lkS, lkRet, puS, puRet, ip, dp,
                 hops, ofile, nxIp, symTarget, cwd>>

\* sys_close, sysfile.c 100-113, with fileclose (file.c): the descriptor is
\* cleared and the file's inode reference dropped by iput; argfd fails when
\* the descriptor is not open.
sys_close(p) ==
  /\ pc[p] = "idle"
  /\ left[p] > 0
  /\ \E c \in Program[p] : c.op = "close" /\ call' = [call EXCEPT ![p] = c]
  /\ left' = [left EXCEPT ![p] = @ - 1]
  /\ IF ofile[p] # NoFile
       THEN /\ ofile' = [ofile EXCEPT ![p] = NoFile]
            /\ CallIput(p, ofile[p].ip, "idle")
       ELSE UNCHANGED <<ofile, pc, puS, puRet>>
  /\ UNCHANGED <<dtype, dnlink, dirent, cacheVars, lkS, lkRet, ip, dp, hops,
                 nxName, nxParent, nxIp, nxRet, symTarget, cwd>>

-----------------------------------------------------------------------------
(* sys_open without O_CREATE, sysfile.c 362-383, and symfollow, 317-339.   *)
open_got(p) ==
  /\ pc[p] = "open_got"
  /\ IF nxIp[p] = NoSlot
       THEN Goto(p, "idle") /\ UNCHANGED <<ip, lkS, lkRet>>
       ELSE ip' = [ip EXCEPT ![p] = nxIp[p]] /\ CallILock(p, nxIp[p], "open_chk")
  /\ UNCHANGED <<dtype, dnlink, dirent, cacheVars, puS, puRet, call, dp, hops,
                 ofile, left, nxName, nxParent, nxIp, nxRet, symTarget, cwd>>

\* With ip locked: refuse a directory opened for writing; follow a symlink
\* unless O_NOFOLLOW, calling namei(ip->target) with ip still locked.
open_chk(p) ==
  LET s == ip[p] IN
  /\ pc[p] = "open_chk"
  /\ CASE stype[s] = T_DIR /\ call[p].wr ->
            slock' = IUnlock(s) /\ CallIput(p, s, "idle")
            /\ UNCHANGED <<hops, nxName, nxParent, nxRet>>
       [] stype[s] = T_SYMLINK /\ ~call[p].nofollow ->
            hops' = [hops EXCEPT ![p] = 1] /\ CallNamex(p, starget[s], FALSE, "sf_got")
            /\ UNCHANGED <<slock, puS, puRet>>
       [] OTHER ->
            Goto(p, "open_fd") /\ UNCHANGED <<slock, puS, puRet, hops, nxName, nxParent, nxRet>>
  /\ UNCHANGED <<dtype, dnlink, dirent, sinum, ref, valid, stype, snlink, starget,
                 icache, lkS, lkRet, call, ip, dp, ofile, left, nxIp, symTarget, cwd>>

\* Variant: the walk keeps ip locked after namei returns.
sf_got_noUnlock(p) ==
  /\ pc[p] = "sf_got"
  /\ IF nxIp[p] = NoSlot
       THEN Goto(p, "idle") /\ UNCHANGED <<ip, lkS, lkRet>>
       ELSE ip' = [ip EXCEPT ![p] = nxIp[p]] /\ CallILock(p, nxIp[p], "sf_chk")
  /\ UNCHANGED <<dtype, dnlink, dirent, cacheVars, puS, puRet, call, dp, hops,
                 ofile, left, nxName, nxParent, nxIp, nxRet, symTarget, cwd>>

\* t = namei(ip->target) has returned: iunlock(ip) (never iput), then
\* fail if t is 0, else ilock(t).
sf_got(p) ==
  /\ pc[p] = "sf_got"
  /\ slock' = IUnlock(ip[p])
  /\ IF nxIp[p] = NoSlot
       THEN Goto(p, "idle") /\ UNCHANGED <<ip, lkS, lkRet>>
       ELSE ip' = [ip EXCEPT ![p] = nxIp[p]] /\ CallILock(p, nxIp[p], "sf_chk")
  /\ UNCHANGED <<dtype, dnlink, dirent, sinum, ref, valid, stype, snlink, starget,
                 icache, puS, puRet, call, dp, hops, ofile, left, nxName, nxParent,
                 nxIp, nxRet, symTarget, cwd>>

\* With t locked: a non-symlink ends the walk; past SYMLOOP symlinks the
\* walk fails with t still locked; else follow t's target.
sf_chk(p) ==
  LET s == ip[p] IN
  /\ pc[p] = "sf_chk"
  /\ CASE stype[s] # T_SYMLINK ->
            Goto(p, "open_fd") /\ UNCHANGED <<hops, nxName, nxParent, nxRet>>
       [] hops[p] + 1 > SYMLOOP ->
            Goto(p, "idle") /\ UNCHANGED <<hops, nxName, nxParent, nxRet>>
       [] OTHER ->
            hops' = [hops EXCEPT ![p] = @ + 1] /\ CallNamex(p, starget[s], FALSE, "sf_got")
  /\ UNCHANGED <<dtype, dnlink, dirent, cacheVars, lkS, lkRet, puS, puRet, call,
                 ip, dp, ofile, left, nxIp, symTarget, cwd>>

\* Variant: the success path returns without iunlock(ip).
open_fd_keepLock(p) ==
  LET s == ip[p] IN
  /\ pc[p] = "open_fd"
  /\ IF ofile[p] # NoFile
       THEN slock' = IUnlock(s) /\ CallIput(p, s, "idle") /\ UNCHANGED ofile
       ELSE /\ ofile' = [ofile EXCEPT ![p] = [ip |-> s, wr |-> call[p].wr]]
            /\ Goto(p, "idle") /\ UNCHANGED <<slock, puS, puRet>>
  /\ UNCHANGED <<dtype, dnlink, dirent, sinum, ref, valid, stype, snlink, starget,
                 icache, lkS, lkRet, call, ip, dp, hops, left, nxName, nxParent,
                 nxIp, nxRet, symTarget, cwd>>

\* filealloc and fdalloc (one descriptor per process in this model); on
\* failure iunlockput(ip), else install the file and iunlock(ip).
open_fd(p) ==
  LET s == ip[p] IN
  /\ pc[p] = "open_fd"
  /\ slock' = IUnlock(s)
  /\ IF ofile[p] # NoFile
       THEN CallIput(p, s, "idle") /\ UNCHANGED ofile
       ELSE /\ ofile' = [ofile EXCEPT ![p] = [ip |-> s, wr |-> call[p].wr]]
            /\ Goto(p, "idle") /\ UNCHANGED <<puS, puRet>>
  /\ UNCHANGED <<dtype, dnlink, dirent, sinum, ref, valid, stype, snlink, starget,
                 icache, lkS, lkRet, call, ip, dp, hops, left, nxName, nxParent,
                 nxIp, nxRet, symTarget, cwd>>

-----------------------------------------------------------------------------
(* create(path, type, 0, 0), sysfile.c 268-315, called by sys_open with    *)
(* O_CREATE (type T_FILE, returning to "open_fd"), by sys_symlink (type    *)
(* T_SYMLINK, returning to "sl_set") and by sys_mkdir (type T_DIR,         *)
(* returning to "mk_done"), and by sys_mknod (type T_DEVICE, returning to *)
(* "mn_done").  It returns ip locked.                                      *)
CreateType(p) ==
  CASE call[p].op = "open" -> T_FILE
    [] call[p].op = "mkdir" -> T_DIR
    [] call[p].op = "mknod" -> T_DEVICE
    [] OTHER -> T_SYMLINK
CreateRet(p) ==
  CASE call[p].op = "open" -> "open_fd"
    [] call[p].op = "mkdir" -> "mk_done"
    [] call[p].op = "mknod" -> "mn_done"
    [] OTHER -> "sl_set"

\* ialloc (fs.c 196-216) takes the first inode whose dinode is free.
FreeInums == {i \in Inums : dtype[i] = T_FREE}

cr_dp(p) ==
  /\ pc[p] = "cr_dp"
  /\ IF nxIp[p] = NoSlot
       THEN Goto(p, "idle") /\ UNCHANGED <<dp, lkS, lkRet>>
       ELSE dp' = [dp EXCEPT ![p] = nxIp[p]] /\ CallILock(p, nxIp[p], "cr_look")
  /\ UNCHANGED <<dtype, dnlink, dirent, cacheVars, puS, puRet, call, ip, hops,
                 ofile, left, nxName, nxParent, nxIp, nxRet, symTarget, cwd>>

\* With dp locked: an existing name is iget, dp iunlockput and the inode
\* locked; else ialloc marks a free dinode with the type, iget it, ilock it.
cr_look(p) ==
  LET d == dp[p]
      e == dirlookup(call[p].x)
      i == Min(FreeInums)
  IN
  /\ pc[p] = "cr_look"
  /\ icache = NoProc
  /\ CASE e # 0 /\ IgetSlot(e) # NoSlot ->
            /\ Iget(e, IgetSlot(e))
            /\ ip' = [ip EXCEPT ![p] = IgetSlot(e)]
            /\ slock' = IUnlock(d)
            /\ CallIputThenILock(p, d, IgetSlot(e), "cr_exist")
            /\ UNCHANGED <<dtype, dnlink, symTarget, cwd>>
       [] e = 0 /\ FreeInums # {} /\ IgetSlot(i) # NoSlot ->
            /\ dtype' = [dtype EXCEPT ![i] = CreateType(p)]
            /\ dnlink' = [dnlink EXCEPT ![i] = 0]
            /\ symTarget' = [symTarget EXCEPT ![i] = Unset]
            /\ Iget(i, IgetSlot(i))
            /\ ip' = [ip EXCEPT ![p] = IgetSlot(i)]
            /\ CallILock(p, IgetSlot(i), "cr_init")
            /\ UNCHANGED <<slock, puS, puRet>>
       [] OTHER ->
            Goto(p, "panic") /\ UNCHANGED <<dtype, dnlink, symTarget, ref, sinum,
                                            valid, ip, slock, lkS, lkRet, puS, puRet>>
  /\ UNCHANGED <<dirent, stype, snlink, starget, icache, call, dp, hops, ofile,
                 left, nxName, nxParent, nxIp, nxRet, cwd>>

\* The existing inode, locked: a T_FILE create returns a file or device;
\* otherwise iunlockput(ip) and create fails.
cr_exist(p) ==
  LET s == ip[p] IN
  /\ pc[p] = "cr_exist"
  /\ IF CreateType(p) = T_FILE /\ stype[s] \in {T_FILE, T_DEVICE}
       THEN Goto(p, CreateRet(p)) /\ UNCHANGED <<slock, puS, puRet>>
       ELSE slock' = IUnlock(s) /\ CallIput(p, s, "idle")
  /\ UNCHANGED <<dtype, dnlink, dirent, sinum, ref, valid, stype, snlink, starget,
                 icache, lkS, lkRet, call, ip, dp, hops, ofile, left, nxName,
                 nxParent, nxIp, nxRet, symTarget, cwd>>

\* The new inode, locked: nlink = 1 and iupdate; a directory's ".." raises
\* dp->nlink (iupdate(dp)), and its "." and ".." entries go into the new,
\* empty directory; dirlink(dp, name, inum), which panics if the name
\* exists; iunlockput(dp).
DotDot(p) == IF CreateType(p) = T_DIR THEN 1 ELSE 0

cr_init(p) ==
  LET s == ip[p]
      d == dp[p]
      x == call[p].x
  IN
  /\ pc[p] = "cr_init"
  /\ IF dirent[x] # 0
       THEN Goto(p, "panic") /\ UNCHANGED <<snlink, dnlink, dirent, slock, puS, puRet>>
       ELSE /\ snlink' = [snlink EXCEPT ![s] = 1, ![d] = @ + DotDot(p)]
            /\ dnlink' = IF CreateType(p) = T_DIR
                           THEN [dnlink EXCEPT ![sinum[s]] = 1, ![sinum[d]] = snlink[d] + 1]
                           ELSE [dnlink EXCEPT ![sinum[s]] = 1]
            /\ dirent' = dirlink(x, sinum[s])
            /\ slock' = IUnlock(d)
            /\ CallIput(p, d, CreateRet(p))
  /\ UNCHANGED <<dtype, sinum, ref, valid, stype, starget, icache, lkS, lkRet,
                 call, ip, dp, hops, ofile, left, nxName, nxParent, nxIp, nxRet,
                 symTarget, cwd>>

\* sys_symlink, sysfile.c 563-588: the target is copied into ip->target,
\* then iunlockput(ip).  No iupdate follows.
sl_set(p) ==
  LET s == ip[p] IN
  /\ pc[p] = "sl_set"
  /\ starget' = [starget EXCEPT ![s] = call[p].y]
  /\ symTarget' = [symTarget EXCEPT ![sinum[s]] = call[p].y]
  /\ slock' = IUnlock(s)
  /\ CallIput(p, s, "idle")
  /\ UNCHANGED <<dtype, dnlink, dirent, sinum, ref, valid, stype, snlink, icache,
                 lkS, lkRet, call, ip, dp, hops, ofile, left, nxName, nxParent,
                 nxIp, nxRet, cwd>>

\* sys_mkdir, sysfile.c 417-432: create returned ip locked; iunlockput(ip).
mk_done(p) ==
  /\ pc[p] = "mk_done"
  /\ slock' = IUnlock(ip[p])
  /\ CallIput(p, ip[p], "idle")
  /\ UNCHANGED <<dtype, dnlink, dirent, sinum, ref, valid, stype, snlink, starget,
                 icache, lkS, lkRet, call, ip, dp, hops, ofile, left, nxName,
                 nxParent, nxIp, nxRet, symTarget, cwd>>

\* sys_mknod, sysfile.c 433-453: create returned the device inode locked;
\* iunlockput(ip).  The major number is taken to be below NDEV, so that
\* sys_open's device check (lines 385-389) passes.
mn_done(p) ==
  /\ pc[p] = "mn_done"
  /\ slock' = IUnlock(ip[p])
  /\ CallIput(p, ip[p], "idle")
  /\ UNCHANGED <<dtype, dnlink, dirent, sinum, ref, valid, stype, snlink, starget,
                 icache, lkS, lkRet, call, ip, dp, hops, ofile, left, nxName,
                 nxParent, nxIp, nxRet, symTarget, cwd>>

-----------------------------------------------------------------------------
(* sys_chdir(path), sysfile.c 455-479.                                     *)

\* ip = namei(path): fail if 0, else ilock(ip).
cd_got(p) ==
  /\ pc[p] = "cd_got"
  /\ IF nxIp[p] = NoSlot
       THEN Goto(p, "idle") /\ UNCHANGED <<ip, lkS, lkRet>>
       ELSE ip' = [ip EXCEPT ![p] = nxIp[p]] /\ CallILock(p, nxIp[p], "cd_chk")
  /\ UNCHANGED <<dtype, dnlink, dirent, cacheVars, puS, puRet, call, dp, hops,
                 ofile, left, nxName, nxParent, nxIp, nxRet, symTarget, cwd>>

\* With ip locked: a non-directory is iunlockput and chdir fails; else
\* iunlock(ip) and iput(p->cwd).
cd_chk(p) ==
  LET s == ip[p] IN
  /\ pc[p] = "cd_chk"
  /\ slock' = IUnlock(s)
  /\ IF stype[s] # T_DIR
       THEN CallIput(p, s, "idle")
       ELSE CallIput(p, cwd[p], "cd_set")
  /\ UNCHANGED <<dtype, dnlink, dirent, sinum, ref, valid, stype, snlink, starget,
                 icache, lkS, lkRet, call, ip, dp, hops, ofile, left, nxName,
                 nxParent, nxIp, nxRet, symTarget, cwd>>

\* After end_op: p->cwd = ip.
cd_set(p) ==
  /\ pc[p] = "cd_set"
  /\ cwd' = [cwd EXCEPT ![p] = ip[p]]
  /\ Goto(p, "idle")
  /\ UNCHANGED <<dtype, dnlink, dirent, cacheVars, lkS, lkRet, puS, puRet, call,
                 ip, dp, hops, ofile, left, nxName, nxParent, nxIp, nxRet, symTarget>>

-----------------------------------------------------------------------------
(* sys_link(old, new), sysfile.c 127-179.                                  *)
ln_got(p) ==
  /\ pc[p] = "ln_got"
  /\ IF nxIp[p] = NoSlot
       THEN Goto(p, "idle") /\ UNCHANGED <<ip, lkS, lkRet>>
       ELSE ip' = [ip EXCEPT ![p] = nxIp[p]] /\ CallILock(p, nxIp[p], "ln_inc")
  /\ UNCHANGED <<dtype, dnlink, dirent, cacheVars, puS, puRet, call, dp, hops,
                 ofile, left, nxName, nxParent, nxIp, nxRet, symTarget, cwd>>

\* Variant: nameiparent(new) is called with ip still locked.
ln_inc_keepLock(p) ==
  LET s == ip[p] IN
  /\ pc[p] = "ln_inc"
  /\ IF stype[s] = T_DIR
       THEN /\ slock' = IUnlock(s) /\ CallIput(p, s, "idle")
            /\ UNCHANGED <<snlink, dnlink, nxName, nxParent, nxRet>>
       ELSE /\ snlink' = [snlink EXCEPT ![s] = @ + 1]
            /\ dnlink' = [dnlink EXCEPT ![sinum[s]] = snlink[s] + 1]
            /\ CallNamex(p, call[p].y, TRUE, "ln_dp")
            /\ UNCHANGED <<slock, puS, puRet>>
  /\ UNCHANGED <<dtype, dirent, sinum, ref, valid, stype, starget, icache, lkS,
                 lkRet, call, ip, dp, hops, ofile, left, nxIp, symTarget, cwd>>

\* With ip locked: a directory is refused; else nlink++, iupdate, iunlock,
\* then nameiparent(new).
ln_inc(p) ==
  LET s == ip[p] IN
  /\ pc[p] = "ln_inc"
  /\ slock' = IUnlock(s)
  /\ IF stype[s] = T_DIR
       THEN CallIput(p, s, "idle") /\ UNCHANGED <<snlink, dnlink, nxName, nxParent, nxRet>>
       ELSE /\ snlink' = [snlink EXCEPT ![s] = @ + 1]
            /\ dnlink' = [dnlink EXCEPT ![sinum[s]] = snlink[s] + 1]
            /\ CallNamex(p, call[p].y, TRUE, "ln_dp")
            /\ UNCHANGED <<puS, puRet>>
  /\ UNCHANGED <<dtype, dirent, sinum, ref, valid, stype, starget, icache, lkS,
                 lkRet, call, ip, dp, hops, ofile, left, nxIp, symTarget, cwd>>

\* No parent: goto bad, which starts with ilock(ip).
ln_dp(p) ==
  /\ pc[p] = "ln_dp"
  /\ IF nxIp[p] = NoSlot
       THEN CallILock(p, ip[p], "ln_dec") /\ UNCHANGED dp
       ELSE dp' = [dp EXCEPT ![p] = nxIp[p]] /\ CallILock(p, nxIp[p], "ln_dirlink")
  /\ UNCHANGED <<dtype, dnlink, dirent, cacheVars, puS, puRet, call, ip, hops,
                 ofile, left, nxName, nxParent, nxIp, nxRet, symTarget, cwd>>

\* With dp locked: dirlink(dp, name, ip->inum).  When the name exists,
\* dirlink's dirlookup iget's and iput's its inode (leaving the slot
\* installed), dirlink fails, dp is iunlockput and bad relocks ip.
ln_dirlink(p) ==
  LET d == dp[p]
      e == dirlookup(call[p].y)
      s == IgetSlot(e)
  IN
  /\ pc[p] = "ln_dirlink"
  /\ slock' = IUnlock(d)
  /\ CASE e = 0 ->
            /\ dirent' = dirlink(call[p].y, sinum[ip[p]])
            /\ CallIput(p, d, "ln_done")
            /\ UNCHANGED <<sinum, valid, lkS, lkRet>>
       [] s # NoSlot ->
            /\ icache = NoProc
            /\ sinum' = IgetInum(e, s)
            /\ valid' = IgetValid(e, s)
            /\ CallIputThenILock(p, d, ip[p], "ln_dec")
            /\ UNCHANGED dirent
       [] OTHER ->
            Goto(p, "panic") /\ UNCHANGED <<dirent, sinum, valid, lkS, lkRet, puS, puRet>>
  /\ UNCHANGED <<dtype, dnlink, ref, stype, snlink, starget, icache, call, ip, dp,
                 hops, ofile, left, nxName, nxParent, nxIp, nxRet, symTarget, cwd>>

\* Variant: the success path returns without iput(ip).
ln_done_noIput(p) ==
  /\ pc[p] = "ln_done"
  /\ Goto(p, "idle")
  /\ UNCHANGED <<dtype, dnlink, dirent, cacheVars, lkS, lkRet, puS, puRet, call, ip,
                 dp, hops, ofile, left, nxName, nxParent, nxIp, nxRet, symTarget, cwd>>

\* iput(ip) after iunlockput(dp).
ln_done(p) ==
  /\ pc[p] = "ln_done"
  /\ CallIput(p, ip[p], "idle")
  /\ UNCHANGED <<dtype, dnlink, dirent, cacheVars, lkS, lkRet, call, ip, dp, hops,
                 ofile, left, nxName, nxParent, nxIp, nxRet, symTarget, cwd>>

\* bad: with ip relocked, nlink--, iupdate, iunlockput(ip).
ln_dec(p) ==
  LET s == ip[p] IN
  /\ pc[p] = "ln_dec"
  /\ snlink' = [snlink EXCEPT ![s] = @ - 1]
  /\ dnlink' = [dnlink EXCEPT ![sinum[s]] = snlink[s] - 1]
  /\ slock' = IUnlock(s)
  /\ CallIput(p, s, "idle")
  /\ UNCHANGED <<dtype, dirent, sinum, ref, valid, stype, starget, icache, lkS,
                 lkRet, call, ip, dp, hops, ofile, left, nxName, nxParent, nxIp,
                 nxRet, symTarget, cwd>>

-----------------------------------------------------------------------------
(* sys_unlink(path), sysfile.c 200-266.  The names "." and ".." are not in *)
(* Names and the entry found is never a directory in this name space, so   *)
(* the isdirempty test and dp->nlink-- do not arise.                       *)
ul_dp(p) ==
  /\ pc[p] = "ul_dp"
  /\ IF nxIp[p] = NoSlot
       THEN Goto(p, "idle") /\ UNCHANGED <<dp, lkS, lkRet>>
       ELSE dp' = [dp EXCEPT ![p] = nxIp[p]] /\ CallILock(p, nxIp[p], "ul_look")
  /\ UNCHANGED <<dtype, dnlink, dirent, cacheVars, puS, puRet, call, ip, hops,
                 ofile, left, nxName, nxParent, nxIp, nxRet, symTarget, cwd>>

\* With dp locked: dirlookup the name; absent, iunlockput(dp); present,
\* iget its inode and ilock it while dp stays locked.
ul_look(p) ==
  LET d == dp[p]
      e == dirlookup(call[p].x)
      s == IgetSlot(e)
  IN
  /\ pc[p] = "ul_look"
  /\ CASE e = 0 ->
            slock' = IUnlock(d) /\ CallIput(p, d, "idle")
            /\ UNCHANGED <<ref, sinum, valid, ip, lkS, lkRet>>
       [] s # NoSlot ->
            /\ icache = NoProc
            /\ Iget(e, s)
            /\ ip' = [ip EXCEPT ![p] = s]
            /\ CallILock(p, s, "ul_rm")
            /\ UNCHANGED <<slock, puS, puRet>>
       [] OTHER ->
            Goto(p, "panic") /\ UNCHANGED <<ref, sinum, valid, ip, slock, lkS, lkRet, puS, puRet>>
  /\ UNCHANGED <<dtype, dnlink, dirent, stype, snlink, starget, icache, call, dp,
                 hops, ofile, left, nxName, nxParent, nxIp, nxRet, symTarget, cwd>>

\* Mutant: removing a directory leaves the parent's nlink as it was.
ul_rm_keepParent(p) ==
  LET d == dp[p] IN
  /\ pc[p] = "ul_rm"
  /\ IF snlink[ip[p]] < 1
       THEN Goto(p, "panic") /\ UNCHANGED <<dirent, slock, puS, puRet>>
       ELSE /\ dirent' = [dirent EXCEPT ![call[p].x] = 0]
            /\ slock' = IUnlock(d)
            /\ CallIput(p, d, "ul_dec")
  /\ UNCHANGED <<dtype, sinum, ref, valid, stype, starget, icache, snlink, dnlink,
                 lkS, lkRet, call, ip, dp, hops, ofile, left, nxName, nxParent,
                 nxIp, nxRet, symTarget, cwd>>

\* With dp and ip locked: panic if nlink < 1; zero the dirent; for a
\* directory, dp->nlink-- and iupdate(dp); iunlockput(dp).  A directory
\* other than the root holds only "." and "..", so isdirempty is true.
ul_rm(p) ==
  LET d == dp[p] IN
  /\ pc[p] = "ul_rm"
  /\ IF snlink[ip[p]] < 1
       THEN Goto(p, "panic") /\ UNCHANGED <<dirent, slock, puS, puRet, snlink, dnlink>>
       ELSE /\ dirent' = [dirent EXCEPT ![call[p].x] = 0]
            /\ IF stype[ip[p]] = T_DIR
                 THEN /\ snlink' = [snlink EXCEPT ![d] = @ - 1]
                      /\ dnlink' = [dnlink EXCEPT ![sinum[d]] = snlink[d] - 1]
                 ELSE UNCHANGED <<snlink, dnlink>>
            /\ slock' = IUnlock(d)
            /\ CallIput(p, d, "ul_dec")
  /\ UNCHANGED <<dtype, sinum, ref, valid, stype, starget, icache,
                 lkS, lkRet, call, ip, dp, hops, ofile, left, nxName, nxParent,
                 nxIp, nxRet, symTarget, cwd>>

\* ip->nlink--, iupdate, iunlockput(ip).
ul_dec(p) ==
  LET s == ip[p] IN
  /\ pc[p] = "ul_dec"
  /\ snlink' = [snlink EXCEPT ![s] = @ - 1]
  /\ dnlink' = [dnlink EXCEPT ![sinum[s]] = snlink[s] - 1]
  /\ slock' = IUnlock(s)
  /\ CallIput(p, s, "idle")
  /\ UNCHANGED <<dtype, dirent, sinum, ref, valid, stype, starget, icache, lkS,
                 lkRet, call, ip, dp, hops, ofile, left, nxName, nxParent, nxIp,
                 nxRet, symTarget, cwd>>

-----------------------------------------------------------------------------
(* The system after mkfs and boot: the root directory (nlink 1, no other   *)
(* entries than . and ..) is every process's cwd, so its slot holds one    *)
(* reference per process and has not been read from disk yet.              *)
Init ==
  /\ dtype = [i \in Inums |-> IF i = ROOTINO THEN T_DIR ELSE T_FREE]
  /\ dnlink = [i \in Inums |-> IF i = ROOTINO THEN 1 ELSE 0]
  /\ dirent = [x \in Names |-> 0]
  /\ sinum = [s \in Slots |-> IF s = RootSlot THEN ROOTINO ELSE 0]
  /\ ref = [s \in Slots |-> IF s = RootSlot THEN Cardinality(Procs) ELSE 0]
  /\ valid = [s \in Slots |-> FALSE]
  /\ stype = [s \in Slots |-> T_FREE]
  /\ snlink = [s \in Slots |-> 0]
  /\ starget = [s \in Slots |-> NoName]
  /\ slock = [s \in Slots |-> NoProc]
  /\ icache = NoProc
  /\ pc = [p \in Procs |-> "idle"]
  /\ lkS = [p \in Procs |-> NoSlot]
  /\ lkRet = [p \in Procs |-> "idle"]
  /\ puS = [p \in Procs |-> NoSlot]
  /\ puRet = [p \in Procs |-> "idle"]
  /\ call = [p \in Procs |-> Unset]
  /\ ip = [p \in Procs |-> NoSlot]
  /\ dp = [p \in Procs |-> NoSlot]
  /\ hops = [p \in Procs |-> 0]
  /\ ofile = [p \in Procs |-> NoFile]
  /\ left = [p \in Procs |-> MaxCalls]
  /\ nxName = [p \in Procs |-> NoName]
  /\ nxParent = [p \in Procs |-> FALSE]
  /\ nxIp = [p \in Procs |-> NoSlot]
  /\ nxRet = [p \in Procs |-> "idle"]
  /\ symTarget = [i \in Inums |-> Unset]
  /\ cwd = [p \in Procs |-> RootSlot]

\* A step of process p inside a call.
Proceed(p) ==
  \/ CacheStep(p) /\ UNCHANGED sysVars
  \/ nx_start(p) \/ nx_look(p)
  \/ open_got(p) \/ open_chk(p) \/ sf_got(p) \/ sf_chk(p) \/ open_fd(p)
  \/ cr_dp(p) \/ cr_look(p) \/ cr_exist(p) \/ cr_init(p) \/ sl_set(p) \/ mk_done(p)
  \/ mn_done(p)
  \/ cd_got(p) \/ cd_chk(p) \/ cd_set(p)
  \/ ln_got(p) \/ ln_inc(p) \/ ln_dp(p) \/ ln_dirlink(p) \/ ln_done(p) \/ ln_dec(p)
  \/ ul_dp(p) \/ ul_look(p) \/ ul_rm(p) \/ ul_dec(p)

\* Every process has made all its calls and returned.
Finished == \A p \in Procs : pc[p] = "idle" /\ left[p] = 0

Next ==
  \/ \E p \in Procs : start(p) \/ sys_close(p) \/ Proceed(p)
  \/ Finished /\ UNCHANGED vars

\* The scheduler runs every runnable process, and releasesleep wakes every
\* process sleeping on the lock: a step a process can take stays takeable.
Fairness == \A p \in Procs : WF_vars(Proceed(p))

Spec == Init /\ [][Next]_vars /\ Fairness

-----------------------------------------------------------------------------
(* Properties                                                              *)

Gr == INSTANCE Graphs

TypeOK ==
  /\ dtype \in [Inums -> Types]
  /\ dnlink \in [Inums -> Nat]
  /\ dirent \in [Names -> Inums \cup {0}]
  /\ sinum \in [Slots -> Inums \cup {0}]
  /\ ref \in [Slots -> Nat]
  /\ valid \in [Slots -> BOOLEAN]
  /\ stype \in [Slots -> Types]
  /\ snlink \in [Slots -> Int]
  /\ starget \in [Slots -> Paths]
  /\ slock \in [Slots -> Procs \cup {NoProc}]
  /\ icache \in Procs \cup {NoProc}
  /\ ip \in [Procs -> Slots \cup {NoSlot}]
  /\ dp \in [Procs -> Slots \cup {NoSlot}]
  /\ nxIp \in [Procs -> Slots \cup {NoSlot}]
  /\ ofile \in [Procs -> File \cup {NoFile}]
  /\ call \in [Procs -> Call \cup {Unset}]
  /\ symTarget \in [Inums -> Paths \cup {Unset}]
  /\ cwd \in [Procs -> Slots]

\* The kernel never panics: no ilock of a freed inode ("ilock: no type"),
\* no exhausted inode table or inode cache, no unlink of an inode with
\* nlink 0, no dirlink of a name created concurrently.
NoPanic == \A p \in Procs : pc[p] # "panic"

EntriesOf(i) == {x \in Names : dirent[x] = i}

\* Every directory entry names an allocated inode, and an allocated inode's
\* on-disk nlink is at least the number of entries naming it (link raises
\* nlink before adding the entry, unlink removes the entry before lowering
\* it): iput can never free an inode that a directory still names.
LinkCountSound ==
  \A i \in Inums \ {ROOTINO} :
    /\ EntriesOf(i) # {} => dtype[i] # T_FREE
    /\ dtype[i] # T_FREE => dnlink[i] >= Cardinality(EntriesOf(i))

\* iput's free path acquires the sleep-lock while holding icache.lock; the
\* code's comment says ref == 1 means it cannot block.  No process ever
\* waits there for a sleep-lock someone else holds.
NoSleepUnderSpin ==
  \A p \in Procs : pc[p] = "iput_sleep" => slock[puS[p]] = NoProc

\* p waits for q: for a sleep-lock q holds, or for icache.lock q holds.
WaitEdges ==
  {e \in Procs \X Procs :
     \/ pc[e[1]] = "ilock" /\ slock[lkS[e[1]]] = e[2]
     \/ pc[e[1]] = "iput_sleep" /\ slock[puS[e[1]]] = e[2]
     \/ pc[e[1]] \in {"iput", "iput_dec", "nx_start", "cr_look"} /\ icache = e[2]}

\* No set of processes waits for each other's locks in a cycle.
NoDeadlyEmbrace == ~Gr!HasCycle([node |-> Procs, edge |-> WaitEdges])

\* A call never returns with a sleep-lock still held.
NoLockAfterReturn ==
  \A s \in Slots : slock[s] # NoProc => pc[slock[s]] # "idle"

Quiescent == \A p \in Procs : pc[p] = "idle"

OpenersOf(s) == {p \in Procs : ofile[p] # NoFile /\ ofile[p].ip = s}
DwellersOf(s) == {p \in Procs : cwd[p] = s}

\* Between calls every sleep-lock is free and every reference a call took
\* has been dropped: a slot's ref counts the open files and the cwds on it
\* (chdir passes namei's reference to p->cwd and drops the old cwd's).
RefsBalancedAtRest ==
  Quiescent =>
    \A s \in Slots :
      /\ slock[s] = NoProc
      /\ ref[s] = Cardinality(OpenersOf(s)) + Cardinality(DwellersOf(s))

\* Between calls an allocated inode is named by a directory entry, is the
\* inode of an open file or is a process's cwd: no inode is leaked on disk.
\* The spec has the last iput of an inode whose nlink is 0 free it (fs.c
\* iput); whoever drops the last reference must be the one that checks.
NoOrphanAtRest ==
  Quiescent =>
    \A i \in Inums \ {ROOTINO} :
      dtype[i] # T_FREE =>
        \/ EntriesOf(i) # {}
        \/ \E p \in Procs : ofile[p] # NoFile /\ sinum[ofile[p].ip] = i
        \/ \E p \in Procs : sinum[cwd[p]] = i

\* A symlink inode in use carries the target sys_symlink gave it.
SymlinkTargetKept ==
  \A s \in Slots :
    (ref[s] > 0 /\ valid[s] /\ stype[s] = T_SYMLINK /\ symTarget[sinum[s]] # Unset)
      => starget[s] = symTarget[sinum[s]]

\* p's chdir is dropping, or has dropped, its old cwd's reference.
LeftCwd(p) ==
  /\ call[p] # Unset /\ call[p].op = "chdir"
  /\ puS[p] = cwd[p]
  /\ pc[p] \in {"iput_sleep", "iput_trunc", "iput_dec", "cd_set"}

\* An on-disk inode is freed only when no directory entry names it, no
\* open file refers to it and it is the cwd of no process but the one whose
\* chdir is dropping it (a directory removed while it is another process's
\* cwd lives until that process leaves it).
FreeOnlyUnreferenced ==
  [][\A i \in Inums :
       dtype[i] # T_FREE /\ dtype'[i] = T_FREE =>
         /\ EntriesOf(i) = {}
         /\ \A p \in Procs : ofile[p] = NoFile \/ sinum[ofile[p].ip] # i
         /\ \A p \in Procs : sinum[cwd[p]] # i \/ LeftCwd(p)]_dtype

\* The root's nlink is one plus the subdirectories it names: mkdir raises
\* it for the new directory's ".." and unlink of a directory lowers it, each
\* under the root's sleep-lock together with the entry it adds or zeroes.
ParentLinkExact ==
  dnlink[ROOTINO] = 1 + Cardinality({x \in Names : dirent[x] # 0 /\ dtype[dirent[x]] = T_DIR})

\* Every system call returns.
CallsReturn == \A p \in Procs : pc[p] # "idle" ~> pc[p] = "idle"

=============================================================================
