------------------------------- MODULE TestFS -------------------------------
(***************************************************************************)
(* The testfs shell: directories (dir.c), files (file.c), mktestfs and     *)
(* the command loop (testfs.c).  One process runs one command at a time,   *)
(* so a command is one action; the process can be killed between any two   *)
(* of its block writes.                                                    *)
(***************************************************************************)
EXTENDS FsBlocks

CONSTANTS Names,        \* names of files and directories
          NameLen,      \* cells of a directory entry, for Names, "." and ".."
          FileSystems,  \* the values of max_fs_blocks to consider
          Offsets, Data,  \* what write commands write, and where
          MaxCrashes,   \* bound on how often the process is killed, per file system
          MaxLeaks      \* bound on the inodes that ls left in the cache

VARIABLES disk, cache, cur_dir, status,
          crashes,
          tree          \* the file tree on the device, a function of disk
                        \* (until a stale inode is reused: Reuses)

vars == <<disk, cache, cur_dir, status, crashes, tree>>

MaxSize == (NR_DIRECT_BLOCKS + NR_INDIRECT_BLOCKS) * BLOCK_SIZE
AnyName == Names \cup {".", ".."}

-----------------------------------------------------------------------------
(* The entries of a directory in the order of testfs_next_dirent: offset,  *)
(* name, and inode number, -1 when the entry was removed.  The walk ends   *)
(* early at a cell where no entry starts.                                  *)
Dirents(d, in) ==
  LET From[o \in Nat] ==
        IF o >= in.i_size \/ CellAt(d, in, o)[1] \notin AnyName THEN <<>>
        ELSE LET c == CellAt(d, in, o)
             IN <<[offset |-> o, name |-> c[1], inode_nr |-> c[2]]>> \o From[o + NameLen[c[1]]]
  IN From[0]

(* The first entry that satisfies Test, or none.                           *)
Find(es, Test(_), none) ==
  LET found == {i \in DOMAIN es : Test(es[i])}
  IN IF found = {} THEN none ELSE es[Min(found)]

InodeOf(s, nr) == IF inode_hash_find(s, nr) THEN s.cache[nr].in ELSE s.disk.inode[nr]
DirentsOf(s, nr) == Dirents(s.disk, InodeOf(s, nr))
IsNamed(e, name) == e.inode_nr >= 0 /\ e.name = name

testfs_dir_name_to_inode_nr(s, dir, name) ==
  Find(DirentsOf(s, dir), LAMBDA e : IsNamed(e, name), [inode_nr |-> ENOENT]).inode_nr

(* testfs_remove_dirent writes the entry back with inode number -1.        *)
testfs_write_dirent(s, dir, name, inode_nr, offset) ==
  testfs_write_data(s, dir, [i \in 1 .. NameLen[name] |->
                               IF i = 1 THEN Entry(name, inode_nr) ELSE Rest], offset)

(* Where the walk over the entries es ends.                                *)
EndOf(es) == IF es = <<>> THEN 0 ELSE Last(es).offset + NameLen[Last(es).name]

(* The first removed entry with a name as long is reused, if the name does *)
(* not come before it; else the new entry comes last, and the walk has met *)
(* no cell without an entry (the assertions of testfs_next_dirent and of   *)
(* testfs_add_dirent).                                                     *)
testfs_add_dirent(s, dir, name, inode_nr) ==
  LET end == EndOf(DirentsOf(s, dir))
      e == Find(DirentsOf(s, dir),
                LAMBDA f : \/ IsNamed(f, name)
                           \/ f.inode_nr < 0 /\ NameLen[f.name] = NameLen[name],
                [inode_nr |-> -1, offset |-> end])
  IN IF e.inode_nr >= 0 THEN Return(s, EEXIST)
     ELSE testfs_write_dirent(
            EndIf(s, e.offset = end /\ end < s.cache[dir].in.i_size, "d_name_len"),
            dir, name, inode_nr, e.offset)

(* Bug: the inode that was looked at is not put back.                      *)
BugKeepsInode(s, nr, ret) == Return(s, ret)
PutAndReturn(s, nr, ret) == Return(testfs_put_inode(s, nr), ret)

testfs_remove_dirent_allowed(s, nr) ==
  Then(testfs_get_inode(s, nr), LAMBDA t :
    LET full == /\ t.cache[nr].in.i_type = "I_DIR"
                /\ \E e \in Range(DirentsOf(t, nr)) :
                     e.inode_nr >= 0 /\ e.name \notin {".", ".."}
    IN PutAndReturn(t, nr, IF full THEN ENOTEMPTY ELSE 0))

testfs_remove_dirent(s, dir, name) ==
  IF name \in {".", ".."} THEN Return(s, EINVAL)
  ELSE Then(Find(DirentsOf(s, dir), LAMBDA e : IsNamed(e, name), [inode_nr |-> -1]), LAMBDA e :
         IF e.inode_nr < 0 THEN Return(s, ENOENT)
         ELSE IfOk(testfs_remove_dirent_allowed(s, e.inode_nr), LAMBDA t :
                IfOk(testfs_write_dirent(t, dir, name, -1, e.offset), LAMBDA u :
                  Return(u, e.inode_nr))))

testfs_create_empty_dir(s, parent, nr) ==
  IfOk(testfs_add_dirent(s, nr, ".", nr), LAMBDA t : testfs_add_dirent(t, nr, "..", parent))

(* Bug: create relies on testfs_add_dirent to find the name.               *)
BugNoLookup(s, dir, name) == FALSE
Exists(s, dir, name) == dir >= 0 /\ testfs_dir_name_to_inode_nr(s, dir, name) >= 0

(* The new inode is written and put back, or removed when a step failed.   *)
KeepOrRemove(s, nr) ==
  IF s.ret < 0 THEN Return(testfs_remove_inode(s, nr), s.ret)
  ELSE Return(testfs_put_inode(testfs_sync_inode(s, nr), nr), 0)

(* dir is negative for the root directory, which has no name.              *)
testfs_create_file_or_dir(s, dir, type, name) ==
  LET Fill(t, nr) ==
        IF type # "I_DIR" THEN t
        ELSE testfs_create_empty_dir(t, IF dir < 0 THEN nr ELSE dir, nr)
      Link(t, nr) ==
        IF dir < 0 THEN t
        ELSE IfOk(testfs_add_dirent(t, dir, name, nr), LAMBDA u : testfs_sync_inode(u, dir))
  IN IF Exists(s, dir, name) THEN Return(s, EEXIST)
     ELSE IfOk(testfs_create_inode(s, type), LAMBDA t :
            KeepOrRemove(IfOk(Fill(t, t.ret), LAMBDA u : Link(u, t.ret)), t.ret))

testfs_make_root_dir(s) == testfs_create_file_or_dir(s, -1, "I_DIR", ".")

(* The directories and files under nr, itself included.                    *)
Under(s, nr) ==
  LET Named(x) == IF InodeOf(s, x).i_type # "I_DIR" THEN {}
                  ELSE {e.inode_nr : e \in {f \in Range(DirentsOf(s, x)) :
                                              f.inode_nr >= 0 /\ f.name \in Names}}
      Level[k \in Nat] == IF k = 0 THEN {nr}
                          ELSE Level[k - 1] \cup UNION {Named(x) : x \in Level[k - 1]}
  IN Level[NrInodes]

(* Every inode listed is taken and put back, "." and ".." included.        *)
testfs_ls(s, nr, recursive) ==
  LET dirs == IF recursive THEN {x \in Under(s, nr) : InodeOf(s, x).i_type = "I_DIR"}
              ELSE {nr}
      listed == {e.inode_nr : e \in UNION {Range(DirentsOf(s, x)) : x \in dirs}}
  IN EndIf(s, \E x \in listed \cap DOMAIN s.cache : s.cache[x].dirty, "put_dirty_inode")

testfs_find_dirent(s, dir, nr) == {e \in Range(DirentsOf(s, dir)) : e.inode_nr = nr}

(* Each directory on the way to the root must have "..", and be found in   *)
(* the directory that names.                                               *)
testfs_pwd(s, nr) ==
  LET Up[k \in Nat] == IF k = 0 THEN nr
                       ELSE testfs_dir_name_to_inode_nr(s, Up[k - 1], "..")
      Lost(k) == \/ Up[k] < 0
                 \/ Up[k] # Up[k - 1] /\ testfs_find_dirent(s, Up[k], Up[k - 1]) = {}
  IN EndIf(s, \E k \in 1 .. NrInodes : (\A j \in 1 .. k - 1 : ~Lost(j)) /\ Lost(k), "pwd")

-----------------------------------------------------------------------------
cmd_create(s, name) == testfs_create_file_or_dir(s, s.cur_dir, "I_FILE", name)
cmd_mkdir(s, name) == testfs_create_file_or_dir(s, s.cur_dir, "I_DIR", name)

cmd_rm(s, name) ==
  IfOk(testfs_remove_dirent(s, s.cur_dir, name), LAMBDA t :
    Then(testfs_remove_inode(testfs_get_inode(t, t.ret), t.ret), LAMBDA u :
      Return(testfs_sync_inode(u, s.cur_dir), 0)))

(* The name that is a command's argument, in the current directory.        *)
Lookup(s, name) == Return(s, testfs_dir_name_to_inode_nr(s, s.cur_dir, name))
IsDir(s, nr) == s.cache[nr].in.i_type = "I_DIR"

(* Nothing puts back the inode of a name that is not a directory.          *)
cmd_ls(s, name, recursive) ==
  IfOk(Lookup(s, name), LAMBDA t :
    Then(testfs_get_inode(t, t.ret), LAMBDA u :
      IF ~IsDir(u, t.ret) THEN Return(u, ENOTDIR)
      ELSE Return(testfs_put_inode(testfs_ls(u, t.ret, recursive), t.ret), 0)))

cmd_stat(s, name) ==
  IfOk(Lookup(s, name), LAMBDA t :
    Return(testfs_put_inode(testfs_get_inode(t, t.ret), t.ret), 0))

cmd_pwd(s) == Return(testfs_pwd(s, s.cur_dir), 0)

cmd_cd(s, name) ==
  IfOk(Lookup(s, name), LAMBDA t :
    Then(testfs_get_inode(t, t.ret), LAMBDA u :
      IF ~IsDir(u, t.ret) THEN Return(testfs_put_inode(u, t.ret), ENOTDIR)
      ELSE Return([testfs_put_inode(u, s.cur_dir) EXCEPT !.cur_dir = t.ret], 0)))

testfs_get_file_inode(s, name) ==
  IfOk(Lookup(s, name), LAMBDA t :
    Then(testfs_get_inode(t, t.ret), LAMBDA u :
      IF IsDir(u, t.ret) THEN Return(testfs_put_inode(u, t.ret), EISDIR) ELSE u))

cmd_read(s, name, offset, size) ==
  IfOk(testfs_get_file_inode(s, name), LAMBDA t :
    testfs_put_inode(IF offset + size > t.cache[t.ret].in.i_size THEN Return(t, EINVAL)
                     ELSE testfs_read_data(t, t.ret, offset, size), t.ret))

cmd_write(s, name, offset, data) ==
  IfOk(testfs_get_file_inode(s, name), LAMBDA t :
    Then(testfs_write_data(t, t.ret, [i \in DOMAIN data |-> Number(data[i])], offset),
         LAMBDA u : testfs_put_inode(testfs_sync_inode(u, t.ret), t.ret)))

(* It also writes the super block and the freemaps, as they already are on *)
(* the device.                                                             *)
testfs_close_super_block(s) == EndIf(inode_hash_destroy(s), TRUE, "unmounted")

(* The end of main, after quit or the end of the input.                    *)
cmd_quit(s) == testfs_close_super_block(testfs_put_inode(s, s.cur_dir))

-----------------------------------------------------------------------------
NoCache == [n \in {} |-> 0]
Process(d, c, dir) ==
  [disk |-> d, log |-> <<>>, cache |-> c, cur_dir |-> dir, ret |-> 0, status |-> "mounted"]
testfs_init_super_block(d) == Process(d, NoCache, 0)
Shell == Process(disk, cache, cur_dir)

(* The tree that a shell started on the device would see.                  *)
TreeOn(s, linked, dirs) ==
  LET files == linked \ dirs
      Entries(names) ==
        UNION {{<<x, e.name, e.inode_nr>> : e \in {f \in Range(DirentsOf(s, x)) :
                  f.inode_nr >= 0 /\ f.name \in names}} : x \in dirs}
  IN [linked |-> linked, dirs |-> dirs,
      kind |-> [x \in Inodes |-> IF x \in linked THEN s.disk.inode[x].i_type ELSE "I_NONE"],
      entries |-> Entries(Names), dots |-> Entries({".", ".."}),
      size |-> [x \in Inodes |-> IF x \in files THEN s.disk.inode[x].i_size ELSE 0],
      bytes |-> [x \in Inodes |-> [o \in 0 .. MaxSize - 1 |->
                   IF x \in files THEN CellAt(s.disk, s.disk.inode[x], o)[2] ELSE 0]]]

TreeOf(d) ==
  LET s == testfs_init_super_block(d)
  IN Then(Under(s, 0), LAMBDA linked :
       TreeOn(s, linked, {x \in linked : d.inode[x].i_type = "I_DIR"}))

(* An inode that is free in the freemap and not zero on the device: left   *)
(* by a process that is killed in testfs_remove_inode between              *)
(* testfs_put_inode_freemap and testfs_sync_inode.  Nothing at the next    *)
(* mount looks for one.                                                    *)
StaleInodes == {n \in Inodes \ disk.inode_freemap : disk.inode[n] # ZeroInode}

(* The command takes a stale inode for a new file or directory, with its   *)
(* old size and blocks.  From then on files share blocks with each other,  *)
(* with directories and with the free blocks; the model includes this      *)
(* step, says so in status, and ends.                                      *)
Reuses(s) == \E n \in StaleInodes, d \in Range(s.log) : n \in d.inode_freemap
Ending(s, how) == IF Reuses(s) THEN "reused" ELSE how
NextTree == IF status' = "reused" \/ disk' = disk THEN tree ELSE TreeOf(disk')

Finish(s) ==
  /\ disk' = s.disk
  /\ cache' = IF s.status = "mounted" THEN s.cache ELSE NoCache
  /\ cur_dir' = s.cur_dir
  /\ status' = Ending(s, s.status)
  /\ tree' = NextTree
  /\ UNCHANGED crashes

(* The process is killed between two writes of a command.  (Before the     *)
(* first or after the last, the device is as after quit.)                  *)
Killed(s) ==
  /\ crashes < MaxCrashes[disk.max_fs_blocks]
  /\ \E k \in 1 .. Len(s.log) - 1 : disk' = s.log[k]
  /\ cache' = NoCache
  /\ status' = Ending(s, "killed")
  /\ crashes' = crashes + 1
  /\ tree' = NextTree
  /\ UNCHANGED cur_dir

Command(s) == status = "mounted" /\ (Finish(s) \/ Killed(s))

Create == \E n \in AnyName : Command(cmd_create(Shell, n))
Mkdir == \E n \in AnyName : Command(cmd_mkdir(Shell, n))
Rm == \E n \in AnyName : Command(cmd_rm(Shell, n))
Cd == \E n \in AnyName : Command(cmd_cd(Shell, n))
Ls == \E n \in AnyName, r \in BOOLEAN :
        /\ Cardinality(DOMAIN cache) <= MaxLeaks
        /\ Command(cmd_ls(Shell, n, r))
Stat == \E n \in AnyName : Command(cmd_stat(Shell, n))
Pwd == Command(cmd_pwd(Shell))
Read == \E n \in Names, o \in Offsets, data \in Data :
          Command(cmd_read(Shell, n, o, Len(data)))
Write == \E n \in AnyName, o \in Offsets, data \in Data :
           Command(cmd_write(Shell, n, o, data))
Quit == Command(cmd_quit(Shell))

(* main up to the first command.                                           *)
Mount ==
  /\ status \notin {"mounted", "reused"}
  /\ cache' = testfs_get_inode(testfs_init_super_block(disk), 0).cache
  /\ cur_dir' = 0
  /\ status' = "mounted"
  /\ UNCHANGED <<disk, crashes, tree>>

(* The end of the model, not of the program: see Reuses.                   *)
Unfollowed == status = "reused" /\ UNCHANGED vars

mktestfs(m) == testfs_make_root_dir(testfs_init_super_block(EmptyDisk(m))).disk

Init ==
  /\ disk \in {mktestfs(m) : m \in FileSystems}
  /\ cache = NoCache
  /\ cur_dir = 0
  /\ status = "unmounted"
  /\ crashes = 0
  /\ tree = TreeOf(disk)

Next == Create \/ Mkdir \/ Rm \/ Cd \/ Ls \/ Stat \/ Pwd \/ Read \/ Write \/ Quit \/ Mount
        \/ Unfollowed

Spec == Init /\ [][Next]_vars

-----------------------------------------------------------------------------
(* The places of an inode that can hold a block number: -1 is i_indirect,  *)
(* n >= 0 is the place of logical block n.                                 *)
Places == -1 .. NR_DIRECT_BLOCKS + NR_INDIRECT_BLOCKS - 1
Held(x, p) == IF p = -1 THEN disk.inode[x].i_indirect ELSE BlockOf(disk, disk.inode[x], p)
Holds(x) == {p \in Places : Held(x, p) > 0}

(* Until a stale inode is reused, no block belongs to two places, of one   *)
(* inode or of two, and every block that belongs to a file of the tree is  *)
(* marked in the block freemap.  The order of the writes of every command  *)
(* keeps this through a kill: testfs_alloc_block marks before the inode is *)
(* synced, cmd_rm removes the entry before testfs_remove_inode frees the   *)
(* blocks.                                                                 *)
BlocksOwnedOnce ==
  status # "reused" =>
    /\ \A x, y \in tree.linked : \A p \in Holds(x), q \in Holds(y) :
         Held(x, p) = Held(y, q) => x = y /\ p = q
    /\ \A x \in tree.linked : \A p \in Holds(x) : Held(x, p) - 1 \in disk.block_freemap

(* Without a crash nothing leaks: after each command, failed or not, the   *)
(* freemaps mark exactly what the tree uses, the counters of the super     *)
(* block count what is marked, block_count counts the blocks of the file,  *)
(* and what is free is zero, so that testfs_create_inode and               *)
(* testfs_allocate_block start from nothing.                               *)
NothingLeaks ==
  crashes = 0 =>
    /\ disk.inode_freemap = tree.linked
    /\ disk.block_freemap = UNION {{Held(x, p) - 1 : p \in Holds(x)} : x \in tree.linked}
    /\ disk.used_inode_count = Cardinality(disk.inode_freemap)
    /\ disk.used_block_count = Cardinality(disk.block_freemap)
    /\ \A x \in tree.linked : disk.inode[x].block_count = Cardinality(Holds(x))
    /\ StaleInodes = {}
    /\ \A b \in DataBlocks : b - 1 \notin disk.block_freemap => disk.block[b] = ZeroBlock

(* Until a stale inode is reused, the directories form a tree, also after  *)
(* a kill: "." names the directory itself, ".." the one that contains it,  *)
(* a name is used once in a directory although testfs_add_dirent stops at  *)
(* the first reusable entry, and an inode has one name.  This is what pwd  *)
(* and lsr rely on.                                                        *)
TreeShaped ==
  status # "reused" =>
    /\ \A e, f \in tree.entries : e[1] = f[1] /\ e[2] = f[2] => e = f
    /\ \A e, f \in tree.entries : e[3] = f[3] => e = f
    /\ \A e \in tree.entries : e[3] \in disk.inode_freemap \ {0}
    /\ tree.dots = UNION {{<<e[3], ".", e[3]>>, <<e[3], "..", e[1]>>} :
                            e \in {f \in tree.entries : f[3] \in tree.dirs} \cup {<<0, "/", 0>>}}

(* Between two commands the inodes in memory are those on the device, and  *)
(* the current directory is one of them and still in the tree.             *)
CacheCoherent ==
  status = "mounted" =>
    /\ cur_dir \in DOMAIN cache /\ cur_dir \in tree.dirs
    /\ \A n \in DOMAIN cache : cache[n].in = disk.inode[n]

(* Without a crash, no assertion about allocation fails and no block is    *)
(* read that was never written; the two assertions about the inode cache   *)
(* are the subject of NoDirtyPut and CommandsReleaseInodes.                *)
AllocationAssertionsHold ==
  crashes = 0 => status \in {"mounted", "unmounted", "put_dirty_inode", "inode_hash_destroy"}

(* "The inode is not dirty" when it is put, as testfs_put_inode asserts.   *)
NoDirtyPut == status # "put_dirty_inode"

(* A command that fails leaves the device as it was: what it had allocated *)
(* when an allocation failed is given back (testfs_create_file_or_dir,     *)
(* testfs_allocate_block, testfs_create_inode).  Only the device file may  *)
(* have grown.                                                             *)
FailedCommandUndone ==
  LET Undone(s) == s.ret < 0 =>
        [s.disk EXCEPT !.device_end = 0] = [disk EXCEPT !.device_end = 0]
  IN status = "mounted" /\ crashes = 0 =>
       \A n \in AnyName :
         /\ Undone(cmd_create(Shell, n)) /\ Undone(cmd_mkdir(Shell, n))
         /\ Undone(cmd_rm(Shell, n))
         /\ \A o \in Offsets, data \in Data : Undone(cmd_write(Shell, n, o, data))

(* Every command puts back the inodes it takes, whether it succeeds or     *)
(* fails: the references that remain are those of the current directory    *)
(* and those that were there before.  Only ls of a file keeps one.         *)
References(s, n) == (IF n \in DOMAIN s.cache THEN s.cache[n].i_count ELSE 0)
                    - (IF n = s.cur_dir THEN 1 ELSE 0)
Released(s) ==
  s.status = "mounted" => \A n \in Inodes : References(s, n) = References(Shell, n)
CommandsReleaseInodes ==
  status = "mounted" =>
    /\ Released(cmd_pwd(Shell))
    /\ \A n \in AnyName :
         /\ Released(cmd_create(Shell, n)) /\ Released(cmd_mkdir(Shell, n))
         /\ Released(cmd_rm(Shell, n)) /\ Released(cmd_cd(Shell, n))
         /\ Released(cmd_stat(Shell, n))
         /\ \A r \in BOOLEAN :
              cmd_ls(Shell, n, r).ret # ENOTDIR => Released(cmd_ls(Shell, n, r))
         /\ \A o \in Offsets, data \in Data :
              /\ Released(cmd_write(Shell, n, o, data))
              /\ Released(cmd_read(Shell, n, o, Len(data)))

(* "create an empty file" (cmd_create): the new file has no bytes.         *)
CreatesEmptyFile ==
  status = "mounted" =>
    \A n \in Names :
      LET s == cmd_create(Shell, n)
          nr == testfs_dir_name_to_inode_nr(s, cur_dir, n)
      IN s.ret >= 0 /\ s.status = "mounted" => InodeOf(s, nr).i_size = 0

-----------------------------------------------------------------------------
Tree == INSTANCE FileTree WITH
  Nodes <- Inodes, Root <- 0, Writes <- [offset : Offsets, data : Data], cwd <- cur_dir,
  kind <- tree.kind, entries <- tree.entries, size <- tree.size, bytes <- tree.bytes

(* Until a stale inode is reused, the commands implement the file tree:    *)
(* each has its effect on the tree or none, and a kill affects only what   *)
(* the command names.  (tree stands still when one is reused.)             *)
ImplementsFileTree == Tree!Spec
=============================================================================
