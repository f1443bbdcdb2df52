------------------------------ MODULE ObjectDb ------------------------------
(***************************************************************************)
(* The object handle database of uMTP-Responder (fs_handles_db.c), the     *)
(* MTP operations that change it, the inotify thread that keeps it in step *)
(* with the file system and the mount/lock commands of the message queue   *)
(* thread.                                                                 *)
(*                                                                         *)
(* Four actors interleave: the MTP thread (host requests), the inotify     *)
(* thread, the message queue thread, and the local users of the exported   *)
(* file system.  The first three serialise their critical sections on      *)
(* inotify_mutex, but a host rename changes its entry without it; nothing   *)
(* serialises the local users.                                             *)
(*                                                                         *)
(* The allocation order of the entries is the index in the sequence        *)
(* entries: entry_list is that sequence read from its end.  The memory the *)
(* entries live in is not modelled: a session does not end while the       *)
(* inotify thread still holds an entry of it.                              *)
(***************************************************************************)
EXTENDS Integers, SequencesExt

CONSTANTS
  NbStorages,  \* configured storages, none added or removed at run time
  Names,       \* sanitised object names
  Root,        \* "/", the name of a root entry
  NoName,      \* "", what fs_entry_stat leaves in fileinfo when stat64 fails
  ReadOnly,    \* storages configured with UMTP_STORAGE_READONLY
  Lockable,    \* storages configured with UMTP_STORAGE_LOCKABLE | LOCKED
  NotMounted,  \* storages configured with UMTP_STORAGE_NOTMOUNTED
  hash_function_name,  \* the hash node of every name
  MaxEntries,  \* bound: database entries of one session
  MaxWd,       \* watch descriptors the kernel hands out before it refuses
  MaxEvents,   \* bound: inotify events waiting in the kernel queue
  MaxDepth,    \* bound: directory nesting below a storage root
  MaxRenames,  \* bound: host renames of one session
  MaxCmds,     \* bound: mount/unmount/lock/unlock commands
  Uses         \* bound: the optional operations that behaviours exercise together

Storages == 1..NbStorages

ASSUME ConstantsAssumption ==
  /\ NbStorages \in Nat \ {0} /\ IsFiniteSet(Names)
  /\ Root \notin Names /\ NoName \notin Names /\ Root # NoName
  /\ hash_function_name \in [Names \cup {Root, NoName} -> Nat]
  /\ ReadOnly \subseteq Storages /\ Lockable \subseteq Storages
  /\ NotMounted \subseteq Storages
  /\ MaxEntries \in Nat /\ MaxWd \in Nat /\ MaxEvents \in Nat
  /\ MaxDepth \in Nat /\ MaxRenames \in Nat /\ MaxCmds \in Nat
  /\ Uses \subseteq SUBSET {"send", "partial", "rename", "move", "write"}

VARIABLES
  uses,         \* the optional operations of this behaviour
  session,      \* ctx->fs_db # NULL
  entries,      \* every fs_entry of the session, in allocation order
  next_handle,  \* db->next_handle
  renames,      \* renames of the session: the stamp of hash table insertions
  mounted,      \* storages without UMTP_STORAGE_NOTMOUNTED
  locked,       \* storages with UMTP_STORAGE_LOCKED
  mq,           \* the message queue thread within a lock or unlock command
  cmds,         \* message queue commands executed
  io,           \* the MTP thread between two steps of one operation
  sendHandle,   \* ctx->SendObjInfoHandle
  disk,         \* the exported file systems: path -> "file" | "dir"
  watches,      \* kernel: active watch descriptor -> path of its directory
  next_wd,      \* kernel: next watch descriptor
  events,       \* kernel: queue of inotify events
  ino,          \* the inotify thread between two critical sections
  told,         \* history: handles the host was told of in this session
  unmirrored,   \* history: folders whose changes the code could not see
  overwritten   \* history: names a host rename gave to two live entries, or
                \* hid from the inotify thread while it was under way

dbVars   == <<entries, next_handle, renames>>
cfgVars  == <<mounted, locked, mq, cmds>>
diskVars == <<disk, watches, next_wd>>
vars == <<uses, session, dbVars, cfgVars, io, sendHandle, diskVars, events, ino,
          told, unmirrored, overwritten>>

NONE == -1     \* 0xFFFFFFFF as a handle, -1 as a watch descriptor

IoIdle == [op |-> "idle", idx |-> 0, parent |-> 0,
           storage |-> 1, path |-> <<>>, to |-> <<>>, name |-> NoName]
RenameOps == {"naming", "moving", "renaming", "removed", "named"}
InoIdle == [phase |-> "idle", pos |-> 0, handle |-> NONE, code |-> "none"]

-----------------------------------------------------------------------------
(* Looking entries up. An entry is named by its index; 0 is a NULL pointer. *)

Live(i) == ~entries[i].deleted

IsFolder(i) == i # 0 /\ entries[i].dir

LiveEntries == {i \in DOMAIN entries : Live(i)}

\* Entries of one hash node are met in insertion order; a rename reinserts.
EarlierInHash(i, j) ==
  \/ entries[i].gen < entries[j].gen
  \/ entries[i].gen = entries[j].gen /\ i <= j

FirstInHash(S) ==
  IF S = {} THEN 0 ELSE CHOOSE i \in S : \A j \in S : EarlierInHash(i, j)

FirstInList(S) ==
  IF S = {} THEN 0 ELSE Max(S)

get_entry_by_handle(h) == FirstInHash({i \in LiveEntries : entries[i].handle = h})

get_entry_by_handle_and_storageid(h, s) ==
  FirstInList({i \in LiveEntries : entries[i].handle = h /\ entries[i].storage = s})

\* Mutant: the parent is not compared.
find_entry_AnyFolder(n, h, s) ==
  FirstInHash({i \in LiveEntries : entries[i].name = n /\ entries[i].storage = s})

find_entry(n, h, s) ==
  FirstInHash({i \in LiveEntries : /\ entries[i].name = n
                                   /\ entries[i].parent = h
                                   /\ entries[i].storage = s})

\* setObjectPropValue writes the new name into the entry while it builds the
\* second path, and again between remove_entry and insert_entry.
NameNow(i) ==
  IF io.op \in {"naming", "named"} /\ i = io.idx THEN io.name ELSE entries[i].name

\* The live entries that are in the hash tables.
Hashed == IF io.op \in {"removed", "named"} THEN LiveEntries \ {io.idx} ELSE LiveEntries

\* Mutant: the deleted flag is not looked at.
FoundByInotify_AlsoDeleted(n, h, s) ==
  FirstInHash({i \in DOMAIN entries : /\ NameNow(i) = n
                                      /\ entries[i].parent = h
                                      /\ entries[i].storage = s})

\* Mutant: a renamed entry is left in the hash node of its old name.
FoundByInotify_NotRehashed(n, h, s) ==
  FirstInHash({i \in Hashed : /\ NameNow(i) = n /\ entries[i].gen = 0
                              /\ entries[i].parent = h
                              /\ entries[i].storage = s})

\* find_entry in the inotify thread, which may meet a rename half done: an entry
\* stays in the hash node of its old name until remove_entry. The MTP thread
\* makes no look-up by name within its own rename.
FoundByInotify(n, h, s) ==
  FirstInHash({i \in Hashed : /\ NameNow(i) = n
                              /\ hash_function_name[entries[i].name] = hash_function_name[n]
                              /\ entries[i].parent = h
                              /\ entries[i].storage = s})

\* What init_search_handle and get_next_child_handle enumerate.
ChildrenInDb(h, s) ==
  {i \in LiveEntries : /\ entries[i].parent = h
                       /\ entries[i].storage = s
                       /\ entries[i].handle # entries[i].parent}

\* get_entry_by_wd: from list position pos towards the older entries.
get_entry_by_wd(wd, pos) ==
  FirstInList({i \in LiveEntries : entries[i].wd = wd /\ i <= pos})

-----------------------------------------------------------------------------
(* Paths and the file system. A path is <<storage, name, ..., name>>.        *)

IsDir(p)  == p \in DOMAIN disk /\ disk[p] = "dir"
IsFile(p) == p \in DOMAIN disk /\ disk[p] = "file"

Listing(p) == {n \in Names : Append(p, n) \in DOMAIN disk}

\* The names build_full_path collects while it climbs from entry i, the entries
\* named by the function name and those of hashed in the table by handle; an
\* ancestor that get_entry_by_handle does not find ends the climb.
ClimbIn(name, hashed, i) ==
  LET up[k \in DOMAIN entries] ==
        LET own == IF name[k] \in Names THEN <<name[k]>> ELSE <<>>
            j   == IF entries[k].parent = 0 THEN 0
                   ELSE FirstInHash({a \in hashed : entries[a].handle = entries[k].parent})
        IN  IF j = 0 THEN own ELSE up[j] \o own
  IN  up[i]

Climb(i) == ClimbIn([k \in DOMAIN entries |-> entries[k].name], LiveEntries, i)

\* realpath: the object itself, or a name that does not exist yet in a folder
\* that does. <<>> stands for NULL.
Resolved(p, mayBeNew) ==
  IF \/ p \in DOMAIN disk
     \/ mayBeNew /\ Len(p) > 1 /\ IsDir(Front(p))
  THEN p ELSE <<>>

\* The path of entry i before it is resolved.
PathOf(i) == <<entries[i].storage>> \o Climb(i)

build_full_path(i) ==
  IF i = 0 THEN <<>> ELSE Resolved(PathOf(i), entries[i].name \in Names)

\* build_full_path in the inotify thread, which may meet a rename half done.
PathForInotify(i) ==
  IF i = 0 THEN <<>>
  ELSE Resolved(<<entries[i].storage>>
                  \o ClimbIn([k \in DOMAIN entries |-> NameNow(k)], Hashed, i),
                NameNow(i) \in Names)

\* The path of entry i while it has the name n in the place of its own.
PathRenamed(i, n) ==
  LET folder == IF entries[i].name \in Names THEN Front(PathOf(i)) ELSE PathOf(i)
  IN  Resolved(Append(folder, n), TRUE)

WatchersOf(p) == {w \in DOMAIN watches : watches[w] = p}

\* The watch is on a directory that is not the path an entry is taken to have.
Misplaced(wd, path) == wd \in DOMAIN watches /\ watches[wd] # path

\* Entries whose watch is on a directory under p.
WatchingUnder(p) ==
  {i \in LiveEntries : \E w \in DOMAIN watches : w = entries[i].wd /\ IsPrefix(p, watches[w])}

\* The kernel reports an object to the watch of the folder that holds it.
EventFor(p, mask) ==
  [wd |-> CHOOSE w \in WatchersOf(Front(p)) : TRUE, name |-> Last(p), mask |-> mask]

Watched(S) == {p \in S : Len(p) > 1 /\ WatchersOf(Front(p)) # {}}

\* The queue after one event about p.
Queued(p, mask) ==
  IF Watched({p}) = {} THEN events ELSE Append(events, EventFor(p, mask))

\* The orders in which the objects of S may be reported as removed: what a
\* directory holds goes before the directory.
RemovalOrders(S) ==
  {f \in SetToSeqs(S) : \A a, b \in DOMAIN f : a < b => ~IsPrefix(f[a], f[b])}

\* Objects gone from the disk: their own watches die with them, the watches
\* of the folders that held them report it. dropped: watches the code removes.
DiskLoses(gone, dropped) ==
  /\ disk' = Restrict(disk, DOMAIN disk \ gone)
  /\ watches' = Restrict(watches, {w \in DOMAIN watches \ dropped : watches[w] \notin gone})
  /\ \E order \in RemovalOrders(Watched(gone)) :
       events' = events \o [k \in DOMAIN order |-> EventFor(order[k], "delete")]
  /\ UNCHANGED next_wd

DiskGains(p, kind) ==
  /\ disk' = [q \in DOMAIN disk \cup {p} |-> IF q = p THEN kind ELSE disk[q]]
  /\ events' = Queued(p, "create")
  /\ UNCHANGED <<watches, next_wd>>

\* rename(2) of p to q: allowed onto a file or an empty directory of its kind.
CanMove(p, q) ==
  /\ p \in DOMAIN disk /\ ~IsPrefix(p, q) /\ IsDir(Front(q))
  /\ q \in DOMAIN disk => disk[p] = disk[q] /\ Listing(q) = {}

DiskMoves(p, q) ==
  LET moved(r) == IF IsPrefix(p, r) THEN q \o SubSeq(r, Len(p) + 1, Len(r)) ELSE r
      back(r)  == IF IsPrefix(q, r) THEN p \o SubSeq(r, Len(q) + 1, Len(r)) ELSE r
      from     == IF Watched({p}) = {} THEN <<>> ELSE <<EventFor(p, "delete")>>
      to       == IF Watched({q}) = {} THEN <<>> ELSE <<EventFor(q, "create")>>
  IN  /\ disk' = [r \in {moved(x) : x \in DOMAIN disk \ {q}} |-> disk[back(r)]]
      /\ watches' = [w \in {v \in DOMAIN watches : watches[v] # q} |-> moved(watches[w])]
      /\ events' = events \o from \o to
      /\ UNCHANGED next_wd

-----------------------------------------------------------------------------
(* Changing entries.                                                        *)

alloc_root_entry(s) ==
  [handle |-> 0, parent |-> 0, storage |-> s, name |-> Root, dir |-> TRUE,
   deleted |-> FALSE, wd |-> NONE, gen |-> renames]

\* alloc_entry, for the k-th entry allocated in a step.
alloc_entry(k, h, s, n, d) ==
  [handle |-> next_handle + k - 1, parent |-> h, storage |-> s, name |-> n,
   dir |-> d, deleted |-> FALSE, wd |-> NONE, gen |-> renames]

\* Mutant: the flags are assigned, not or-ed.
Deleting_Assigned(S, unwatch) ==
  [i \in DOMAIN entries |->
     [entries[i] EXCEPT !.deleted = i \in S, !.wd = IF i \in unwatch THEN NONE ELSE @]]

\* Entries of S get ENTRY_IS_DELETED, those of unwatch also lose their watch.
Deleting(S, unwatch) ==
  [i \in DOMAIN entries |->
     [entries[i] EXCEPT !.deleted = @ \/ i \in S,
                        !.wd = IF i \in unwatch THEN NONE ELSE @]]

WdsOf(S) == {entries[i].wd : i \in S}

\* Mutant: the read-only flag is not looked at.
MayWrite_AlsoReadOnly(i) == entries[i].storage \notin locked

\* check_handle_access with wraccess set.
MayWrite(i) == entries[i].storage \notin locked /\ entries[i].storage \notin ReadOnly

MutexFree == io.op # "listing"   \* inotify_mutex, between two steps
IoReady   == io.op = "idle"

-----------------------------------------------------------------------------
(* The MTP thread.                                                          *)

\* Mutant: a session is opened over the open one.
OpenSession_Again ==
  /\ IoReady
  /\ session' = TRUE
  /\ entries' = [i \in Storages |-> alloc_root_entry(i)]
  /\ UNCHANGED <<next_handle, renames, cfgVars, io, sendHandle, diskVars, events,
                 ino, told, unmirrored, overwritten>>

OpenSession ==
  /\ IoReady /\ ~session
  /\ session' = TRUE
  /\ entries' = [i \in Storages |-> alloc_root_entry(i)]
  /\ UNCHANGED <<next_handle, renames, cfgVars, io, sendHandle, diskVars, events,
                 ino, told, unmirrored, overwritten>>

\* deinit_fs_db drops every watch; the next session starts from init_fs_db.
CloseSession ==
  /\ IoReady /\ session /\ ino.pos = 0
  /\ session' = FALSE
  /\ entries' = <<>> /\ next_handle' = 1 /\ renames' = 0
  /\ watches' = Restrict(watches, DOMAIN watches \ WdsOf(DOMAIN entries))
  /\ told' = {} /\ unmirrored' = {} /\ overwritten' = {}
  /\ UNCHANGED <<cfgVars, io, sendHandle, disk, next_wd, events, ino>>

\* GetObjectHandles up to the end of scan_and_add_folder: what the folder holds
\* and the database lacks is added, children that stat64 misses are deleted.
ScanFolder(h, s) ==
  LET idx   == IF h = 0 THEN get_entry_by_handle_and_storageid(0, s)
                        ELSE get_entry_by_handle(h)
      path  == IF h = 0 THEN <<s>> ELSE build_full_path(idx)
      fresh == IF IsDir(path) THEN {n \in Listing(path) : find_entry(n, h, s) = 0} ELSE {}
      dead  == {c \in ChildrenInDb(h, s) : build_full_path(c) \notin DOMAIN disk \cup {<<>>}}
      size  == Len(entries)
  IN  /\ IoReady /\ session /\ path # <<>>
      /\ \E order \in SetToSeqs(fresh) :
           /\ entries' = [i \in 1..(size + Cardinality(fresh)) |->
                            IF i <= size THEN Deleting(dead, dead)[i]
                            ELSE alloc_entry(i - size, h, s, order[i - size],
                                             IsDir(Append(path, order[i - size])))]
      /\ next_handle' = next_handle + Cardinality(fresh)
      /\ watches' = Restrict(watches, DOMAIN watches \ WdsOf(dead))
      /\ io' = IF IsDir(path)
               THEN [IoIdle EXCEPT !.op = "listing", !.idx = idx, !.parent = h,
                                   !.storage = s, !.path = path]
               ELSE IoIdle
      /\ UNCHANGED <<session, renames, cfgVars, sendHandle, disk, next_wd, events,
                     ino, told, unmirrored, overwritten>>

DbNames(h, s) == {entries[c].name : c \in ChildrenInDb(h, s)} \ {NoName}

\* The rest of GetObjectHandles: the watch on the folder, then the reply.
\* inotify_add_watch fails when the folder is gone or at the kernel's limit.
RegisterWatch ==
  LET old == WatchersOf(io.path)
      wd  == IF old # {} THEN CHOOSE w \in old : TRUE
             ELSE IF io.path \in DOMAIN disk /\ next_wd <= MaxWd THEN next_wd
             ELSE NONE
      new == wd # NONE /\ old = {}
  IN  /\ io.op = "listing"
      /\ \/ /\ IsFolder(io.idx)
            /\ entries' = [entries EXCEPT ![io.idx].wd = wd]
            /\ watches' = IF new THEN [w \in DOMAIN watches \cup {wd} |->
                                         IF w = wd THEN io.path ELSE watches[w]]
                          ELSE watches
            /\ next_wd' = IF new THEN next_wd + 1 ELSE next_wd
            /\ unmirrored' = IF /\ entries[io.idx].wd # wd
                                /\ DbNames(io.parent, io.storage) # Listing(io.path)
                             THEN unmirrored \cup {io.idx}
                             ELSE IF entries[io.idx].wd # wd THEN unmirrored \ {io.idx}
                             ELSE unmirrored
         \/ /\ ~IsFolder(io.idx)
            /\ UNCHANGED <<entries, watches, next_wd, unmirrored>>
      /\ told' = told \cup {entries[c].handle : c \in ChildrenInDb(io.parent, io.storage)}
      /\ io' = IoIdle
      /\ UNCHANGED <<session, next_handle, renames, cfgVars, sendHandle, disk, events,
                     ino, overwritten>>

\* Mutant: an entry is added without a look for one that is there.
add_entry_Always(h, s, n, d) ==
  /\ entries' = Append(entries, alloc_entry(1, h, s, n, d))
  /\ next_handle' = next_handle + 1
  /\ io' = [IoIdle EXCEPT !.op = "answering", !.idx = Len(entries) + 1]

\* add_entry of one object, whose handle the response will tell.
add_entry(h, s, n, d) ==
  LET e == find_entry(n, h, s)
  IN  IF e # 0
      THEN /\ UNCHANGED <<entries, next_handle>>
           /\ io' = [IoIdle EXCEPT !.op = "answering", !.idx = e]
      ELSE /\ entries' = Append(entries, alloc_entry(1, h, s, n, d))
           /\ next_handle' = next_handle + 1
           /\ io' = [IoIdle EXCEPT !.op = "answering", !.idx = Len(entries) + 1]

\* The requests that reach mkdir or open; the others answer without an effect.
\* The mutex is free again before the response is written.
SendObjectInfo(s, h, n, kind) ==
  LET i      == get_entry_by_handle_and_storageid(h, s)
      folder == build_full_path(i)
      p      == Append(folder, n)
      e      == find_entry(n, h, s)
  IN  /\ IoReady /\ session /\ s \notin ReadOnly
      /\ IsFolder(i)
      /\ Len(p) <= MaxDepth + 1
      /\ \/ /\ kind = "dir" /\ IsDir(folder) /\ p \notin DOMAIN disk
            /\ DiskGains(p, "dir")
            /\ add_entry(h, s, n, TRUE)
            /\ UNCHANGED sendHandle
         \/ /\ kind = "file" /\ IsDir(folder) /\ ~IsDir(p)
            /\ \/ p \notin DOMAIN disk /\ DiskGains(p, "file")
               \/ p \in DOMAIN disk /\ events' = Queued(p, "modify") /\ UNCHANGED diskVars
            /\ add_entry(h, s, n, FALSE)
            /\ sendHandle' = IF e # 0 THEN entries[e].handle ELSE next_handle
         \/ /\ kind = "file" /\ folder = <<>>
            /\ sendHandle' = NONE
            /\ UNCHANGED <<entries, next_handle, io, diskVars, events>>
      /\ UNCHANGED <<session, renames, cfgVars, ino, told, unmirrored, overwritten>>

\* process_in_packet writes the response of SendObjectInfo.
SendResponse ==
  /\ io.op = "answering"
  /\ told' = told \cup {entries[io.idx].handle}
  /\ io' = IoIdle
  /\ UNCHANGED <<session, dbVars, cfgVars, sendHandle, diskVars, events, ino, unmirrored,
                 overwritten>>

\* SendPartialObject, command phase: the handle the data phase will use.
SendPartialObject(h) ==
  /\ IoReady /\ session /\ h # sendHandle
  /\ sendHandle' = h
  /\ UNCHANGED <<session, dbVars, cfgVars, io, diskVars, events, ino, told,
                 unmirrored, overwritten>>

\* SendObject, data phase: open(O_CREAT | O_TRUNC) and the writes.
SendObject ==
  LET i == get_entry_by_handle(sendHandle)
      p == build_full_path(i)
  IN  /\ IoReady /\ session /\ sendHandle # NONE
      /\ p # <<>> /\ ~IsDir(p)
      /\ MayWrite(i)
      /\ \/ p \notin DOMAIN disk /\ DiskGains(p, "file")
         \/ p \in DOMAIN disk /\ events' = Queued(p, "modify") /\ UNCHANGED diskVars
      /\ UNCHANGED <<session, dbVars, cfgVars, io, sendHandle, ino, told, unmirrored,
                     overwritten>>

-----------------------------------------------------------------------------
(* DeleteObject.  delete_db_tree walks the children of a folder with the    *)
(* one search cursor of the database, and its recursive call moves that     *)
(* cursor to the sub-folder: when the call returns, get_next_child_handle   *)
(* is at the end of the list and the outer walk stops.                      *)
(*                                                                          *)
(* A walk is [left, dead, bad, calls, from]: the objects still on the disk, *)
(* the entries deleted, the calls in which a removal failed (fcnt # 0), the *)
(* folders of the calls under way, and the cursor: only entries older than  *)
(* from come next.                                                          *)

KidsOf(i) == ChildrenInDb(entries[i].handle, entries[i].storage)

Under(p, S) == {q \in S : IsPrefix(p, q)}

\* remove() takes a file or an empty directory.
RemoveFile(walk, c) ==
  LET p == PathOf(c)
  IN  IF Under(p, walk.left) = {p}
      THEN [walk EXCEPT !.left = @ \ {p}, !.dead = @ \cup {c}, !.from = c]
      ELSE [walk EXCEPT !.bad = @ \cup {Len(walk.calls)}, !.from = c]

\* The call for folder c returns: fs_remove_tree, if no removal failed in this
\* call or in one below. A failure counts in the caller.
RemoveFolder(walk, c) ==
  LET p    == PathOf(c)
      call == Len(walk.calls)
      ret  == [walk EXCEPT !.calls = Front(@), !.from = 0]
  IN  IF \E k \in walk.bad : k >= call THEN ret
      ELSE IF IsDir(p) /\ p \in walk.left
      THEN [ret EXCEPT !.left = @ \ Under(p, @), !.dead = @ \cup {c}]
      ELSE [ret EXCEPT !.bad = @ \cup {call - 1}]

\* One turn of the loop in the innermost call.
DeleteTurn(walk) ==
  LET folder == Last(walk.calls)
      c      == FirstInList({k \in KidsOf(folder) : k < walk.from})
  IN  IF walk.calls = <<>> THEN walk
      ELSE IF c = 0 THEN RemoveFolder(walk, folder)
      ELSE IF entries[c].dir
      THEN [walk EXCEPT !.calls = Append(@, c), !.from = Len(entries) + 1]
      ELSE RemoveFile(walk, c)

\* delete_tree: a walk takes a turn for each object and each return at most.
delete_tree(e) ==
  LET start == [left |-> DOMAIN disk, dead |-> {}, bad |-> {}, calls |-> <<e>>,
                from |-> Len(entries) + 1]
      turns == 2 * Len(entries)
      walk[t \in 0..turns] == IF t = 0 THEN start ELSE DeleteTurn(walk[t - 1])
  IN  IF entries[e].dir THEN walk[turns] ELSE RemoveFile(start, e)

DeleteObject(h) ==
  LET e   == get_entry_by_handle(h)
      res == delete_tree(e)
      top == res.dead \cap {e}
  IN  /\ IoReady /\ session
      /\ build_full_path(e) # <<>>
      /\ MayWrite(e)
      /\ entries' = Deleting(res.dead, top)
      /\ DiskLoses(DOMAIN disk \ res.left, WdsOf(top))
      /\ UNCHANGED <<session, next_handle, renames, cfgVars, io, sendHandle, ino, told,
                     unmirrored, overwritten>>

-----------------------------------------------------------------------------
(* SetObjectPropValue(ObjectFileName) takes no mutex: between any two of    *)
(* its steps the other threads read the entry, and the folders above it may *)
(* leave the database. The two hash tables change as one.                   *)

\* The first path, then the new name in the place of the old one.
RenameStart(h, n) ==
  LET i == get_entry_by_handle(h)
      p == build_full_path(i)
  IN  /\ IoReady /\ session /\ renames < MaxRenames
      /\ p # <<>> /\ MayWrite(i)
      /\ io' = [IoIdle EXCEPT !.op = "naming", !.idx = i, !.name = n, !.path = p]
      /\ UNCHANGED <<session, dbVars, cfgVars, sendHandle, diskVars, events, ino, told,
                     unmirrored, overwritten>>

\* The second path; the entry has its old name again.
RenamePath ==
  LET q == PathRenamed(io.idx, io.name)
  IN  /\ io.op = "naming"
      /\ io' = IF q = <<>> THEN IoIdle ELSE [io EXCEPT !.op = "moving", !.to = q]
      /\ UNCHANGED <<session, dbVars, cfgVars, sendHandle, diskVars, events, ino, told,
                     unmirrored, overwritten>>

\* Mutant: when rename(2) fails the entry keeps the new name.
RenameOnDisk_FailsRenamed ==
  /\ io.op = "moving"
  /\ io' = IoIdle
  /\ entries' = [entries EXCEPT ![io.idx].name = io.name]
  /\ UNCHANGED <<session, next_handle, renames, cfgVars, sendHandle, diskVars, events, ino,
                 told, unmirrored, overwritten>>

\* rename(2) fails, or moves the object: out of its folder, if a folder above
\* left the database between the two paths. The path of a nameless entry is that
\* of its folder, which cannot be moved into itself.
RenameOnDisk ==
  LET p == io.path
      q == io.to
  IN  /\ io.op = "moving"
      /\ \/ /\ io' = IoIdle
            /\ UNCHANGED <<diskVars, events, unmirrored>>
         \/ /\ entries[io.idx].name \in Names
            /\ \/ p = q /\ p \in DOMAIN disk /\ UNCHANGED <<diskVars, events>>
               \/ CanMove(p, q) /\ DiskMoves(p, q)
            /\ io' = [IoIdle EXCEPT !.op = "renaming", !.idx = io.idx, !.name = io.name]
            /\ unmirrored' = IF Front(p) = Front(q) THEN unmirrored
                             ELSE unmirrored \cup WatchingUnder(p)
      /\ UNCHANGED <<session, dbVars, cfgVars, sendHandle, ino, told, overwritten>>

RenameStep(before, after) ==
  /\ io.op = before
  /\ io' = [io EXCEPT !.op = after]
  /\ UNCHANGED <<session, dbVars, cfgVars, sendHandle, diskVars, events, ino, told,
                 unmirrored, overwritten>>

\* remove_entry, then the new name.
RenameRemove == RenameStep("renaming", "removed")
RenameName   == RenameStep("removed", "named")

\* insert_entry
RenameInsert ==
  LET i    == io.idx
      twin == find_entry(io.name, entries[i].parent, entries[i].storage)
      Key(n) == <<entries[i].storage, entries[i].parent, n>>
  IN  /\ io.op = "named"
      /\ entries' = [entries EXCEPT ![i] = [@ EXCEPT !.name = io.name, !.gen = renames + 1]]
      /\ renames' = renames + 1
      /\ overwritten' = IF Live(i) /\ (twin \notin {0, i} \/ Key(entries[i].name) \in overwritten)
                        THEN overwritten \cup {Key(io.name)}
                        ELSE overwritten
      /\ io' = IoIdle
      /\ UNCHANGED <<session, next_handle, cfgVars, sendHandle, diskVars, events, ino, told>>
      /\ unmirrored' = unmirrored \cup
           {j \in LiveEntries : Misplaced(entries[j].wd, build_full_path(j))'}

-----------------------------------------------------------------------------
(* The inotify thread: one critical section per entry that has the watch    *)
(* descriptor of the event, the MTP event pushed after the mutex is free.   *)

\* entry->next, then the next turn of the loop or the end of the event.
InotifyMoves(i, code, h) ==
  LET pos == IF i = 0 THEN 0 ELSE i - 1
  IN  /\ ino' = IF code # "none" THEN [phase |-> "push", pos |-> pos, handle |-> h, code |-> code]
                ELSE IF pos # 0 THEN [InoIdle EXCEPT !.phase = "loop", !.pos = pos]
                ELSE InoIdle
      /\ events' = IF code = "none" /\ pos = 0 THEN Tail(events) ELSE events

\* The folder entry the inotify thread handles in this turn, 0 if none.
InotifyEntry ==
  get_entry_by_wd(Head(events).wd, IF ino.phase = "loop" THEN ino.pos ELSE Len(entries))

InotifyTurn(mask) ==
  /\ MutexFree
  /\ ino.phase \in {"idle", "loop"}
  /\ events # <<>> /\ Head(events).mask = mask
  /\ UNCHANGED <<session, renames, cfgVars, io, sendHandle, disk, next_wd, told>>

NotesMisplaced(i) ==
  LET wd == Head(events).wd
  IN  unmirrored' = IF wd \in DOMAIN watches /\ watches[wd] = PathForInotify(i) THEN unmirrored
                    ELSE unmirrored \cup
                           {k \in LiveEntries : /\ entries[k].handle = entries[i].handle
                                                /\ entries[k].storage = entries[i].storage}

\* A rename half done made a difference to the look-up of name n in folder i.
NotesCrossed(i, n) ==
  LET h == entries[i].handle
      s == entries[i].storage
  IN  overwritten' = IF io.op \in RenameOps /\ FoundByInotify(n, h, s) # find_entry(n, h, s)
                     THEN overwritten \cup ({s} \X {h} \X {n, entries[io.idx].name, io.name})
                     ELSE overwritten

\* No entry has the descriptor, or get_file_info finds no path for it.
InotifySkip ==
  /\ \E mask \in {"create", "modify", "delete"} : InotifyTurn(mask)
  /\ LET i == InotifyEntry
     IN  /\ PathForInotify(i) = <<>>
         /\ InotifyMoves(i, "none", NONE)
         /\ IF i = 0 THEN UNCHANGED unmirrored ELSE NotesMisplaced(i)
  /\ UNCHANGED <<entries, next_handle, watches, overwritten>>

\* IN_CREATE, IN_MOVED_TO. When stat64 fails the name is "" and isdirectory
\* is whatever fileinfo held before.
InotifyCreate ==
  /\ InotifyTurn("create")
  /\ LET i     == InotifyEntry
         path  == PathForInotify(i)
         seen  == Head(events).name \in Listing(path)
         n     == IF seen THEN Head(events).name ELSE NoName
     IN  /\ path # <<>>
         /\ NotesMisplaced(i) /\ NotesCrossed(i, n)
         /\ IF FoundByInotify(n, entries[i].handle, entries[i].storage) # 0
            THEN UNCHANGED <<entries, next_handle>> /\ InotifyMoves(i, "none", NONE)
            ELSE /\ \E d \in BOOLEAN :
                      /\ seen => d = IsDir(Append(path, n))
                      /\ entries' = Append(entries, alloc_entry(1, entries[i].handle,
                                                     entries[i].storage, n, d))
                 /\ next_handle' = next_handle + 1
                 /\ InotifyMoves(i, "ObjectAdded", next_handle)
  /\ UNCHANGED watches

\* IN_MODIFY
InotifyModify ==
  /\ InotifyTurn("modify")
  /\ LET i == InotifyEntry
         m == FoundByInotify(Head(events).name, entries[i].handle, entries[i].storage)
     IN  /\ PathForInotify(i) # <<>>
         /\ NotesMisplaced(i)
         /\ IF m = 0 THEN InotifyMoves(i, "none", NONE)
            ELSE InotifyMoves(i, "ObjectInfoChanged", entries[m].handle)
  /\ UNCHANGED <<entries, next_handle, watches, overwritten>>

\* IN_DELETE, IN_MOVED_FROM
InotifyDelete ==
  /\ InotifyTurn("delete")
  /\ LET i == InotifyEntry
         d == FoundByInotify(Head(events).name, entries[i].handle, entries[i].storage)
     IN  /\ PathForInotify(i) # <<>>
         /\ NotesMisplaced(i) /\ NotesCrossed(i, Head(events).name)
         /\ IF d = 0
            THEN UNCHANGED <<entries, watches>> /\ InotifyMoves(i, "none", NONE)
            ELSE /\ entries' = Deleting({d}, {d})
                 /\ watches' = Restrict(watches, DOMAIN watches \ WdsOf({d}))
                 /\ InotifyMoves(i, "ObjectRemoved", entries[d].handle)
  /\ UNCHANGED next_handle

\* Mutant: the event is dropped.
InotifyPush_Drops ==
  /\ ino.phase = "push"
  /\ IF ino.pos # 0
     THEN ino' = [InoIdle EXCEPT !.phase = "loop", !.pos = ino.pos] /\ UNCHANGED events
     ELSE ino' = InoIdle /\ events' = Tail(events)
  /\ UNCHANGED <<session, dbVars, cfgVars, io, sendHandle, diskVars, told, unmirrored,
                 overwritten>>

\* mtp_push_event, outside the mutex.
InotifyPush ==
  /\ ino.phase = "push"
  /\ told' = IF ino.code = "ObjectAdded" /\ session THEN told \cup {ino.handle} ELSE told
  /\ IF ino.pos # 0
     THEN ino' = [InoIdle EXCEPT !.phase = "loop", !.pos = ino.pos] /\ UNCHANGED events
     ELSE ino' = InoIdle /\ events' = Tail(events)
  /\ UNCHANGED <<session, dbVars, cfgVars, io, sendHandle, diskVars, unmirrored, overwritten>>

-----------------------------------------------------------------------------
(* The message queue thread.                                                *)

umount_store(s) ==
  LET all == {i \in LiveEntries : entries[i].storage = s}
  IN  /\ entries' = Deleting(all, all)
      /\ watches' = Restrict(watches, DOMAIN watches \ WdsOf(all))

\* A root entry is added only if UMTP_STORAGE_NOTMOUNTED is set.
mount_store(s) ==
  /\ entries' = IF session /\ s \notin mounted
                THEN Append(entries, alloc_root_entry(s)) ELSE entries
  /\ UNCHANGED watches

Command ==
  /\ MutexFree
  /\ UNCHANGED <<session, next_handle, renames, io, sendHandle, disk, next_wd, events,
                 ino, told, unmirrored, overwritten>>

NewCommand == mq.todo = {} /\ cmds < MaxCmds /\ cmds' = cmds + 1

Mount(s) ==
  /\ Command /\ NewCommand
  /\ mount_store(s)
  /\ mounted' = mounted \cup {s}
  /\ UNCHANGED <<locked, mq>>

Unmount(s) ==
  /\ Command /\ NewCommand
  /\ umount_store(s)
  /\ mounted' = mounted \ {s}
  /\ UNCHANGED <<locked, mq>>

\* "lock" and "unlock" visit every storage, one critical section each.
LockCommand(cmd) ==
  /\ NewCommand
  /\ mq' = [cmd |-> cmd, todo |-> Storages]
  /\ UNCHANGED <<session, dbVars, mounted, locked, io, sendHandle, diskVars, events, ino,
                 told, unmirrored, overwritten>>

LockStep ==
  LET s == Min(mq.todo)
  IN  /\ mq.todo # {}
      /\ Command
      /\ \/ /\ mq.cmd = "lock" /\ s \in Lockable \ locked
            /\ umount_store(s)
            /\ locked' = locked \cup {s}
         \/ /\ mq.cmd = "unlock" /\ s \in Lockable \cap locked
            /\ mount_store(s)
            /\ locked' = locked \ {s}
         \/ /\ s \notin IF mq.cmd = "lock" THEN Lockable \ locked ELSE Lockable \cap locked
            /\ UNCHANGED <<entries, watches, locked>>
      /\ mq' = [mq EXCEPT !.todo = @ \ {s}]
      /\ UNCHANGED <<mounted, cmds>>

-----------------------------------------------------------------------------
(* The local users of the exported folders.                                 *)

Local ==
  UNCHANGED <<session, dbVars, cfgVars, io, sendHandle, ino, told, overwritten>>

LocalCreate(p, kind) ==
  /\ Local
  /\ p \notin DOMAIN disk
  /\ DiskGains(p, kind)
  /\ UNCHANGED unmirrored

LocalRemove(p) ==
  /\ Local
  /\ Len(p) > 1 /\ Listing(p) = {}
  /\ DiskLoses({p}, {})
  /\ UNCHANGED unmirrored

LocalMove(p, q) ==
  /\ Local
  /\ Len(p) > 1 /\ p # q /\ CanMove(p, q)
  /\ DiskMoves(p, q)
  /\ unmirrored' = unmirrored \cup WatchingUnder(p)

LocalWrite(p) ==
  /\ Local
  /\ IsFile(p) /\ Watched({p}) # {}
  /\ events' = Queued(p, "modify")
  /\ UNCHANGED <<diskVars, unmirrored>>

-----------------------------------------------------------------------------
Init ==
  /\ uses \in Uses
  /\ session = FALSE
  /\ entries = <<>> /\ next_handle = 1 /\ renames = 0
  /\ mounted = Storages \ NotMounted /\ locked = Lockable
  /\ mq = [cmd |-> "none", todo |-> {}] /\ cmds = 0
  /\ io = IoIdle /\ sendHandle = 0
  /\ disk = [p \in {<<s>> : s \in Storages} |-> "dir"]
  /\ watches = << >> /\ next_wd = 1
  /\ events = <<>> /\ ino = InoIdle
  /\ told = {} /\ unmirrored = {} /\ overwritten = {}

Host ==
  \/ OpenSession \/ CloseSession \/ RegisterWatch \/ SendResponse
  \/ RenamePath \/ RenameOnDisk \/ RenameRemove \/ RenameName \/ RenameInsert
  \/ "send" \in uses /\ SendObject
  \/ \E s \in Storages : ScanFolder(0, s)
  \/ \E i \in DOMAIN entries : entries[i].handle # 0 /\ ScanFolder(entries[i].handle, entries[i].storage)
  \/ \E i \in DOMAIN entries, n \in Names, kind \in {"file", "dir"} :
       "send" \in uses /\ SendObjectInfo(entries[i].storage, entries[i].handle, n, kind)
  \/ \E h \in 1..next_handle - 1 :
       \/ "partial" \in uses /\ SendPartialObject(h)
       \/ DeleteObject(h)
       \/ \E n \in Names : "rename" \in uses /\ RenameStart(h, n)

Inotify ==
  InotifySkip \/ InotifyCreate \/ InotifyModify \/ InotifyDelete \/ InotifyPush

MsgQueue ==
  \/ \E s \in Storages : Mount(s) \/ Unmount(s)
  \/ \E cmd \in {"lock", "unlock"} : LockCommand(cmd)
  \/ LockStep

LocalUser ==
  \E p \in DOMAIN disk :
    \/ LocalRemove(p)
    \/ "write" \in uses /\ LocalWrite(p)
    \/ \E n \in Names :
         \/ /\ IsDir(p) /\ Len(p) <= MaxDepth
            /\ \E kind \in {"file", "dir"} : LocalCreate(Append(p, n), kind)
         \/ \E q \in DOMAIN disk : "move" \in uses /\ IsDir(q) /\ LocalMove(p, Append(q, n))

\* The bounds of the instance. The inotify thread is never held up by one: it
\* only handles what the others did within theirs.
Room ==
  /\ \A p \in DOMAIN disk' : Len(p) <= MaxDepth + 1
  /\ Len(events') <= MaxEvents

Full == Len(entries) >= MaxEntries

Next ==
  /\ UNCHANGED uses
  /\ \/ /\ Host /\ Room
        /\ IF Full THEN events' = events /\ Len(entries') <= Len(entries)
                   ELSE Len(entries') <= MaxEntries
     \/ LocalUser /\ Room /\ ~Full
     \/ Inotify
     \/ MsgQueue

Spec == Init /\ [][Next]_vars

-----------------------------------------------------------------------------
(* Correctness.                                                             *)

Handles == Nat
Entry == [handle : Handles, parent : Handles, storage : Storages,
          name : Names \cup {Root, NoName}, dir : BOOLEAN, deleted : BOOLEAN,
          wd : Nat \cup {NONE}, gen : Nat]

\* The part of the type invariant that the database operations rest on.
DbTypeOK ==
  /\ session \in BOOLEAN
  /\ entries \in Seq(Entry)
  /\ next_handle \in Nat \ {0}
  /\ renames \in Nat
  /\ next_wd \in Nat \ {0}
  /\ DOMAIN watches \subseteq Nat
  /\ DOMAIN io = DOMAIN IoIdle
  /\ io.op \in {"idle", "listing", "answering"} \cup RenameOps
  /\ io.op # "idle" => io.idx \in 0..Len(entries)
  /\ io.op \notin {"idle", "listing"} => io.idx # 0
  /\ io.op \in RenameOps => io.name \in Names

\* Types of all variables: the entries are fs_entry records of the configured
\* storages, the environment's variables are well formed.
TypeOK ==
  /\ DbTypeOK
  /\ uses \in Uses
  /\ mounted \subseteq Storages /\ locked \subseteq Lockable
  /\ mq.todo \subseteq Storages /\ cmds \in 0..MaxCmds
  /\ sendHandle \in Nat \cup {NONE}
  /\ \A p \in DOMAIN disk : /\ disk[p] \in {"file", "dir"}
                            /\ Len(p) > 1 => IsDir(Front(p))
  /\ \A w \in DOMAIN watches : w < next_wd /\ watches[w] \in DOMAIN disk
  /\ \A k \in DOMAIN events : events[k].name \in Names
  /\ ino.phase \in {"idle", "loop", "push"} /\ ino.pos \in 0..Len(entries)
  /\ told \subseteq Nat /\ unmirrored \subseteq DOMAIN entries

\* alloc_entry hands a handle out once per session: two entries, deleted ones
\* included, never share one, so an old handle cannot come to name a new object.
HandlesUnique ==
  /\ \A i \in DOMAIN entries : entries[i].handle < next_handle
  /\ \A i, j \in DOMAIN entries :
       entries[i].handle = entries[j].handle /\ entries[i].handle # 0 => i = j

\* The parent of an entry is an older entry of the same storage: the climb of
\* build_full_path through get_entry_by_handle always ends.
ParentsOlder ==
  \A i \in DOMAIN entries :
    entries[i].parent # 0 =>
      \E j \in 1..(i - 1) : /\ entries[j].handle = entries[i].parent
                            /\ entries[j].storage = entries[i].storage

\* No two live entries have the same name in the same folder, whoever found
\* the object first (scan, inotify or the host), unless a host rename
\* replaced an object whose entry was still live, or was under way when the
\* inotify thread looked up one of its two names and missed or met its entry.
UniqueNames ==
  \A i, j \in LiveEntries :
    /\ entries[i].handle # 0 /\ entries[j].handle # 0
    /\ entries[i].storage = entries[j].storage
    /\ entries[i].parent = entries[j].parent
    /\ entries[i].name = entries[j].name
    /\ <<entries[i].storage, entries[i].parent, entries[i].name>> \notin overwritten
    => i = j

\* Within a session an entry is never freed or revived, and keeps its handle,
\* folder and storage (add_entry allocates, it never reuses a deleted entry).
NoResurrection ==
  [][session /\ session' =>
       /\ Len(entries) <= Len(entries')
       /\ \A i \in DOMAIN entries :
            /\ entries[i].deleted => entries'[i].deleted
            /\ entries'[i].handle = entries[i].handle
            /\ entries'[i].parent = entries[i].parent
            /\ entries'[i].storage = entries[i].storage]_vars

HandlesGiven == {entries[i].handle : i \in DOMAIN entries} \ {0}

EntryOf(h) == CHOOSE i \in DOMAIN entries : entries[i].handle = h

Promise == INSTANCE ObjectHandles WITH
  open   <- session,
  object <- [h \in HandlesGiven |-> [parent  |-> entries[EntryOf(h)].parent,
                                     storage |-> entries[EntryOf(h)].storage]],
  live   <- {entries[i].handle : i \in LiveEntries} \ {0}

\* The database, with all its threads, implements what ObjectHandles promises
\* the host: scans, inotify events, mounts, renames and removals are changes of
\* an abstract set of objects that never reuses or revives a handle.
KeepsHandles == Promise!Spec

Quiescent == session /\ events = <<>> /\ ino.phase = "idle" /\ io.op = "idle"

\* Once the inotify queue is drained, every folder whose watch is active has in
\* the database exactly the names it has on disk, whatever local users, host
\* and threads did and in whatever order; except folders whose changes were
\* invisible (between scan and watch, or while not at their path), names
\* doubled by a rename or looked up by the inotify thread in the middle of it,
\* and the nameless entries.
Mirror ==
  Quiescent =>
    \A i \in LiveEntries \ unmirrored :
      LET p == build_full_path(i)
      IN  /\ entries[i].dir /\ entries[i].wd \in DOMAIN watches
          /\ watches[entries[i].wd] = p
          => \A n \in Names :
               \/ <<entries[i].storage, entries[i].handle, n>> \in overwritten
               \/ n \in Listing(p) <=> n \in DbNames(entries[i].handle, entries[i].storage)

\* What GetObjectHandles is about to reply has exactly the names the folder had
\* when it was scanned, pending inotify events or not.
ListingExact ==
  [][io.op = "idle" /\ io'.op = "listing" =>
       DbNames(io.parent, io.storage)' = Listing(io.path)']_vars

\* The handle of the response to SendObjectInfo that is still to be written.
Answering == IF io.op = "answering" THEN {entries[io.idx].handle} ELSE {}

\* An ObjectRemoved event is about a handle the host was told of before, by a
\* listing, an ObjectAdded event or the response to SendObjectInfo, or about the
\* one object whose SendObjectInfo is not answered yet.
RemovedWasTold ==
  [][ino.phase # "push" /\ ino'.code = "ObjectRemoved" => ino'.handle \in told \cup Answering]_vars

\* No host request changes what a read-only storage holds (check_handle_access
\* and parse_incoming_dataset refuse with StoreReadOnly).
ReadOnlyUntouched ==
  [][Host => \A s \in ReadOnly :
       {p \in DOMAIN disk : p[1] = s} = {p \in DOMAIN disk' : p[1] = s}]_vars

-----------------------------------------------------------------------------
(* What the documentation says and the code does not do (see the README).   *)

\* mtp_ops_helpers.c, delete_tree: "Remove all childs in the database".
DeletedFolderHasNoChildren ==
  [][\A h \in 1..next_handle - 1 : DeleteObject(h) =>
       \A i \in DOMAIN entries :
         entries[i].handle = h /\ entries'[i].deleted =>
           KidsOf(i)' = {}]_vars

\* fs_handles_db.c, scan_and_add_folder: "Scan the DB to find and remove
\* deleted files...": no child of a scanned folder is an object that is gone.
ScanRemovesGone ==
  [][io.op = "idle" /\ io'.op = "listing" =>
       \A c \in ChildrenInDb(io.parent, io.storage)' :
         entries'[c].name \in Listing(io.path)']_vars

\* conf/umtprd.conf: unlock makes a locked store usable, lock locks it again:
\* a store that is mounted and not locked has its root folder.
UnlockedStoreHasRoot ==
  session /\ mq.todo = {} => \A s \in mounted \ locked :
                               get_entry_by_handle_and_storageid(0, s) # 0

\* mtp_op_sendobjectinfo.c takes inotify_mutex around the creation of the object:
\* the host hears of an object before it hears that the object is gone.
RemovedAfterTold ==
  [][ino.phase # "push" /\ ino'.code = "ObjectRemoved" => ino'.handle \in told]_vars

\* fs_handles_db.c, add_entry, "File already present": without a rename that was
\* done, no two live entries of a folder have the same name.
UniqueUntilRenamed ==
  renames = 0 =>
    \A i, j \in LiveEntries :
      /\ entries[i].handle # 0 /\ entries[j].handle # 0
      /\ entries[i].storage = entries[j].storage
      /\ entries[i].parent = entries[j].parent
      /\ entries[i].name = entries[j].name
      => i = j

\* README: "Files / folders changes async events": once the queue is drained a
\* listed folder is the folder on disk.
ListedFolderFollowed ==
  Quiescent =>
    \A i \in LiveEntries :
      entries[i].dir /\ entries[i].wd \in DOMAIN watches
        /\ watches[entries[i].wd] = build_full_path(i)
      => Listing(build_full_path(i)) \subseteq DbNames(entries[i].handle, entries[i].storage)

====
