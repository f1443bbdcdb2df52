----------------------------- MODULE StorageTable -----------------------------
(***************************************************************************)
(* The storage table ctx->storages[] of uMTP-Responder: the configuration  *)
(* file and the commands of the message queue write it, the MTP thread     *)
(* reads it.                                                               *)
(*                                                                         *)
(* mtp_add_storage and mtp_remove_storage write a slot field by field and  *)
(* under no mutex; the message queue thread is started before the          *)
(* configuration is read, so the table may have two writers.  Mounting and *)
(* locking are critical sections of inotify_mutex, one step each here, and *)
(* so are the alloc_root_entry of OpenSession and the scan of              *)
(* GetObjectHandles.                                                       *)
(*                                                                         *)
(* A store stands for its path and for its name.  The process runs as      *)
(* root: setfsuid and setfsgid always take effect.                         *)
(***************************************************************************)
EXTENDS Integers, FiniteSetsExt

CONSTANTS
  NbSlots,     \* MAX_STORAGE_NB
  Stores,      \* the stores there may be
  NoStore,     \* root_path is NULL
  Configured,  \* the stores of the configuration file
  Locked,      \* stores whose options have "locked"
  NotMounted,  \* stores whose options have "notmounted"
  WithUid,     \* stores whose options have "uid="
  WithGid,     \* stores whose options have "gid="
  Nobody,      \* -1: no user or group given
  Daemon,      \* user and group of the process
  Default,     \* default_uid and default_gid: Nobody, or a user
  Early,       \* do commands wait in the queue when the process starts
  Kinds,       \* bound: the commands of this instance
  MaxCmds      \* bound: commands executed

ASSUME StorageTableAssumption ==
  /\ NbSlots \in Nat \ {0} /\ NoStore \notin Stores
  /\ Configured \subseteq Stores /\ Locked \subseteq Stores /\ NotMounted \subseteq Stores
  /\ WithUid \subseteq Stores /\ WithGid \subseteq Stores
  /\ {Nobody, Daemon, Default} \cap (Stores \cup {NoStore}) = {}
  /\ Nobody # Daemon /\ Default # Daemon
  /\ Early \in BOOLEAN /\ MaxCmds \in Nat
  /\ Kinds \subseteq {"add", "rm", "mount", "quoted", "unmount", "lock", "unlock"}

Slots   == 1..NbSlots
Writers == {"main", "mq"}

VARIABLES
  slots,    \* ctx->storages
  writer,   \* main and message queue threads: within mtp_add/remove_storage
  toLoad,   \* stores of the configuration file not yet read
  sweep,    \* message queue thread: slots a lock or unlock has still to visit
  cmds,     \* commands executed
  mtp,      \* the MTP thread between two steps of one operation
  session,  \* ctx->fs_db # NULL
  roots,    \* storage ids that have a live root entry
  objects,  \* other entries: storage id, and the store they were found in
  creds,    \* fsuid and fsgid of the MTP thread
  last,     \* history: the last scan: store, fsuid and fsgid, or refused
  host,     \* history: ids the host takes for available
  knows,    \* history: a GetStorageIDs nobody disturbed, no add or remove since
  emptied   \* history: slots emptied since the session began

tableVars   == <<slots, writer, toLoad, sweep, cmds>>
sessionVars == <<mtp, session, roots, objects, creds, last>>
vars == <<tableVars, sessionVars, host, knows, emptied>>

\* memset of mtp_ctx leaves uid and gid 0; nothing reads them while root is NULL.
Empty == [root |-> NoStore, flags |-> {}, id |-> 0, uid |-> Nobody, gid |-> Nobody]

AtRest == [pc |-> "idle", store |-> NoStore, slot |-> 0]
MtpIdle == [op |-> "idle", slot |-> 0, ids |-> {}, store |-> NoStore, lost |-> FALSE]

NoScan == [store |-> NoStore, ok |-> TRUE, as |-> [uid |-> Daemon, gid |-> Daemon]]

Options(s) ==
  (IF s \in Locked THEN {"lockable", "locked"} ELSE {}) \cup
  (IF s \in NotMounted THEN {"notmounted"} ELSE {})

Used == {i \in Slots : slots[i].root # NoStore}

\* Mutant: a name is looked for up to the first empty slot.
index_by_name_UpToHole(s) ==
  LET found == {i \in Used : slots[i].root = s /\ 1..i \subseteq Used}
  IN  IF found = {} THEN 0 ELSE Min(found)

\* mtp_get_storage_index_by_name, mtp_get_storage_index_by_id; 0 for none.
index_by_name(s) ==
  LET found == {i \in Used : slots[i].root = s} IN IF found = {} THEN 0 ELSE Min(found)

index_by_id(id) ==
  LET found == {i \in Used : slots[i].id = id} IN IF found = {} THEN 0 ELSE Min(found)

\* Mutant: a full table gives its last slot away.
FirstEmpty_Last == IF Used = Slots THEN NbSlots ELSE Min(Slots \ Used)

\* Mutant: the loop goes one slot too far.
FirstEmpty_PastEnd == IF Used = Slots THEN NbSlots + 1 ELSE Min(Slots \ Used)

\* The first slot without a root; 0 for none.
FirstEmpty == IF Used = Slots THEN 0 ELSE Min(Slots \ Used)

-----------------------------------------------------------------------------
(* mtp_add_storage and mtp_remove_storage, field by field.                  *)

Loaded == toLoad = {} /\ writer["main"] = AtRest

Writes(w, next) ==
  /\ writer' = [writer EXCEPT ![w] = next]
  /\ UNCHANGED <<toLoad, sweep, cmds, sessionVars, host, emptied>>

\* mtp_get_storage_id_by_name: a name that is there is not added again.
AddGuard(w) ==
  /\ writer[w].pc = "guard"
  /\ Writes(w, IF index_by_name(writer[w].store) # 0 THEN AtRest
               ELSE [writer[w] EXCEPT !.pc = "find"])
  /\ UNCHANGED <<slots, knows>>

AddFind(w) ==
  /\ writer[w].pc = "find"
  /\ Writes(w, IF FirstEmpty = 0 THEN AtRest
               ELSE [writer[w] EXCEPT !.pc = "place", !.slot = FirstEmpty])
  /\ UNCHANGED <<slots, knows>>

\* realpath and the description; uid and gid come first where it succeeds.
AddPlace(w) ==
  LET s == writer[w].store
  IN  /\ writer[w].pc = "place"
      /\ slots' = [slots EXCEPT ![writer[w].slot] =
                     [@ EXCEPT !.root = s,
                               !.uid = IF s \in WithUid THEN s ELSE Nobody,
                               !.gid = IF s \in WithGid THEN s ELSE Nobody]]
      /\ Writes(w, [writer[w] EXCEPT !.pc = "flags"])
      /\ knows' = FALSE

\* The path does not exist: the slot is cleared.
AddFails(w) ==
  /\ writer[w].pc = "place"
  /\ slots' = [slots EXCEPT ![writer[w].slot] = Empty]
  /\ Writes(w, AtRest)
  /\ knows' = FALSE

AddFlags(w) ==
  /\ writer[w].pc = "flags"
  /\ slots' = [slots EXCEPT ![writer[w].slot].flags = Options(writer[w].store)]
  /\ Writes(w, [writer[w] EXCEPT !.pc = "id"])
  /\ knows' = FALSE

AddId(w) ==
  /\ writer[w].pc = "id"
  /\ slots' = [slots EXCEPT ![writer[w].slot].id = writer[w].slot]
  /\ Writes(w, AtRest)
  /\ knows' = FALSE

\* mtp_remove_storage: the path is freed and the slot unused at once, its
\* other fields follow. The database is left as it is.
Remove ==
  LET i == index_by_name(writer["mq"].store)
  IN  /\ writer["mq"].pc = "remove"
      /\ IF i = 0
         THEN /\ writer' = [writer EXCEPT !["mq"] = AtRest]
              /\ UNCHANGED <<slots, knows, emptied>>
         ELSE /\ slots' = [slots EXCEPT ![i].root = NoStore]
              /\ writer' = [writer EXCEPT !["mq"].pc = "clear", !["mq"].slot = i]
              /\ emptied' = emptied \cup {i}
              /\ knows' = FALSE
      /\ mtp' = [mtp EXCEPT !.lost = @ \/ (mtp.op = "scan" /\ mtp.slot = i)]
      /\ UNCHANGED <<toLoad, sweep, cmds, session, roots, objects, creds, last, host>>

RemoveClear ==
  /\ writer["mq"].pc = "clear"
  /\ slots' = [slots EXCEPT ![writer["mq"].slot] = 
                   [Empty EXCEPT !.root = slots[writer["mq"].slot].root]]
  /\ Writes("mq", AtRest)
  /\ knows' = FALSE

-----------------------------------------------------------------------------
(* The main thread reads the configuration; then the gadget is started.     *)

LoadStore(s) ==
  /\ s \in toLoad /\ writer["main"] = AtRest
  /\ toLoad' = toLoad \ {s}
  /\ writer' = [writer EXCEPT !["main"] = [pc |-> "guard", store |-> s, slot |-> 0]]
  /\ UNCHANGED <<slots, sweep, cmds, sessionVars, host, knows, emptied>>

-----------------------------------------------------------------------------
(* The message queue thread.                                                *)

NewCommand(kind) ==
  /\ kind \in Kinds
  /\ Early \/ Loaded
  /\ writer["mq"] = AtRest /\ sweep.todo = {}
  /\ cmds < MaxCmds /\ cmds' = cmds + 1
  /\ UNCHANGED <<toLoad, mtp, session, creds, last, emptied>>

AddCommand(s) ==
  /\ NewCommand("add")
  /\ writer' = [writer EXCEPT !["mq"] = [pc |-> "guard", store |-> s, slot |-> 0]]
  /\ UNCHANGED <<slots, sweep, roots, objects, host, knows>>

RmCommand(s) ==
  /\ NewCommand("rm")
  /\ writer' = [writer EXCEPT !["mq"] = [pc |-> "remove", store |-> s, slot |-> 0]]
  /\ UNCHANGED <<slots, sweep, roots, objects, host, knows>>

\* mount_store and umount_store take inotify_mutex, which the scan holds.
MutexFree == mtp.op # "scan"

\* A StoreAdded or StoreRemoved event leaves the host with ids. An answer to
\* GetStorageIDs that is being built does not know of it.
Announces(ids) ==
  /\ host' = IF session THEN ids ELSE host
  /\ knows' = (knows /\ mtp.op \notin {"ids", "reply"})

\* A root entry is added only where UMTP_STORAGE_NOTMOUNTED is set.
mount_store(i, cleared) ==
  /\ MutexFree
  /\ slots' = [slots EXCEPT ![i].flags = @ \ cleared]
  /\ roots' = IF session /\ "notmounted" \in slots[i].flags
              THEN roots \cup {slots[i].id} ELSE roots
  /\ UNCHANGED objects
  /\ Announces(host \cup {slots[i].id})

\* Mutant: without update_flag.
umount_store_NoFlag(i, set) ==
  /\ MutexFree
  /\ roots' = roots \ {slots[i].id}
  /\ objects' = {o \in objects : o.id # slots[i].id}
  /\ Announces(host \ {slots[i].id})
  /\ UNCHANGED slots

\* The objects of a store go with its root entry.
umount_store(i, set) ==
  /\ MutexFree
  /\ slots' = [slots EXCEPT ![i].flags = @ \cup set]
  /\ roots' = roots \ {slots[i].id}
  /\ objects' = {o \in objects : o.id # slots[i].id}
  /\ Announces(host \ {slots[i].id})

NothingHappens == UNCHANGED <<slots, roots, objects, host, knows>>

\* The name is compared as it came: one within quotes is found nowhere.
Mount(form, s) ==
  LET i == IF form = "quoted" THEN 0 ELSE index_by_name(s)
  IN  /\ form \in {"mount", "quoted"} /\ NewCommand(form)
      /\ IF i = 0 THEN NothingHappens ELSE mount_store(i, {"notmounted"})
      /\ UNCHANGED <<writer, sweep>>

Unmount(s) ==
  LET i == index_by_name(s)
  IN  /\ NewCommand("unmount")
      /\ IF i = 0 THEN NothingHappens ELSE umount_store(i, {"notmounted"})
      /\ UNCHANGED <<writer, sweep>>

LockCommand(cmd) ==
  /\ cmd \in {"lock", "unlock"} /\ NewCommand(cmd)
  /\ sweep' = [cmd |-> cmd, todo |-> Slots]
  /\ UNCHANGED <<slots, writer, roots, objects, host, knows>>

\* "lock" and "unlock" visit every slot, each in a critical section of its own.
LockStep ==
  LET i == Min(sweep.todo)
      lockable == i \in Used /\ "lockable" \in slots[i].flags
      locked == "locked" \in slots[i].flags
  IN  /\ sweep.todo # {}
      /\ sweep' = [sweep EXCEPT !.todo = @ \ {i}]
      /\ CASE sweep.cmd = "lock" /\ lockable /\ ~locked -> umount_store(i, {"locked"})
           [] sweep.cmd = "unlock" /\ lockable /\ locked -> mount_store(i, {"locked"})
           [] OTHER -> NothingHappens
      /\ UNCHANGED <<toLoad, writer, cmds, mtp, session, creds, last, emptied>>

-----------------------------------------------------------------------------
(* The MTP thread.                                                          *)

Mtp == UNCHANGED tableVars
MtpStarts == mtp = MtpIdle /\ Loaded

\* The walks of OpenSession and GetStorageIDs end at the first empty slot.
WalkOver == mtp.slot > NbSlots \/ (mtp.slot <= NbSlots /\ mtp.slot \notin Used)

OpenSession ==
  /\ Mtp /\ MtpStarts /\ ~session
  /\ session' = TRUE
  /\ mtp' = [mtp EXCEPT !.op = "open", !.slot = 1]
  /\ host' = {} /\ knows' = FALSE /\ emptied' = {}
  /\ UNCHANGED <<roots, objects, creds, last>>

OpenRoot ==
  /\ Mtp /\ mtp.op = "open"
  /\ IF WalkOver
     THEN mtp' = MtpIdle /\ roots' = roots
     ELSE /\ mtp' = [mtp EXCEPT !.slot = @ + 1]
          /\ roots' = roots \cup {slots[mtp.slot].id}
  /\ UNCHANGED <<session, objects, creds, last, host, knows, emptied>>

CloseSession ==
  /\ Mtp /\ MtpStarts /\ session
  /\ session' = FALSE
  /\ roots' = {} /\ objects' = {}
  /\ host' = {} /\ knows' = FALSE
  /\ UNCHANGED <<mtp, creds, last, emptied>>

GetStorageIDs ==
  /\ Mtp /\ MtpStarts /\ session
  /\ mtp' = [mtp EXCEPT !.op = "ids", !.slot = 1]
  /\ knows' = TRUE
  /\ UNCHANGED <<session, roots, objects, creds, last, host, emptied>>

GetStorageIDsSlot ==
  /\ Mtp /\ mtp.op = "ids"
  /\ mtp' = IF WalkOver THEN [mtp EXCEPT !.op = "reply"]
            ELSE [mtp EXCEPT !.slot = @ + 1,
                             !.ids = IF {"notmounted", "locked"} \cap slots[mtp.slot].flags = {}
                                     THEN @ \cup {slots[mtp.slot].id} ELSE @]
  /\ UNCHANGED <<session, roots, objects, creds, last, host, knows, emptied>>

GetStorageIDsReply ==
  /\ Mtp /\ mtp.op = "reply"
  /\ host' = mtp.ids
  /\ mtp' = MtpIdle
  /\ UNCHANGED <<session, roots, objects, creds, last, knows, emptied>>

\* GetObjectHandles of a root folder: the path is taken, and then used.
GetObjectHandles(id) ==
  LET i == index_by_id(id)
  IN  /\ Mtp /\ MtpStarts /\ session
      /\ i # 0
      /\ mtp' = [mtp EXCEPT !.op = "scan", !.slot = i, !.ids = {id}, !.store = slots[i].root]
      /\ UNCHANGED <<session, roots, objects, creds, last, host, knows, emptied>>

\* setfsuid and setfsgid answer with the former id, which is 0 for the daemon's
\* own: set_giduid fails wherever another was left behind.
set_giduid(c, uid, gid) ==
  [ok  |-> (uid = Nobody \/ c.uid = Daemon) /\ (gid = Nobody \/ c.gid = Daemon),
   now |-> [uid |-> IF uid = Nobody THEN c.uid ELSE uid,
            gid |-> IF gid = Nobody THEN c.gid ELSE gid]]

\* Mutant: nothing is restored.
restore_giduid_Nothing(c) == c

restore_giduid(c) == set_giduid(c, Daemon, Daemon).now

\* A gid option selects the group whose number is the uid.
set_storage_giduid(id) ==
  LET i == index_by_id(id)
  IN  IF i = 0 THEN [ok |-> FALSE, now |-> creds]
      ELSE set_giduid(creds, IF slots[i].uid # Nobody THEN slots[i].uid ELSE Default,
                             IF slots[i].gid # Nobody THEN slots[i].uid ELSE Default)

\* The scan: where the path was freed meanwhile, it reads any directory or none.
ScanFolder ==
  LET id  == CHOOSE k \in mtp.ids : TRUE
      set == set_storage_giduid(id)
  IN  /\ Mtp /\ mtp.op = "scan"
      /\ IF set.ok
         THEN \E s \in IF mtp.lost THEN Stores ELSE {mtp.store} :
                objects' = objects \cup {[id |-> id, of |-> s]}
         ELSE UNCHANGED objects
      /\ last' = IF mtp.lost THEN NoScan
                 ELSE [store |-> mtp.store, ok |-> set.ok, as |-> set.now]
      /\ creds' = restore_giduid(set.now)
      /\ mtp' = MtpIdle
      /\ UNCHANGED <<session, roots, host, knows, emptied>>

-----------------------------------------------------------------------------
Init ==
  /\ slots = [i \in Slots |-> Empty]
  /\ writer = [w \in Writers |-> AtRest]
  /\ toLoad = Configured
  /\ sweep = [cmd |-> "lock", todo |-> {}] /\ cmds = 0
  /\ mtp = MtpIdle /\ session = FALSE /\ roots = {} /\ objects = {}
  /\ creds = [uid |-> Daemon, gid |-> Daemon] /\ last = NoScan
  /\ host = {} /\ knows = FALSE /\ emptied = {}

Writing ==
  \/ \E w \in Writers : \/ AddGuard(w) \/ AddFind(w) \/ AddPlace(w) \/ AddFails(w)
                        \/ AddFlags(w) \/ AddId(w)
  \/ Remove \/ RemoveClear

MsgQueue ==
  \/ \E s \in Stores : \/ AddCommand(s) \/ RmCommand(s) \/ Unmount(s)
                       \/ \E form \in {"mount", "quoted"} : Mount(form, s)
  \/ \E cmd \in {"lock", "unlock"} : LockCommand(cmd)
  \/ LockStep

MtpThread ==
  \/ OpenSession \/ OpenRoot \/ CloseSession
  \/ GetStorageIDs \/ GetStorageIDsSlot \/ GetStorageIDsReply
  \/ \E id \in Slots : GetObjectHandles(id)
  \/ ScanFolder

Next == (\E s \in Stores : LoadStore(s)) \/ Writing \/ MsgQueue \/ MtpThread

Spec == Init /\ [][Next]_vars

-----------------------------------------------------------------------------
(* Correctness.                                                             *)

\* Types of all variables; an operation that is not under way has left nothing.
TypeOK ==
  /\ \A i \in Slots : /\ slots[i].root \in Stores \cup {NoStore}
                      /\ slots[i].flags \subseteq {"lockable", "locked", "notmounted"}
                      /\ slots[i].id \in {0, i}
                      /\ {slots[i].uid, slots[i].gid} \subseteq Stores \cup {Nobody}
  /\ \A w \in Writers : /\ writer[w].store \in Stores \cup {NoStore}
                        /\ writer[w].slot \in Slots \cup {0}
                        /\ writer[w].pc \in {"place", "flags", "id", "clear"} => writer[w].slot # 0
  /\ writer["main"].pc \notin {"remove", "clear"}
  /\ toLoad \subseteq Stores /\ sweep.todo \subseteq Slots /\ cmds \in 0..MaxCmds
  /\ mtp.op \in {"idle", "open", "ids", "reply", "scan"} /\ (mtp.op = "idle" => mtp = MtpIdle)
  /\ roots \subseteq Slots \cup {0} /\ host \subseteq Slots \cup {0} /\ emptied \subseteq Slots
  /\ objects \subseteq [id : Slots, of : Stores]
  /\ ~session => roots = {} /\ objects = {}

Whole(i) ==
  LET s == slots[i].root
  IN  /\ slots[i].id = i
      /\ slots[i].uid = (IF s \in WithUid THEN s ELSE Nobody)
      /\ slots[i].gid = (IF s \in WithGid THEN s ELSE Nobody)
      /\ ("lockable" \in slots[i].flags) = (s \in Locked)
      /\ "locked" \in slots[i].flags => s \in Locked

\* While nobody is adding or removing a store, a slot is empty to its last field
\* or all of one store, and no store has two slots, whatever was added, failed,
\* was removed and added again, and however the table was left full of holes.
TableWhole ==
  (\A w \in Writers : writer[w].pc \notin {"place", "flags", "id", "clear"}) =>
    /\ \A i \in Slots : IF i \in Used THEN Whole(i) ELSE slots[i] = Empty
    /\ \A i, j \in Used : slots[i].root = slots[j].root => i = j

Available == {slots[i].id : i \in {k \in Used : {"notmounted", "locked"} \cap slots[k].flags = {}}}

Contiguous == \A i \in Used : 1..i \subseteq Used

\* A host that asked for the storages once is kept right by the events of mount,
\* unmount, lock and unlock, as far as they do not cross its answer: it takes
\* every store for available that is, and no other but a lockable one.
HostViewExact ==
  session /\ knows /\ mtp = MtpIdle /\ Contiguous =>
    /\ Available \subseteq host
    /\ host \subseteq Available \cup {i \in Slots : "lockable" \in slots[i].flags}

\* An object found in one store is never looked for in another, though storage
\* ids are handed out again, unless rmstorage emptied its slot in this session.
ServedFromOwn ==
  \A o \in objects : index_by_id(o.id) # 0 =>
    slots[index_by_id(o.id)].root = o.of \/ o.id \in emptied

\* A folder is read as the user of its own store, and never refused because an
\* earlier operation left other credentials behind: setfsuid only succeeds, as
\* set_giduid sees it, from the daemon's own.
RunsAsOwner ==
  /\ last.ok
  /\ last.store # NoStore =>
       last.as.uid = IF last.store \in WithUid THEN last.store
                     ELSE IF Default # Nobody THEN Default ELSE Daemon

-----------------------------------------------------------------------------
(* What the documentation says and the code does not do (see the README).   *)

\* README.md: "dynamic commands to add/mount/umount/remove storage": the host
\* that asks for the storages gets those that are available.
StoresListed ==
  session /\ knows /\ mtp = MtpIdle => Available \subseteq host

\* Release-notes.txt: "Add guard to avoid storage from being added twice."
AddedOnce == \A i, j \in Used : slots[i].root = slots[j].root => i = j

\* README.md: umtprd '-cmd:mount:"Storage name"' mounts the store of that name.
MountsNamedStore ==
  [][\A s \in Stores : Mount("quoted", s) /\ index_by_name(s) # 0 =>
       "notmounted" \notin slots'[index_by_name(s)].flags]_vars

\* Release-notes.txt: "Global and per storage UID/GID can be specified".
StorageGid ==
  last.store \in WithGid /\ last.ok => last.as.gid = last.store

\* conf/umtprd.conf: "notmounted" = not mounted by default: the host is not told
\* that a store is there which is not mounted.
AnnouncedIsAvailable ==
  session /\ knows /\ mtp = MtpIdle => host \subseteq Available

===============================================================================
