# A TLA+ model of uMTP-Responder

uMTP-Responder is a daemon that exports directories of a Linux device over USB with the Media
Transfer Protocol. This directory holds TLA+ modules that model its parts, the TLC configurations
that check them on small instances, and proofs that TLAPS checks for every value of the constants.
Paths below are relative to the repository.

## 1. The system

### Components, their state and their operations

| component | state | operations | what makes it correct |
|---|---|---|---|
| start and single instance (`src/umtprd.c`) | the queue as a lock, `shutdown_requested` | `check_running`, `-cmd:`, `main_thread`, SIGTERM | one daemon; it ends when told to, and only then |
| message queue thread (`src/msgqueue.c`) | the queue, the command in hand | addstorage, rmstorage, mount, unmount, lock, unlock | accepted commands are executed; database, table and host agree on what is available |
| USB control endpoint and io thread (`src/usb_gadget.c`, `src/umtprd.c`) | `stop`, `thread_not_started`, `cancel_req`, `transferring_file_data`, two mutexes | ENABLE, DISABLE, SUSPEND, DISCONNECT, SETUP (cancel, status, configuration), the request loop | cancels hit the transfer they are for; disconnections end and leave nothing behind |
| USB gadget and descriptors (`src/usb_gadget.c`, `src/fs_handles_db.c`) | `usb_device`, `ep_handles`, `file_descriptor` of the entries | `init_usb_mtp_gadget`, `init_eps`, `deinit_usb_mtp_gadget`, `entry_open`, `entry_close`, `deinit_fs_db` | a number stands for what its holder thinks it does |
| object handle database (`src/fs_handles_db.c`, `src/hash_utils.c`) | the entries (handle, parent, storage, name, flags, size, watch), the list, the hash table over names, `next_handle`, a search cursor | `alloc_entry`, `alloc_root_entry`, `add_entry`, `scan_and_add_folder`, look-ups, `build_full_path` | a handle names one object for the whole session; one live entry for an object; the paths that entries stand for exist where the disk has them |
| MTP operations on objects (`src/mtp_operations/`, `mtp.c`, `mtp_properties.c`) | session, `SendObjInfoHandle`, `SetObjectPropValue_Handle` | OpenSession, CloseSession, GetObjectHandles, SendObjectInfo, DeleteObject, rename, all the questions about objects | listings are exact; what the host may not change stays; the database follows the disk; answers agree with each other |
| MTP operations on content (`mtp_op_getobject.c`, `mtp_op_sendobject.c`, ...) | file descriptor and size of the entry, read cache, USB buffers | GetObject, GetPartialObject, SendObject, SendPartialObject, TruncateObject, EndEditObject | the right bytes, once, with an end the host can see, and an answer that says so |
| inotify thread (`src/inotify.c`) | kernel watches, the event being handled | IN_CREATE, IN_DELETE, IN_MODIFY, moves | the database and the host learn of every change in a watched folder |
| storage table (`mtp.c`, `mtp_cfg.c`, `mtp_helpers.c`) | `storages[]` | add, remove, look-ups, credentials of a storage | unique whole entries; the right directory as the right user |
| names (`src/mtp_sanitize.c`, `src/usbstring.c`) | none | UTF-16 to UTF-8 and back, `sanitize_name` | a name is one path component, and comes back as it was sent |
| properties and datasets (`src/mtp_properties.c`, `src/mtp_datasets.c`) | tables | descriptions, lists and values of properties | the same property is the same everywhere |
| configuration (`src/mtp_cfg.c`), logs, scripts | constants | | |

### How they interact

Four threads run in a daemon: the main thread (control endpoint), `io_thread` (called the MTP
thread below: it reads a request, runs it, answers), the inotify thread and the message queue
thread. They share the context `mtp_ctx`. `inotify_mutex` is held by most operations of the MTP
thread, by each section of the inotify thread and by mount and lock commands; `cancel_mutex` by the
end of a reading transfer and by the control events that cancel one. The control endpoint wakes the
io thread with `SIGUSR1`. Nothing excludes local users of the exported directories, and nothing
protects `storages[]`, `stop` or `transferring_file_data`. Several processes meet in the message
queue: starts of the daemon, which lock it, and commands.

What is hard: database entries that describe files which others change; inotify events handled
later than they happened; sections that let the mutex go and keep what they read under it; flags
and signals between threads; threads cancelled with a mutex or with open files; a queue that
outlives its daemon; descriptor numbers that are used again; files cut into cache pages, USB writes
and packets; a storage table written field by field. `PROJECT.json` lists these hazards one by one,
with their lines and the properties that are about them.

## 2. The modules

| module | models | state ↔ code |
|---|---|---|
| `ObjectHandles` | what a host may rely on about handles: the abstract specification of the database | `object`: what a handle was given for; `live`: those not removed |
| `ObjectDb` | the database, the operations on objects, the inotify thread, mount/unmount/lock/unlock, local users, the disk and the kernel's watches | `entries` is `entry_list` in allocation order (the list is read from its end), `gen` of an entry stands for its place in the hash table; `io`, `ino`, `mq` are the threads between two steps; one action is one section of `inotify_mutex`, or one step of what is done without it |
| `Queries`, `ObjectNames` | names, sizes and every operation that only asks; SendObjectInfo and the rename once more, for what they do to names | `entry` by handle; `disk` by name in bytes; a dataset is its sequence of fields (property, type, value); `ObjectNames` has the conversions on bytes and units |
| `FileData` | the data phase of one object: `send_file_data`, SendObject, SendPartialObject, truncation | `file` is the disk, `size` is `entry->size`, `cache` and `page` are `read_file_buffer` and `buf_index`, `wire` the bytes the host has and `writes` the lengths of the USB writes |
| `Descriptors` | descriptor numbers: the gadget's and the entries' over any number of connections | `file` is the kernel's table; `main` has `usb_device` and `ep_handles`; `db` is `entry_list` in allocation order with each `file_descriptor` |
| `Gadget` | the control endpoint handler for FunctionFS and GadgetFS, against the io thread | program counters `ep0` and `io`; the flags and mutexes of the same names; `wake` is why a system call ends early, `condemned` a pending `pthread_cancel` |
| `StorageTable` | `storages[]`, its writers (configuration, message queue) and its readers (MTP thread), `set_storage_giduid` | `slots`; `writer` is where each writer is within `mtp_add_storage` or `mtp_remove_storage`; `mtp` the walk of OpenSession or GetStorageIDs |
| `Daemon` | processes: starts, commands, crashes, SIGTERM; main thread, command thread and queue | `name`, `msgs`: the kernel's queues, one of which has `MQ_PATH`; `proc`: where each process is, the descriptors `chk` (locked) and `qid` it has of queues, where its command thread is |
| `MCObjectDb`, `MCQueries`, `MCFileData`, `MCDescriptors`, `MCDaemon` | instances for TLC | |
| `ObjectDbProofs`, `StorageTableProofs`, `DescriptorsProofs`, `FileDataProofs`, `QueriesProofs`, `DaemonProofs` | theorems about the module of that name | |
| `ObjectMirrorProofs` | the proof that the database follows the disk (`Mirror` of `ObjectDb`) | |
| `GadgetProofs` | theorems about `Gadget`: for both drivers, and for FunctionFS | |

The modules meet at named points rather than in one product. `Gadget` takes a request as "open",
"close", "get", "send" or "list" and `ObjectDb` and `FileData` say what these do; `ObjectDb` has a
fixed storage table and `StorageTable` has only root folders; `Daemon` takes a session as one state
of the main thread, which `Gadget` refines, and a command as one step, which `ObjectDb` and
`StorageTable` have whole. Two facts carry over: that the MTP thread runs one request at a time, and
that a mutex section is not interleaved with another.

Operators named `X_Something` and commented as mutants are plausible mistakes in the code: they are
used by no specification, and each property of a passing run fails when one of them replaces `X`.

### ObjectDb and ObjectHandles

Every action is a critical section or a step outside the mutex: `ScanFolder` and `RegisterWatch` are
the two halves of GetObjectHandles (the scan and the watch; only local users come in between).
`InotifyTurn` handles one event; IN_CREATE visits one entry with the event's watch after another and
lets the mutex go in between. `SendObjectInfo` creates the object and unlocks the mutex;
`SendResponse`, a later step, tells the host its handle (`io.op` is "answering" until then).

The rename takes no mutex, and the other threads may come between any two of its steps; `io.op` is
where it is: `RenameStart` builds the first path and writes the new name over the old one ("naming"),
`RenamePath` builds the second path and restores the name ("moving"), `RenameOnDisk` is rename(2)
("renaming", or back to "idle" when it fails), `RenameRemove` takes the entry out of the hash tables
("removed"), `RenameName` gives it the new name ("named"), `RenameInsert` puts it back. What the
inotify thread sees of it is `NameNow` (the name the entry has at that moment), `Hashed` (the entries
that are in the tables), and from these `FoundByInotify` (`find_entry`; an entry stays in the hash
node of its old name until `remove_entry`, `hash_function_name` says which names share a node) and
`PathForInotify` (`build_full_path`). The message queue thread looks for no name and no path.

A behaviour has one of the sets of operations in `Uses` (`uses`, chosen at first) besides those every
behaviour has: transfers, writes, local moves and renames together are too many for TLC, not for the
theorems.

The host's inputs are handles that were given out, names that pass the sanitiser, folders of the
right storage. OpenSession is one step (no entry exists that another thread could see). Failures of
`fs_remove_tree` for lack of permission and the depth limit of 64 are left out, as is the memory of
the entries: a session does not end while the inotify thread holds one.

History variables: `told` (handles the host heard of: from a listing, an ObjectAdded event or the
response to SendObjectInfo), `unmirrored` (folders whose changes were invisible: between scan and
watch, or moved away; folders whose watch is elsewhere since a rename of theirs or above them; folders
for which the inotify thread handled an event with a path that is not the watch's) and `overwritten`
(names a host rename doubled, the names such an entry is renamed to later, and the names for which a
rename half done made a difference to a look-up of the inotify thread, `NotesCrossed`).

`KeepsHandles` is the specification of `ObjectHandles` with `open` mapped to the session, `object`
to parent and storage of every entry by its handle, `live` to the entries without
`ENTRY_IS_DELETED`. A step of `ObjectDb` is a session's begin or end, a change (any number of new
objects, each in a storage's root or in an older object of its storage; removals; never a revival or
a move), or a stutter.

### Queries and ObjectNames

A name that is sent is a sequence of UTF-16 units (`Unit`), a name on disk one of bytes; `conf` gives
both kinds and the sizes of files. The model follows the code where it is peculiar: `build_full_path`
takes a missing name for its clean form; the last row of a property table, which ends it, can be
asked for; GetObjectInfo, GetObjectPropList and GetObjectPropsSupported answer OK with an empty
dataset for what is not there; SPECIFICATION_BY_FORMAT is kept and not looked at; GetObjectPropValue
refreshes nothing and tells the size of the last refresh, one constant date, and another unique id
than the list. Reply buffers are large enough for any dataset of one object.

The run looks at states up to `ButReply`, all variables but the last reply: no step and no property
reads `reply`, so that states that differ in it alone have the same future.

### Descriptors

`AddEntry` is `alloc_entry` for whatever reason, with its `file_descriptor` cleared to 0. A transfer
is a request read, a file opened, and an end; `deinit_usb_mtp_gadget` closes one descriptor after
another while the thread goes on. The handler may leave its loop at any time (the thread stopped, an
event could not be read, SIGTERM). What happens when the number of the control endpoint is another
file's, whose bytes would then be read as events, is not followed: the daemon is stuck there until
it is stopped.

### Gadget

The io thread's position is the system call or lock it is about to make, so that a signal hits it
in a call or is lost. The loss of the link ends the call that is under way. A call made after it fails
over GadgetFS, where the endpoint is gone; over FunctionFS it waits on the disabled endpoint for the
next ENABLE (`Fails`). The command phase of SendObject touches no shared flag and is merged with the
data phase. Control events are delivered in order and not coalesced. SUSPEND's wait of at most 250
turns ends where the io thread is blocked elsewhere.

### FileData

One object; a byte is its position, so that a byte in the wrong place shows. Sizes pass through an
int where the code keeps them in one (`AsInt`): the length of GetPartialObject may be any 32-bit
number, and from 2^31 on `send_file_data` runs its loop once with a negative length (`Overrun`). The
memcpy in that turn is undefined: it comes to nothing the model sees, or the process dies and starts
again (`OverrunKills`); what it may overwrite is not followed. Offsets are below 2^63. The first data
of SendObject comes with the header or after it (`FirstData`). A disk that is full stays full for the
operation. Link loss is `Gadget`'s subject.

### StorageTable

A store stands for its path and its name, which are set in one step. `host` is what the host
believes from StoreAdded, StoreRemoved and the answers to GetStorageIDs; `knows` says that an answer
came which no change crossed. A path freed by rmstorage during a scan lets the scan read any
directory (`mtp.lost`). The process runs as root.

### Daemon

`Invoke` is a user who runs `umtprd`, with commands or without; `Check` and `Flock` are
`check_running`; a process keeps the descriptor it locked. A queue is one of `Queues`, and
`Kept` empties those without a name and without a descriptor. The command thread is `new` until it
has its signal handler: a `SIGUSR1` before that kills the process, unless the inotify thread has set
the handler, which is the process's; one that comes when the thread is not blocked is lost. `Crash`
ends a process at any point. Failures to open the queue or to start the thread are left out.

## 3. What is checked

Every passing run explores all reachable states of its instance.

| run | properties | instance | shows |
|---|---|---|---|
| `ObjectDb_flat` | `TypeOK`, `UniqueNames`, `Mirror`, `RemovedWasTold` | one store, two names in one node of the hash table, one level, 3 entries, 2 pending events; either one host rename, or local moves, local writes and host transfers | when the events are drained a watched folder and its entries agree, whatever interleaving led there, and whichever steps of a rename the events met |
| `ObjectDb_tree` | `KeepsHandles`, `ListingExact`, `ReadOnlyUntouched` | a lockable and a read-only, not mounted store, one name, two levels, 4 entries, one pending event, one command | the database implements `ObjectHandles`; exact listings; commands against sessions |
| `Queries_names` | `TypeOK`, `SizeHolds`, `NameAsSent`, `ResentSame`, `AnswersAgree` | names of up to two units of eight kinds and longer ones, `MaxBytes = 6`, `MaxUnits = 4`, two objects, a host's `b?` against a local `b*` | names survive the way there and back; sizes hold; answers agree |
| `FileData_phases` | `TypeOK`, `SentIsFile`, `EndSeenOnce`, `OkIsComplete`, `StoredIsGiven` | files of 0..9 bytes read with one local change, of 0..14 bytes read whole and of 0..4 bytes written; lengths 0..11; header 1, USB buffer and page 4, reads of 2, packet 2, 12 for 2^32 | the bytes sent and stored |
| `Descriptors_rounds` | `TypeOK`, `TransferOnOwnFile`, `NoLeak`, `EndpointsOwn` | 6 numbers, 2 objects, any number of rounds; hosts that copy or edit, FunctionFS or GadgetFS, one kind of failure at a time | numbers stand for what their holders think |
| `Gadget_get` | `TypeOK`, `NoStaleCancel`, `CancelSparesRead` | FunctionFS, transfers of up to 2 writes, 2 pending events; cancels, status polls | cancels of reading transfers |
| `Gadget_ffs` | `CleanAfterDisable`, `Serving`, `LockHolderAlive`, `DisableCompletes` | the same with the loss of the link at any point and its return at once | disconnection and reconnection; DISABLE is held up by nothing but a host that stays away or silent |
| `Gadget_suspend` | `SuspendEndsTransfer` | GadgetFS with suspend, disconnection, configuration 0, failing disk | suspend ends a transfer |
| `StorageTable_table` | `TypeOK`, `TableWhole`, `HostViewExact`, `ServedFromOwn`, `RunsAsOwner` | 2 slots, 3 stores, one lockable, one not mounted, two with a user, 3 commands of any kind | the table is whole, stores keep to themselves, what the host believes is right |
| `Daemon_life` | `TypeOK`, `SingleDaemon`, `CommandsSurvive`, `CommandsServed`, `SendersEnd`, `StopsCleanly` | 2 processes, one that becomes the daemon and one that sends two commands, or both may do both with one command; a queue of one message, left over or not; crashes, SIGTERM | one daemon; commands are not lost; nobody blocks for ever |

Why the bounds are enough. Two names on one level with three entries (root included) make same names
in the same folder and an old and a new entry of a name; two events make a reordering. One rename
has its six steps in every order with two events; with both names in one hash node
(`OneNode`) the inotify thread can meet the entry under its temporary name. One name on
two levels with four entries makes a folder, its child and the root entries of both stores. One
watch descriptor of a limited number also makes the kernel refuse one. Two USB writes make a first,
a last and a signal lost between two. Files up to two pages and a byte, with a header that shifts
every block, meet each boundary of page, buffer and packet; those up to 14 bytes pass the word size
12 and its half, from which on an int is negative.
Two slots and three stores make a full table, a hole and a reused slot. Names of two units from
eight kinds (letter, dot, space, a forbidden character, units of two and of three bytes, both
surrogates) make every pair the conversions and the sanitiser look at; the longer ones cross the two
buffers. Six numbers are one more than a connected gadget takes, so that descriptors run out, and a
leak shows as a daemon that cannot start again. A queue of one message is full after one command;
two processes and one command make every order of start, lock, send, crash and restart of two. Full
databases are not cut off silently: at `MaxEntries` the host and the local users stop adding, and the
inotify thread still handles what is pending.

Fairness. `Gadget!FairSpec` assumes that both threads run (weak fairness of their own steps) and that
a thread that waits for a mutex gets it if it becomes free again and again (strong fairness of the
lock steps, what a futex gives in practice). Nothing is assumed of the host: it may stop taking data
or sending requests for ever. `DisableCompletes` says what that leaves: DISABLE is handled to its
end, or the io thread stays for ever in one call that it made after the link was lost
(`DisableNeedsNoHost`, which leaves the second case out, fails, see below). `FastReconnect = TRUE`
lets the link come up again before its loss was handled. `Daemon!Spec` assumes weak fairness of each thread of each
process; nobody has to start a process, send a signal, plug or unplug a cable.

Deadlock is checked in `ObjectDb_flat`, `ObjectDb_tree`, `FileData_phases`, `StorageTable_table`,
`Gadget_get` and `Gadget_ffs`. Elsewhere the system may stop: the GadgetFS handler really can
deadlock (`Gadget_disconnect`), processes end, a host without files asks nothing.

### Where the code does not do what it says

Two of these are runs that TLC finds violated; `PROJECT.json` quotes the sentence.

| run | property | what happens |
|---|---|---|
| `ObjectDb_delete` | `DeletedFolderHasNoChildren` | the recursion of `delete_db_tree` moves the search cursor of its caller; siblings after a subfolder stay alive |
| `Gadget_disconnect` | `DisconnectCompletes` | GadgetFS: a thread cancelled in a transfer keeps `inotify_mutex` |

The others have their property in the module, and the instance given here, as changes to the
configuration named, violates it. They have no configuration of their own.

| property | instance | what happens |
|---|---|---|
| `ScanRemovesGone` | `ObjectDb_flat` with `Names = {a}`, `MaxWd = 2`, `Uses = {{}}` | an IN_CREATE handled after its object is gone makes an entry with the empty name `stat64` left (`fs_handles_db.c:453`); its path is its folder's, so that no scan removes it |
| `ListedFolderFollowed` | the same | an object created between the scan of a folder and its watch is never announced (`mtp_op_getobjecthandles.c:138`) |
| `RemovedAfterTold` | `ObjectDb_flat` | SendObjectInfo lets the mutex go (`mtp_op_sendobjectinfo.c:74`) before its response is written (`mtp.c:648`); the object is removed locally in between, and ObjectRemoved is pushed for a handle the host was not told of |
| `UniqueUntilRenamed` | `ObjectDb_flat` | IN_CREATE of `a` is pending, a rename of `a` to `b` has its new name in the entry (`mtp_properties.c:585`): `find_entry` misses `a`, a second live `a` is added, and then the rename may fail; in the same window a removal is missed |
| `UnlockedStoreHasRoot` | `ObjectDb_delete` with `Names = {a}`, `Lockable = {1}`, `MaxEntries = 2`, `MaxWd = 1`, `MaxDepth = 1`, `MaxCmds = 3`, `Uses = {{}}` | lock deletes the root entry, and unlock only allocates one where the store was not mounted |
| `CancelSparesRead` | `Gadget_get` with `Requests = {"open", "send"}`, `Controls = {"up", "cancel"}`, `Faults = {}` | a cancel that crosses the end of SendObject ends the io thread |
| `NoStaleCancel` | `Gadget_ffs` | a DISABLE that crosses the end of a transfer leaves `cancel_req` at 2 (`usb_gadget.c:837`) until the next transfer clears it |
| `CancelHandled` | `Gadget_get` with `FairSpec`, `Requests = {"open", "get"}`, `Controls = {"up", "cancel"}`, `Faults = {}` | a cancel's signal that comes just before the write is lost, and the write waits for a host that reads no more (`usb_gadget.c:515`) |
| `DisableNeedsNoHost` | `Gadget_ffs` with `Requests = {"open"}`, `Controls = {"up", "down"}`, `Faults = {}` | the io thread finds the link up (`umtprd.c:72`), the link is lost, it reads (`usb_gadget.c:85`) and waits for the next ENABLE; DISABLE sends its one signal only within a transfer (`usb_gadget.c:833`) and waits in `pthread_join` until a host is back |
| `DisableKeepsEndpoints` | `Gadget_get` with `Requests = {"open", "get"}`, `Controls = {"up", "down", "status"}`, `Faults = {}` | a read that fails sets `stop`, and the FunctionFS handler leaves its loop and closes the endpoints before it sees DISABLE (`usb_gadget.c:756`; line 847 says not to) |
| `ControlKept` | `Descriptors_rounds` with `Settings = {Conf(TRUE, {"get"}, {})}` | the first session's end closes number 0, the next round's control endpoint gets it, and the next session's end closes that: `select` fails for ever (`fs_handles_db.c:268`) |
| `EditsClosed` | the same with `Conf(TRUE, {"edit"}, {})` | a file SendPartialObject left open stays open when the session ends, unless its entry is the newest |
| `ServesOnAll` | the same with `Conf(TRUE, {"get"}, {"endpoint"})` | after a failure of `init_eps` the next ENABLE finds the first number and starts the thread without the others (`usb_gadget.c:808`) |
| `OwnFile` | the same with `Conf(TRUE, {"send"}, {"path"})` | an entry whose path cannot be built is "opened" as number 0 (`fs_handles_db.c:748`) |
| `OwnFile` | the same with `Conf(FALSE, {"get", "send"}, {"cut"})` | GadgetFS: a GetObject that a disconnection cut leaves its file open for reading; the next SendObject writes to that |
| `OwnEndpoints` | the same with `Conf(FALSE, {"get"}, {"config"})` | an endpoint whose configuration could not be written is closed and keeps its number (`usb_gadget.c:280`) |
| `WholeFileSent` | `FileData_phases` with `Confs = {[uses \|-> {"get", "truncate"}, size \|-> 3, local \|-> 0]}` | GetObject after a TruncateObject that made the file longer sends the old length (`mtp_op_truncateobject.c:73`) |
| `EndAlwaysSeen` | `FileData_phases` | `check_and_send_USB_ZLP` takes an int: no zero length packet for a data phase whose size is negative or 0 as one, from 2^31 bytes to 2^32 (`mtp.c:455`) |
| `PartialIsComplete` | `FileData_phases` | GetPartialObject keeps the length in an int (`mtp_op_getpartialobject.c:68`): 2^31 and more, as 0xFFFFFFFF for "the rest", is answered OK without the data |
| `SentIsStored` | `FileData_phases` | SendObject whose header comes alone reads nothing more and answers OK, the file stays empty (`mtp_op_sendobject.c:121`) |
| `SentIsFile` | `FileData_phases` with `Confs = {[uses \|-> {"get"}, size \|-> 16, local \|-> 0]}`, `TxBuffer = 8`, `Word = 64`, `MaxSize = 16` | a USB write buffer larger than the cache sends bytes from outside it (`mtp_ops_helpers.c:144`) |
| `StoresListed` | `StorageTable_table` with `Locked = {}`, `NotMounted = {}`, `WithUid = {}`, `Kinds = {"rm"}` | after rmstorage the storages behind the hole disappear for the host (`mtp_op_getstorageids.c:53`) |
| `AddedOnce` | `StorageTable_table` with `Configured = {a}`, `Early = TRUE`, `Kinds = {"add"}` | a command in the queue at start races the configuration; a store gets two slots (`mtp.c:105`, `mtp.c:730`) |
| `MountsNamedStore` | `StorageTable_table` with `Configured = {a}`, `NotMounted = {a}`, `Kinds = {"quoted"}` | the mount command as the repository's README gives it (line 181) keeps its quotes and finds no store |
| `StorageGid` | `StorageTable_table` with `Configured = {a}`, `WithGid = {a}`, `Kinds = {}` | the gid option selects the uid (`mtp_helpers.c:417`) |
| `AnnouncedIsAvailable` | `StorageTable_table` with `Configured = {a}`, `Locked = {a}`, `NotMounted = {a}`, `Kinds = {"unlock"}` | unlock announces a store that is not mounted (`msgqueue.c:224`) |
| `OneDaemon` | `Daemon_life` | without a queue `check_running` finds nothing to lock, and the queue the daemon creates is never locked (`umtprd.c:165`): a second start becomes a daemon too |
| `RefusedMeansRunning` | `Daemon_life` | a process that sends commands holds the lock, and one that blocks on the full queue of a dead daemon keeps it: every start says "Already running" (`umtprd.c:160`) |
| `TermEnds` | `Daemon_life` | a SIGTERM that comes outside `select` is not seen until the next event (`umtprd.c:59`) |
| `DisconnectEnds` | `Daemon_life` | without `loop_on_disconnect` a disconnection ends the session, and `main_thread` then joins a command thread that only leaves for `shutdown_requested` (`msgqueue.c:328`; `conf/umtprd.conf:7` says it shuts down) |
| `RunsConfigured` | `Daemon_life` | commands in the queue are executed before the configuration is read (`mtp.c:105`) |
| `UnicodeTold` | `Queries_names` | a name with a character above U+FFFF is told up to it, and refused when it is sent (`usbstring.c`; the repository's README, line 24, has "Unicode support.") |
| `NamesWhole` | `Queries_names` | a name of more than 256 bytes of UTF-8 is cut, and accepted when what is left is a name |
| `OneNameOneObject` | `Queries_names` with `Confs = {Conf({<<97>>, <<97, 46>>}, {}, {0}, 1)}` | `a` and `a.` are one file |
| `ToldOfItsFile` | `Queries_names` | an entry `b*` whose file is gone is told the size of `b_` (`fs_handles_db.c:670`) |
| `DescribedExist` | `Queries_names` | the row that ends the table of device properties can be described |

The properties of the passing runs leave exactly these cases out, where they touch them, and say so
in their comments: `EndSeenOnce` leaves out sizes that are negative or 0 as an int, `OkIsComplete`
lengths that are negative as one, `StoredIsGiven` a SendObject whose header comes alone, `Mirror`
folders with invisible changes and nameless entries, `Mirror` and `UniqueNames` names that a rename
doubled or that were looked up in the middle of one, `RemovedWasTold` the handle that is being
answered, `HostViewExact` tables with holes and lockable stores,
`ServedFromOwn` slots emptied in the session, `SingleDaemon` first starts, `NameAsSent` names that do
not fit, `TransferOnOwnFile` and `EndpointsOwn` the failures named there. `SentIsFile` makes no claim
about bytes that were cut off the file since the transfer started: nothing tells the host.

`Mirror` was stated too strongly at first, and no instance that TLC finishes in minutes showed it:
the attempt to prove it asked where a doubled entry goes when it is renamed again, and what an event
does to a folder whose watch a rename left elsewhere. Instances with two host renames
then found both. The history variables `overwritten` and `unmirrored` cover them, in `RenameInsert`
and `NotesMisplaced`, and `NotesCrossed` has the look-ups in the middle of a rename. `ObjectDb_flat`
with `MaxRenames = 2`, `Uses = {{"rename"}}` passes in some minutes. The theorem of section 4 covers all sizes.

## 4. What is proved

The theorems hold for every value of the constants that satisfies the assumptions of the modules; no
bound matters.

`ObjectDbProofs`:

- `DbTypeCorrect`: `Spec => []DbTypeOK`, the part of the type invariant that concerns the database.
  It is inductive as it stands. Each action has its lemma.
- `HandlesUniqueCorrect`: `DbTypeOK /\ HandlesUnique` is inductive. Every action either leaves the
  handles alone (`entries` is the same but for names, flags and watches), appends one entry with
  `next_handle`, or empties the database.
- `ParentsOlderCorrect`: the same split; the parent of an appended entry was found by a look-up of
  its storage, so it is there and older. That is why the climb of `build_full_path` ends.
- `NoResurrectionCorrect`: the action property follows from the same three cases.
- `KeepsHandlesCorrect`: the database implements `ObjectHandles`. The initial states map to its
  initial states; OpenSession and CloseSession map to its `Begin` and `End`, every other step to
  `Change` or a stutter, by the three cases again and the three invariants above.
- `UniqueNamesCorrect`: `DbTypeOK /\ UniqueNames` is inductive. An entry is appended only where
  `find_entry` has found no live entry of that name in that folder; where the inotify thread's look-up
  misses one, a rename is under way and `NotesCrossed` puts the name into `overwritten`; a rename puts
  the pair it doubles there.

- `ListingExactCorrect`: what `ScanFolder` leaves in the database is what it found. It rests on
  `ClimbIs` (the recursive climb of `build_full_path` takes one turn per entry; that such a function
  exists is an induction over the index, since parents are older; `ClimbInIs` says it for any names and
  any set of hashed entries, as a rename half done leaves them) and `PathOfChild`: the path of a
  child is the path of the scanned folder and the child's name, so that the scan's `stat64` looks at
  the object of that name. `NamesKnown` is needed: a root has no parent, an object is never called
  `/`, and a rename under way is of an object.

The second part of `ObjectDbProofs`, about the file systems, whose inductive invariant is `Whole`:

- `DiskTree` and `WatchesSet`: what is on a disk lies in a directory that is there, a watch is on an
  object that is there. `RequestPaths`: the paths a rename has put together are on the storage of its
  object, which is not read-only. `ChangesKeep` shows this for the three ways a disk changes, whoever does it
  (`Gains`, `Loses`, `Moves`); for a move `MovesWhole` says where each object of the moved tree is
  afterwards. `InoOK`: the inotify thread at work has an event and a position in the list.
- `ReadOnlyUntouchedCorrect`: every host request is quiet on the disks or changes one storage that is
  not read-only (`HostChanges`). For DeleteObject that is an induction over the turns of the walk
  (`DeleteTreeSound`): the calls under way are for live entries of the storage of the first, and
  what is left stays a tree.
- `RemovedWasToldCorrect`: `Awaited` says that a live object was told to the host, is part of the
  listing under way, is the subject of the event about to be pushed, or is the object of the
  SendObjectInfo still to be answered. No event of the inotify thread falls between the listing or
  its push and their end: the listing holds the mutex, and the thread pushes before it takes the next
  event. One may fall before the answer, which the property says (`Answering`).
- `TypeOKCorrect`: the parts above give the types of the disks, the watches, the queue and the thread;
  the rest is by action.

`ObjectMirrorProofs` has one theorem, `MirrorCorrect`: `Spec => []Mirror`. `Mirror` speaks of states
with an empty queue only and says nothing of how they come about. `Mirrored`, which is inductive
together with `Whole` and `UniqueNames`, says for every state what the database, the queue and the
watches owe each other. It has four parts:

- `Placed`, where the watches are and what the queue says. The kernel has one watch for a directory
  (`OneWatch`). The last event on a name in a watched directory is the truth about that name
  (`Truthful`). The path `build_full_path` puts together for an entry loses a name when an entry
  above it is removed, and the directory its watch is on may be moved; `Level` says that for a
  followed folder the path is no longer than the watched directory, and the same path if they are
  equally long and no rename is half done. So a folder never comes back to its watch once it has
  left it. `TopWatch` says where the watches of the storages are, `ListLevel` is about
  the folder GetObjectHandles is about to watch, and `Numbered` keeps new watches clear of old events.
- `Agreement`: for each name of a folder that is even with its watch, folder and directory agree, or
  the name is doubled (`overwritten`), or an event on that name still waits for that folder. An
  event waits for a folder as long as the inotify thread, which goes down the list, has not come to
  it (`Ahead`).
- `Renaming`: once a host rename is done on the disk both its events wait for the folder of the
  object, first the old name's, or the old name is doubled. So the inotify thread does not take the
  entry away that the rename is about to put back, unless that was to happen anyway.
- `Heading`: a rename under way is of an object, and the paths it has put together are those of the
  folder the object is in, if that folder is followed; if a folder above has left the database
  since, rename(2) may move the object out of its folder, which then is not followed.

Where the inotify thread's look-up differs from `find_entry`, the name is in `overwritten` after the
step and `Agreement` asks nothing of it; elsewhere IN_CREATE and IN_DELETE find the entry that the
database has (`CrossedNames`). A turn that computes another path than that of the watch leaves the
folder unmirrored (`NotesMisplaced`).

Each action has a lemma for each part. Scan and watch of GetObjectHandles, rename(2) and the end of
the rename, and IN_CREATE and IN_DELETE for one entry at a time are the long ones; the rest follows from
a few facts about steps that add events (`Reported`) and leave the watches alone (`Steady`). That
`build_full_path` gives the same path before and after a step is again an induction over the index
(`PathKept`).

`GadgetProofs`:

- `TypeCorrect`: the type invariant with the facts about positions it contains is inductive.
- `CancelOfReadCorrect` and `CancelSparesReadCorrect`: if the host only reads (no SendObject, no
  GadgetFS event that kills the thread), then `NoStaleCancel` and `CancelSparesRead`. The
  strengthening is `CancelInv`: who holds `cancel_mutex` where, and that a control handler between
  its test of `transferring_file_data` and its signal has the io thread within the transfer. The
  assumption `ReadingHost` is needed: section 3 has the counterexamples without it.

The second part of `GadgetProofs` is about the FunctionFS handler, in four invariants, each on top of
the one before:

- `HoldersInv`: where the io thread can be while the handler is where it is, and who holds which
  mutex. `LockHolderAliveCorrect` follows for any host. The GadgetFS handler is left out by `Ffs`
  because it is false there (`Gadget_disconnect`).
- `LeftInv`: what the thread leaves when it leaves its loop. `CleanAfterDisableCorrect` follows where
  no file read fails within a transfer; a failed read leaves `transferring_file_data` set
  (`mtp_ops_helpers.c:109`).
- `SignalInv`: a signal and a `cancel_req` are for a transfer that is there. `LinkInv`: the events in
  the queue alternate, what was handled and what is queued add up to the state of the link, and the
  thread serves whenever they do. `ServingCorrect` follows for a host that sends no file and files
  that can be read: with SendObject a cancel that crosses its end stops the thread (section 3,
  `CancelSparesRead`).

`StorageTableProofs`:

- `TypeCorrect`: types, with what the MTP thread and the writers hold between two steps.
- `TableWholeCorrect`: `TableInv` says of each place of `mtp_add_storage` and `mtp_remove_storage`
  what the slot has by then, that the other slots are whole or empty, and that a store on its way
  into the table is in no slot. It needs one writer at a time (`OneWriter`), hence the assumption
  `~Early`: commands wait until the configuration is read. The code does not make them wait
  (section 3, `AddedOnce`); the theorems say what holds in every start where none was queued.
- `ServedFromOwnCorrect`, `RunsAsOwnerCorrect`: `ServeInv` ties the slot a scan is in, and each object
  found, to its store unless the slot was emptied, and the credentials to the daemon's own.
- `HostViewExactCorrect`: `HostInv` counts the slots a walk of GetStorageIDs has passed; from an
  undisturbed answer on each command's event keeps the host's set between the available storages
  and those that are lockable.

`DescriptorsProofs`:

- `TypeCorrect`: the inductive part also says which threads are there at each place of `main_thread`.
- `NoLeakCorrect`: an object's file is open only while its transfer is.
- `EndpointsOwnCorrect`: `NumbersInv`. The first descriptor the gadget opens has the lowest number,
  IN has the lowest of the endpoints, and `deinit_usb_mtp_gadget` closes IN first: a thread that
  opens a file meanwhile gets the number of IN, and no second file is opened before it ends. So OUT
  is never another file's while a SendObject reads from it.
- `TransferOnOwnFileCorrect`: `DirectionInv`, where nothing but the opening of endpoints fails. An
  entry's number above 0 is its object's file, and a file that is open for one direction is that of
  the transfer under way; `entry_open` finds no other.

`FileDataProofs`, for any sizes of header, buffers, page, packet and file, any number of transfers
and of local changes:

- `TypeCorrect`: the data of a transfer lies within the largest file; `page` is -1 or a page.
- `OkIsCompleteCorrect`, for lengths that an int holds: `LengthInv` relates what was taken from the file, what was written to USB
  and what was announced, at each place of the loop.
- `EndSeenOnceCorrect`: `EndInv`. Only a full buffer or the last block is written, so that a short
  write is the last; the zero length packet is added where no write was short. Since the packet size
  divides the buffer and 2^32, the remainder that the int of `check_and_send_USB_ZLP` has, where it is
  not negative, is the remainder of the last write.
- `SentIsFileCorrect`: `BytesInv`. The page in the cache has the file's bytes up to the least size the
  file had since the transfer began, wherever the file was cut; so has what is about to be written.
  It assumes `BufferFits`: the USB buffer is no larger than the page. `buildconf.h:11` asks for that,
  nothing checks it for `umtprd.conf`, and section 3 has the counterexample without it.
- `StoredIsGivenCorrect`: `StoredInv`. The file is what one write of all the bytes received so far
  makes of it (`WrittenOn`: two writes that follow each other are one). It leaves out the SendObject
  whose header came alone.

`DaemonProofs`:

- `TypeCorrect`: every step changes one process (`Becomes`) and leaves the queues typed; one lemma
  for each action.
- `OneDaemonAtATime`: `SingleDaemon` for any number of processes. The strengthening is `Guarded`:
  the first queue keeps its name, and a process past its check holds that queue open and locked;
  two locks of one queue are one process.
- `CommandsSurviveCorrect`: the action property, from the types. `Keeps` says what every step but
  three leaves alone: no command leaves the queue, and a process keeps what it has in hand until it
  has executed it or ends. Left are the receipt (the command goes from the queue to the hand), and
  the unlink. Unlike in the run, crashes, later starts and the size of the queue are unlimited.

`QueriesProofs`:

- `TypeCorrect`: the types, with the names files can have (`FileNames`: those local users give, and
  those a host sends, cleaned once or twice). What cleaning does to a name does not matter here, nor
  in the next proof.
- `SizeHoldsCorrect`: the invariant is `SizeInv`: a size that was told is the entry's, and as long as
  the path of the entry leads to a file, that file's. The second half is needed because listings and
  questions about the object read the file again. A step that changes files forgets what was told of
  every entry whose name or whose path leads to one of them; a rename keeps what was told of the
  renamed object alone, and the lemma on its path says that it leads to the same file as before.
- `AnswersAgreeCorrect`: from the tables. `GoodRows` says that a row's type is a function of its
  property and that one property can be set; `TableGood` that the rows are like this and which there
  are. `DescIs`, `ElementIs`, `ValueIs` and `ListIs` say what each of the four places that know the
  properties gives for a listed one, `DeviceInfoIs` and `DeviceAgrees` the same for the device.
- `NameAsSentCorrect` and `ResentSameCorrect`: `NamesInv` says that the files have names of local
  users or names that were sent and cleaned, and that an object the host named has the name made of
  the one sent last; `PathSent`, that a clean name is the path it is found by. The rest is about the
  text itself, for names of any length. `Laid` states where in a name the bytes of each unit are:
  `EncodedLaid` (`unicode2charstring` lays them so), `Decoded` (`char2unicodestring` gives the units
  back), `ValidUnits` (`utf8_validate` accepts the bytes exactly when no unit is a surrogate),
  `SanitizeIs` and `SanitizeClean` (what is cleaned, and that cleaning again changes nothing). From
  these follow `NameSentIs`, `NameTold` and `NameResent`, which speak of the model's operators only.
  The values of a recursive function are found by the least place where they would be wrong, so that
  no induction theorem is needed. Assumed of `conf.sent`: a name is a sequence of `Unit`, 16 bits
  other than 0, as `unicode2charstring` stops at 0.

Only model-checked: liveness (`DisableCompletes`, `SuspendEndsTransfer`, `CommandsServed`,
`SendersEnd`, `StopsCleanly`), since fairness is out of the prover's reach.
Every other property of a passing run is the conclusion of a theorem.

## 5. What is not modelled

- The memory of entries and of the database: that an entry is not used after it was freed
  (`inotify.c:194` keeps one over an unlock) is assumed, not shown.
- Within a rename: the two hash tables change as one (a bucket that is moved or reallocated while the
  inotify thread walks it, an insertion lost between the two threads, the old name freed while it is
  compared), a turn of the inotify thread is one step (it never has half a path from before
  a change of the name and half from after). The rename of a nameless entry always fails: its path is
  its folder's, which rename(2) refuses to move into itself; that a folder above leaves the database
  between the two paths, and the move is then possible, is left out.
- The contents of the USB descriptors, and speeds; failures of `malloc`, `pthread_create` and
  `mq_open`.
- Dates as text, the fixed fields of datasets, the limit of the reply buffer.
- Failures of `fs_remove_tree` for lack of permission; the depth limit of 64 folders.
- The scalar settings of the configuration; logging; scripts.

## 6. Plan

1. The life of `fs_db` and of entry pointers across OpenSession, CloseSession, DISABLE,
   `main_thread` and the inotify thread's unlock.
2. An abstract specification of a transfer (asked, sent or cancelled, answered once) that `Gadget`
   and `FileData` implement by refinement.
