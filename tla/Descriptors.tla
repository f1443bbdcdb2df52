----------------------------- MODULE Descriptors -----------------------------
(***************************************************************************)
(* The file descriptors of the daemon: the control endpoint and the        *)
(* endpoints that init_usb_mtp_gadget, init_eps and deinit_usb_mtp_gadget  *)
(* open and close in every round of main_thread, and the files that        *)
(* entry_open and entry_close open and close for the entries of the        *)
(* database.  Each keeps a number; the kernel gives the lowest free one.   *)
(*                                                                         *)
(* Numbers are what the code gets wrong most easily: alloc_entry clears an *)
(* entry with memset, so that file_descriptor is 0, a valid number, until  *)
(* the first entry_open; and deinit_fs_db closes the file of one entry.    *)
(*                                                                         *)
(* The daemon is taken to start with number 0 open.  Its other descriptors *)
(* (standard output and error, queue, inotify) are opened before the first *)
(* round and kept; they are left out.                                      *)
(***************************************************************************)
EXTENDS Integers, SequencesExt

CONSTANTS
  Settings,   \* bound: the conditions checked, see conf
  Objs,       \* bound: the objects of the storages
  MaxFd       \* the largest descriptor number, RLIMIT_NOFILE - 1

Eps == 1..3   \* EP_DESCRIPTOR_IN, EP_DESCRIPTOR_OUT, EP_DESCRIPTOR_INT_IN
In  == 1
Out == 2

ASSUME DescriptorsAssumption ==
  /\ Settings \subseteq [ffs : BOOLEAN, loop : BOOLEAN, uses : SUBSET {"get", "send", "edit"},
                         faults : SUBSET {"endpoint", "config", "path", "cut"}]
  /\ Objs \subseteq Nat \ {0}
  /\ MaxFd \in Nat

VARIABLES
  conf,   \* chosen once: FunctionFS or GadgetFS, loop_on_disconnect; bound: what
          \* the host does with files, and what may fail: opening an endpoint,
          \* writing its configuration, building a path, pthread_cancel in the
          \* middle of a transfer
  file,   \* kernel: what each number stands for
  main,   \* main_thread: where it is, usb_device and ep_handles of its usb_gadget
  io,     \* io_thread: where it is, and the use and entry of its transfer
  db      \* fs_db: NULL, or its entries, the storage's first, in the order of
          \* allocation (entry_list is its end)

vars == <<conf, file, main, io, db>>

Fds     == 0..MaxFd
Closed  == [kind |-> "closed", of |-> 0, how |-> "rw"]
Stdin   == [Closed EXCEPT !.kind = "stdin"]
Control == [Closed EXCEPT !.kind = "control"]
Ep(i)   == [Closed EXCEPT !.kind = "endpoint", !.of = i]
Object(o, how) == [kind |-> "object", of |-> o, how |-> how]

NULL == <<>>
Root == [obj |-> 0, fd |-> 0]

NoUsb    == [pc |-> "start", usb |-> -1, ep |-> [i \in Eps |-> -1]]
NoThread == [pc |-> "none", use |-> "none", e |-> 0]

\* open(2): the lowest free number; -1 when there is none.
Free(f)   == {n \in Fds : f[n] = Closed}
Lowest(f) == IF Free(f) = {} THEN -1 ELSE CHOOSE n \in Free(f) : \A k \in Free(f) : n <= k
Open(f, thing) == [n \in Fds |-> IF n = Lowest(f) THEN thing ELSE f[n]]
Close(f, S)    == [n \in Fds |-> IF n \in S THEN Closed ELSE f[n]]

-----------------------------------------------------------------------------
(* fs_handles_db.c.                                                         *)

\* entry_close: whatever has the number is closed.
entry_close(e) ==
  /\ file' = Close(file, {db[e].fd})
  /\ db' = [db EXCEPT ![e].fd = -1]

Flags(use) == CASE use = "get" -> "r" [] use = "send" -> "w" [] use = "edit" -> "rw"

\* entry_open: a number above 0 is used again; without a path the old value is
\* returned, and only -1 is an error to the callers; open fails for a file that
\* is gone or when no number is free.
entry_open(e, use) ==
  \/ /\ db[e].fd > 0 \/ "path" \in conf.faults
     /\ UNCHANGED <<file, db>>
  \/ /\ db[e].fd <= 0
     /\ db' = [db EXCEPT ![e].fd = Lowest(file)]
     /\ file' = Open(file, Object(db[e].obj, Flags(use)))
  \/ /\ db[e].fd <= 0
     /\ db' = [db EXCEPT ![e].fd = -1]
     /\ UNCHANGED file

\* deinit_fs_db closes the file of entry_list alone.
deinit_fs_db ==
  /\ db' = NULL
  /\ file' = IF db = NULL THEN file ELSE Close(file, {Last(db).fd})

-----------------------------------------------------------------------------
(* main_thread and usb_gadget.c.                                            *)

\* Mutant: ep_handles is left as memset made it.
InitUsb_Zero ==
  /\ main.pc = "start"
  /\ \/ /\ Lowest(file) # -1
        /\ main' = [pc |-> "up", usb |-> Lowest(file), ep |-> [i \in Eps |-> 0]]
        /\ file' = Open(file, Control)
     \/ main' = [NoUsb EXCEPT !.pc = "ended"] /\ UNCHANGED file
  /\ UNCHANGED <<conf, io, db>>

\* init_usb_mtp_gadget; when it fails it closes what it opened and main ends.
InitUsb ==
  /\ main.pc = "start"
  /\ \/ /\ Lowest(file) # -1
        /\ main' = [NoUsb EXCEPT !.pc = "up", !.usb = Lowest(file)]
        /\ file' = Open(file, Control)
     \/ main' = [NoUsb EXCEPT !.pc = "ended"] /\ UNCHANGED file
  /\ UNCHANGED <<conf, io, db>>

\* What init_eps leaves in the kernel and in ep_handles: it opens one endpoint
\* after another and ends at the first that fails.  One whose configuration
\* cannot be written (GadgetFS) is closed, its number is kept.
NoHandles(ep) == [file |-> file, ep |-> ep, ok |-> TRUE]
OpenEp(r, i) ==
  IF ~r.ok \/ Lowest(r.file) = -1 THEN [r EXCEPT !.ok = FALSE]
  ELSE [r EXCEPT !.ep[i] = Lowest(r.file), !.file = Open(r.file, Ep(i))]
OpenedUpTo(ep, n) ==
  LET one == OpenEp(NoHandles(ep), 1)
      two == OpenEp(one, 2)
  IN  <<NoHandles(ep), one, two, OpenEp(two, 3)>>[n + 1]
Unwritten(r, i) ==
  [r EXCEPT !.ok = FALSE, !.file = IF r.ok THEN Close(r.file, {r.ep[i]}) ELSE r.file]

init_eps(ep) ==
  {OpenedUpTo(ep, 3)}
  \cup (IF "endpoint" \in conf.faults
        THEN {[OpenedUpTo(ep, n) EXCEPT !.ok = FALSE] : n \in 0..2} ELSE {})
  \cup (IF "config" \in conf.faults /\ ~conf.ffs
        THEN {Unwritten(OpenedUpTo(ep, n), n) : n \in Eps} ELSE {})

\* FUNCTIONFS_ENABLE and SET_CONFIGURATION: the endpoints are opened unless the
\* first has a number; then the thread is started unless it is.
Enable ==
  /\ main.pc = "up" /\ file[main.usb] = Control
  /\ \E r \in IF main.ep[In] <= 0 THEN init_eps(main.ep) ELSE {NoHandles(main.ep)} :
       /\ file' = r.file
       /\ main' = [main EXCEPT !.ep = r.ep]
       /\ io' = IF r.ok /\ io.pc = "none" THEN [NoThread EXCEPT !.pc = "idle"] ELSE io
  /\ UNCHANGED <<conf, db>>

\* FUNCTIONFS_DISABLE: the thread has ended its request, it is joined, the
\* endpoints stay open, the database is dropped.
Disable ==
  /\ conf.ffs /\ main.pc = "up" /\ file[main.usb] = Control
  /\ io.pc \in {"none", "ended"}
  /\ io' = NoThread
  /\ deinit_fs_db
  /\ UNCHANGED <<conf, main>>

\* GADGETFS_DISCONNECT: the thread is cancelled, the database is kept.
Disconnect ==
  /\ ~conf.ffs /\ main.pc = "up" /\ file[main.usb] = Control
  /\ io.pc = "moving" => "cut" \in conf.faults
  /\ io' = NoThread
  /\ UNCHANGED <<conf, file, main, db>>

\* The handler returns: the thread stopped, a time-out, SIGTERM.
LeaveEp0 ==
  /\ main.pc = "up"
  /\ main' = [main EXCEPT !.pc = "close_in"]
  /\ UNCHANGED <<conf, file, io, db>>

\* deinit_usb_mtp_gadget closes one endpoint after another and then the
\* control endpoint.
Closing == <<"close_in", "close_out", "close_int", "close_usb", "cancel">>
CloseUsb ==
  \E k \in 1..4 :
    /\ main.pc = Closing[k]
    /\ file' = Close(file, {IF k \in Eps THEN main.ep[k] ELSE main.usb})
    /\ main' = [main EXCEPT !.pc = Closing[k + 1], !.usb = IF k = 4 THEN -1 ELSE @]
    /\ UNCHANGED <<conf, io, db>>

\* Mutant: the thread is told to end and not waited for.
CancelThread_NoJoin ==
  /\ main.pc = "cancel"
  /\ main' = [NoUsb EXCEPT !.pc = "drop"]
  /\ UNCHANGED <<conf, file, io, db>>

\* Then it cancels the thread, and frees the gadget.
CancelThread ==
  /\ main.pc = "cancel"
  /\ io.pc = "moving" => "cut" \in conf.faults
  /\ io' = NoThread
  /\ main' = [NoUsb EXCEPT !.pc = "drop"]
  /\ UNCHANGED <<conf, file, db>>

\* main_thread drops the database and goes on, or ends.
DropDb ==
  /\ main.pc = "drop"
  /\ deinit_fs_db
  /\ main' = [main EXCEPT !.pc = IF conf.loop THEN "start" ELSE "ended"]
  /\ UNCHANGED <<conf, io>>

-----------------------------------------------------------------------------
(* io_thread and the MTP operations.                                        *)

Handle(i) == main.ep[i]
Usable(i) == Handle(i) # -1 /\ file[Handle(i)] = Ep(i)

\* Once deinit_usb_mtp_gadget has set stop, the thread does not read again.
Answered == [NoThread EXCEPT !.pc = IF main.pc = "up" THEN "idle" ELSE "ended"]

\* read_usb fails: the link is down, or there is no endpoint.
ReadRequestFails ==
  /\ io.pc = "idle"
  /\ io' = [io EXCEPT !.pc = "ended"]
  /\ UNCHANGED <<conf, file, main, db>>

OpenSession ==
  /\ io.pc = "idle" /\ Usable(Out) /\ db = NULL
  /\ db' = <<Root>>
  /\ UNCHANGED <<conf, file, main, io>>

CloseSession ==
  /\ io.pc = "idle" /\ Usable(Out) /\ db # NULL
  /\ deinit_fs_db
  /\ UNCHANGED <<conf, main, io>>

\* alloc_entry, for a scan, an event or a SendObjectInfo.
AddEntry(o) ==
  /\ io.pc # "none" /\ db # NULL
  /\ \A e \in DOMAIN db : db[e].obj # o
  /\ db' = Append(db, [obj |-> o, fd |-> 0])
  /\ UNCHANGED <<conf, file, main, io>>

\* A GetObject, SendObject or SendPartialObject was read.
Request(use, e) ==
  /\ io.pc = "idle" /\ Usable(Out)
  /\ use \in conf.uses /\ db[e].obj # 0
  /\ io' = [pc |-> "asked", use |-> use, e |-> e]
  /\ UNCHANGED <<conf, file, main, db>>

\* Its file is opened; -1 is answered as an error.
OpenFile ==
  /\ io.pc = "asked"
  /\ entry_open(io.e, io.use)
  /\ io' = IF db'[io.e].fd = -1 THEN Answered
                                 ELSE [io EXCEPT !.pc = "moving"]
  /\ UNCHANGED <<conf, main>>

\* Mutant: a SendObject that was cancelled returns before entry_close.
EndTransfer_CancelFirst ==
  /\ io.pc = "moving"
  /\ \/ io.use # "edit" /\ entry_close(io.e)
     \/ io.use \in {"edit", "send"} /\ UNCHANGED <<file, db>>
  /\ io' = Answered
  /\ UNCHANGED <<conf, main>>

\* The data phase is over, complete or cancelled: SendPartialObject leaves the
\* file open.
EndTransfer ==
  /\ io.pc = "moving"
  /\ IF io.use = "edit" THEN UNCHANGED <<file, db>> ELSE entry_close(io.e)
  /\ io' = Answered
  /\ UNCHANGED <<conf, main>>

\* Mutant: the file is left open.
ReadFails_Returns ==
  /\ io.pc = "moving" /\ io.use = "get"
  /\ io' = Answered
  /\ UNCHANGED <<conf, file, main, db>>

\* entry_read fails in send_file_data.
ReadFails ==
  /\ io.pc = "moving" /\ io.use = "get"
  /\ entry_close(io.e)
  /\ io' = Answered
  /\ UNCHANGED <<conf, main>>

EndEditObject(e) ==
  /\ io.pc = "idle" /\ Usable(Out) /\ "edit" \in conf.uses
  /\ entry_close(e)
  /\ UNCHANGED <<conf, main, io>>

-----------------------------------------------------------------------------
Init ==
  /\ conf \in Settings
  /\ file = [n \in Fds |-> IF n = 0 THEN Stdin ELSE Closed]
  /\ main = NoUsb /\ io = NoThread /\ db = NULL

Next ==
  \/ InitUsb \/ Enable \/ Disable \/ Disconnect
  \/ LeaveEp0 \/ CloseUsb \/ CancelThread \/ DropDb
  \/ ReadRequestFails \/ OpenSession \/ CloseSession
  \/ \E o \in Objs : AddEntry(o)
  \/ \E use \in {"get", "send", "edit"}, e \in DOMAIN db : Request(use, e)
  \/ OpenFile \/ EndTransfer \/ ReadFails
  \/ \E e \in DOMAIN db : EndEditObject(e)

Spec == Init /\ [][Next]_vars

-----------------------------------------------------------------------------
(* Properties.                                                              *)

Things == {Closed, Stdin, Control} \cup {Ep(i) : i \in Eps}
          \cup {Object(o, h) : o \in Objs, h \in {"r", "w", "rw"}}

\* The state: a thread only exists while a gadget does, and runs a transfer for
\* an entry that is there (umtprd.c, main_thread).
TypeOK ==
  /\ conf \in Settings
  /\ file \in [Fds -> Things]
  /\ main \in [pc : {"start", "up", "drop", "ended"} \cup ToSet(Closing),
               usb : Fds \cup {-1}, ep : [Eps -> Fds \cup {-1}]]
  /\ io \in [pc : {"none", "idle", "asked", "moving", "ended"},
             use : {"none", "get", "send", "edit"}, e : Nat]
  /\ db \in Seq([obj : Objs \cup {0}, fd : Fds \cup {-1}])
  /\ main.pc \in {"start", "drop", "ended"} => io.pc = "none"
  /\ main.pc \in {"start", "cancel", "drop", "ended"} <=> main.usb = -1
  /\ io.pc \in {"asked", "moving"} => io.e \in DOMAIN db /\ io.use # "none"

OwnFile ==
  main.pc = "up" /\ io.pc = "moving" =>
    /\ file[db[io.e].fd].kind = "object"
    /\ file[db[io.e].fd].of = db[io.e].obj
    /\ file[db[io.e].fd].how \in {Flags(io.use), "rw"}

\* The data of a transfer comes from or goes to the object's own file, opened
\* for that direction: entry_open may use a number again only if it is still the
\* object's (fs_handles_db.c:727).  Left out, where OwnFile fails: entries
\* without a path, for which entry_open returns what was there; threads
\* cancelled in a transfer, whose next SendObject finds the file open for
\* reading; endpoints whose configuration could not be written.
TransferOnOwnFile == conf.faults \subseteq {"endpoint"} => OwnFile

\* No object's file stays open behind a transfer, whichever way it ends and
\* however often the link goes: the daemon would run out of numbers
\* (mtp_ops_helpers.c:109, mtp_op_sendobject.c:150).  Left out: hosts that
\* edit, and threads cancelled in a transfer.
NoLeak ==
  io.pc # "moving" /\ "edit" \notin conf.uses /\ conf.faults \cap {"cut", "path"} = {} =>
    \A n \in Fds : file[n].kind # "object"

OwnEndpoints ==
  /\ main.pc = "up" =>
       \A i \in Eps : main.ep[i] # -1 => file[main.ep[i]] = Ep(i)
  /\ io.pc = "moving" /\ io.use # "get" /\ main.ep[Out] # -1 =>
       file[main.ep[Out]] \in {Ep(Out), Closed}

\* While a gadget is up its numbers are those of its endpoints, in every round
\* and after every DISABLE that leaves them open (usb_gadget.c:847); and a
\* SendObject reads from the OUT endpoint or from nothing, though
\* deinit_usb_mtp_gadget closes the endpoints while the thread may still open
\* files (usb_gadget.c:1175): the number of OUT is never the lowest then.
\* Left out, where OwnEndpoints fails: endpoints whose configuration could not
\* be written.
EndpointsOwn == "config" \notin conf.faults => OwnEndpoints

(* What the code does not do. *)

\* While the handler waits for events its descriptor is the control endpoint
\* (umtprd.conf:7, the loop goes on after a disconnection).  Fails: entry_close
\* of an entry that was never opened closes 0.
ControlKept == main.pc = "up" => file[main.usb] = Control

\* A session that ended leaves no file open, edited or not.  Fails: deinit_fs_db
\* closes the file of the newest entry alone.
EditsClosed == db = NULL => \A n \in Fds : file[n].kind # "object"

\* A thread that serves has all its endpoints.  Fails: after a failure of
\* init_eps the next ENABLE finds the first number and starts the thread.
ServesOnAll == io.pc = "idle" /\ main.pc = "up" => \A i \in Eps : main.ep[i] # -1

=============================================================================
