------------------------------- MODULE Gadget -------------------------------
(***************************************************************************)
(* The USB side of uMTP-Responder: the control endpoint handler            *)
(* (handle_ffs_ep0, handle_ep0, handle_setup_request), run by the main     *)
(* thread, against io_thread, which reads a request, runs it and answers.  *)
(*                                                                         *)
(* The two threads share ctx->stop, transferring_file_data and cancel_req, *)
(* most accesses to which are not under a mutex, the two mutexes, and      *)
(* SIGUSR1: pthread_kill interrupts the system call the io thread is       *)
(* blocked in, and is lost when it is blocked in none.  pthread_cancel     *)
(* ends the io thread at its next system call, whatever mutex it holds.    *)
(*                                                                         *)
(* The data of a transfer is a number of blocks; what an operation does to *)
(* the database is the subject of module ObjectDb.                         *)
(***************************************************************************)
EXTENDS Integers, Sequences

CONSTANTS
  Ffs,            \* usb_functionfs_mode: FunctionFS, else GadgetFS
  LoopOnDisconnect, \* loop_on_disconnect
  Requests,       \* bound: the kinds of requests the host makes
  Controls,       \* bound: the control events the host and the link cause
  Faults,         \* bound: "disk" for a failing file read, "zlp" for a file
                  \* whose size is a multiple of the packet size
  FastReconnect,  \* may the link come up again before its loss was handled
  MaxBlocks,      \* bound: USB transfers of one file
  MaxQueue        \* bound: control events the kernel holds for ep0, the
                  \* return of the link not counted

ASSUME GadgetAssumption ==
  /\ Ffs \in BOOLEAN /\ LoopOnDisconnect \in BOOLEAN /\ FastReconnect \in BOOLEAN
  /\ Requests \subseteq {"open", "close", "get", "send", "list"}
  /\ Controls \subseteq {"up", "down", "unconfigure", "cancel", "status", "suspend"}
  /\ Faults \subseteq {"disk", "zlp"}
  /\ MaxBlocks \in Nat \ {0} /\ MaxQueue \in Nat \ {0}

VARIABLES
  stop,          \* ctx->stop
  started,       \* ~ctx->thread_not_started
  io,            \* io_thread: where it is
  req,           \* the request it runs
  blocks,        \* USB transfers left of its file
  wake,          \* why its system call returns early: "no", "signal", "link"
  condemned,     \* pthread_cancel was called for it
  transferring,  \* mtp_context->transferring_file_data
  cancel_req,    \* mtp_context->cancel_req
  cancel_mutex,  \* holder: "free", "io", "ep0"
  inotify_mutex, \* holder: "free", "io", "ep0"
  session,       \* mtp_context->fs_db # NULL
  ep0,           \* the control endpoint handler: where it is
  batch,         \* events it has read and not handled yet
  queue,         \* kernel: control events
  link           \* kernel: the endpoints are enabled

ioVars   == <<io, req, blocks, wake>>
flagVars == <<transferring, cancel_req>>
ep0Vars  == <<ep0, batch, queue>>
vars == <<stop, started, ioVars, condemned, flagVars, cancel_mutex, inotify_mutex,
          session, ep0Vars, link>>

\* The system calls the io thread blocks in.
Blocked == {"read", "transfer", "zlp", "list", "respond"}

-----------------------------------------------------------------------------
(* io_thread.                                                               *)

\* Mutant: while(1)
IoLoop_IgnoresStop ==
  /\ io = "loop"
  /\ io' = "read"
  /\ UNCHANGED <<stop, started, req, blocks, wake, condemned, flagVars, cancel_mutex,
                 inotify_mutex, session, ep0Vars, link>>

\* while(is_usb_up(ctx))
IoLoop ==
  /\ io = "loop"
  /\ io' = IF stop THEN "ended" ELSE "read"
  /\ UNCHANGED <<stop, started, req, blocks, wake, condemned, flagVars, cancel_mutex,
                 inotify_mutex, session, ep0Vars, link>>

\* mtp_incoming_packet gets a request. Those that need a session and have none
\* answer at once, as OpenSession does where there is one.
IoRequest(r) ==
  /\ io = "read" /\ wake = "no" /\ link
  /\ req' = r
  /\ \/ /\ r = "open" /\ session' = TRUE
        /\ io' = IF session THEN "answer" ELSE "lock"
     \/ r = "close" /\ session' = FALSE /\ io' = "answer"
     \/ /\ r \in {"get", "send", "list"}
        /\ io' = IF session THEN "lock" ELSE "answer"
        /\ UNCHANGED session
  /\ UNCHANGED <<stop, started, blocks, wake, condemned, flagVars, cancel_mutex,
                 inotify_mutex, ep0Vars, link>>

\* A system call of the io thread fails: a signal or the loss of the link ended
\* it. One that is made while the link is down fails over GadgetFS, where the
\* endpoint is gone, and waits for the next ENABLE over FunctionFS.
Fails == wake # "no" \/ (~Ffs /\ ~link)

\* mtp_incoming_packet returns -1.
IoReadFails ==
  /\ io = "read" /\ Fails
  /\ stop' = TRUE
  /\ io' = "loop" /\ wake' = "no"
  /\ UNCHANGED <<started, req, blocks, condemned, flagVars, cancel_mutex, inotify_mutex,
                 session, ep0Vars, link>>

\* OpenSession releases the mutex once the root entries are there.
IoLock ==
  /\ io = "lock" /\ inotify_mutex = "free"
  /\ inotify_mutex' = IF req = "open" THEN "free" ELSE "io"
  /\ io' = CASE req = "open" -> "answer"
             [] req = "list" -> "reply_list"
             [] OTHER -> "open_file"
  /\ UNCHANGED <<stop, started, req, blocks, wake, condemned, flagVars, cancel_mutex,
                 session, ep0Vars, link>>

\* write_usb refuses before it reaches write().
Refused == cancel_req # 0 \/ stop

\* GetObjectHandles writes the handles with the mutex held.
IoWriteList ==
  /\ io = "reply_list"
  /\ io' = IF Refused THEN "unlock" ELSE "list"
  /\ UNCHANGED <<stop, started, req, blocks, wake, condemned, flagVars, cancel_mutex,
                 inotify_mutex, session, ep0Vars, link>>

\* entry_open, and the transfers the file takes. The first data of a SendObject
\* came with the request.
IoOpenFile(n) ==
  /\ io = "open_file" /\ (req = "get" => n > 0)
  /\ transferring' = TRUE
  /\ blocks' = n /\ io' = "test"
  /\ UNCHANGED <<stop, started, req, wake, condemned, cancel_req, cancel_mutex,
                 inotify_mutex, session, ep0Vars, link>>

IoOpenFails ==
  /\ io = "open_file"
  /\ io' = "unlock"
  /\ UNCHANGED <<stop, started, req, blocks, wake, condemned, flagVars, cancel_mutex,
                 inotify_mutex, session, ep0Vars, link>>

\* The loop conditions of send_file_data and mtp_op_SendObject. The block a
\* stopped write_usb refuses is counted as sent.
IoTest ==
  /\ io = "test"
  /\ \/ /\ blocks > 0 /\ cancel_req = 0 /\ (req = "send" \/ ~stop)
        /\ io' = "enter" /\ UNCHANGED blocks
     \/ /\ blocks > 0 /\ cancel_req = 0 /\ req = "get" /\ stop
        /\ blocks' = blocks - 1 /\ UNCHANGED io
     \/ /\ blocks = 0 \/ cancel_req # 0
        /\ io' = "close_file" /\ UNCHANGED blocks
  /\ UNCHANGED <<stop, started, req, wake, condemned, flagVars, cancel_mutex,
                 inotify_mutex, session, ep0Vars, link>>

\* From the last test of cancel_req to the system call: a signal is lost here.
IoEnter ==
  /\ io = "enter"
  /\ io' = "transfer"
  /\ UNCHANGED <<stop, started, req, blocks, wake, condemned, flagVars, cancel_mutex,
                 inotify_mutex, session, ep0Vars, link>>

\* The host takes or gives the block.
IoTransferred ==
  /\ io = "transfer" /\ wake = "no" /\ link
  /\ io' = "test" /\ blocks' = blocks - 1
  /\ UNCHANGED <<stop, started, req, wake, condemned, flagVars, cancel_mutex,
                 inotify_mutex, session, ep0Vars, link>>

\* send_file_data ignores what write_usb returns, SendObject ends on an error.
IoTransferFails ==
  /\ io = "transfer" /\ Fails
  /\ io' = "test" /\ wake' = "no"
  /\ blocks' = IF req = "get" THEN blocks - 1 ELSE 0
  /\ UNCHANGED <<stop, started, req, condemned, flagVars, cancel_mutex, inotify_mutex,
                 session, ep0Vars, link>>

\* entry_read fails: send_file_data returns with transferring_file_data set.
IoDiskError ==
  /\ "disk" \in Faults
  /\ io = "test" /\ req = "get"
  /\ io' = "unlock"
  /\ UNCHANGED <<stop, started, req, blocks, wake, condemned, flagVars, cancel_mutex,
                 inotify_mutex, session, ep0Vars, link>>

\* transferring_file_data = 0
IoCloseFile ==
  /\ io = "close_file"
  /\ transferring' = FALSE
  /\ io' = IF req = "get" THEN "lock_cancel" ELSE "verdict"
  /\ UNCHANGED <<stop, started, req, blocks, wake, condemned, cancel_req, cancel_mutex,
                 inotify_mutex, session, ep0Vars, link>>

\* Mutant: send_file_data looks at cancel_req without the mutex, which it only
\* takes for the reset.
IoLockCancel_Unlocked ==
  /\ io = "lock_cancel"
  /\ cancel_req # 0 => cancel_mutex = "free"
  /\ cancel_mutex' = IF cancel_req # 0 THEN "io" ELSE cancel_mutex
  /\ io' = IF cancel_req # 0 THEN "verdict" ELSE "unlock"
  /\ UNCHANGED <<stop, started, req, blocks, wake, condemned, flagVars, inotify_mutex,
                 session, ep0Vars, link>>

\* Only send_file_data takes cancel_mutex before it looks at cancel_req.
IoLockCancel ==
  /\ io = "lock_cancel" /\ cancel_mutex = "free"
  /\ cancel_mutex' = "io"
  /\ io' = "verdict"
  /\ UNCHANGED <<stop, started, req, blocks, wake, condemned, flagVars, inotify_mutex,
                 session, ep0Vars, link>>

ReleasedByIo(m) == IF m = "io" THEN "free" ELSE m

\* Cancelled: cancel_req is consumed and there is no response. Otherwise
\* send_file_data may owe the host a ZLP, which it writes before it unlocks.
IoVerdict ==
  /\ io = "verdict"
  /\ \/ /\ cancel_req # 0
        /\ cancel_req' = 0
        /\ cancel_mutex' = ReleasedByIo(cancel_mutex) /\ inotify_mutex' = "free"
        /\ io' = "loop"
     \/ /\ cancel_req = 0 /\ req = "get" /\ ~stop /\ "zlp" \in Faults
        /\ io' = "zlp" /\ UNCHANGED <<cancel_req, cancel_mutex, inotify_mutex>>
     \/ /\ cancel_req = 0
        /\ cancel_mutex' = ReleasedByIo(cancel_mutex)
        /\ io' = "unlock" /\ UNCHANGED <<cancel_req, inotify_mutex>>
  /\ UNCHANGED <<stop, started, req, blocks, wake, condemned, transferring, session,
                 ep0Vars, link>>

IoUnlock ==
  /\ io = "unlock"
  /\ inotify_mutex' = "free"
  /\ io' = "answer"
  /\ UNCHANGED <<stop, started, req, blocks, wake, condemned, flagVars, cancel_mutex,
                 session, ep0Vars, link>>

\* The end of process_in_packet.
IoAnswer ==
  /\ io = "answer"
  /\ io' = IF Refused THEN "loop" ELSE "respond"
  /\ UNCHANGED <<stop, started, req, blocks, wake, condemned, flagVars, cancel_mutex,
                 inotify_mutex, session, ep0Vars, link>>

\* The other write() calls return, done or failed: the code does not ask.
AfterWrite ==
  /\ io \in {"zlp", "list", "respond"}
  /\ io' = IF io = "respond" THEN "loop" ELSE "unlock"
  /\ cancel_mutex' = ReleasedByIo(cancel_mutex)
  /\ wake' = "no"
  /\ UNCHANGED <<stop, started, req, blocks, condemned, flagVars, inotify_mutex,
                 session, ep0Vars, link>>

IoWritten    == wake = "no" /\ link /\ AfterWrite
IoWriteFails == Fails /\ AfterWrite

\* The thread acts on pthread_cancel; its mutexes stay locked.
IoDies ==
  /\ condemned /\ io \in Blocked
  /\ io' = "ended" /\ wake' = "no"
  /\ UNCHANGED <<stop, started, req, blocks, condemned, flagVars, cancel_mutex,
                 inotify_mutex, session, ep0Vars, link>>

-----------------------------------------------------------------------------
(* The control endpoint handler.                                            *)

\* while(!ctx->stop)
Ep0Loop ==
  /\ ep0 = "loop"
  /\ ep0' = IF stop THEN "leave" ELSE "select"
  /\ UNCHANGED <<stop, started, ioVars, condemned, flagVars, cancel_mutex, inotify_mutex,
                 session, batch, queue, link>>

\* FunctionFS hands out one event, GadgetFS up to five, which are handled
\* without a test of ctx->stop in between.
Ep0Read ==
  /\ ep0 = "select" /\ queue # <<>>
  /\ batch' = IF Ffs \/ Len(queue) = 1 THEN 1 ELSE IF Len(queue) < 5 THEN Len(queue) ELSE 5
  /\ ep0' = "next"
  /\ UNCHANGED <<stop, started, ioVars, condemned, flagVars, cancel_mutex, inotify_mutex,
                 session, queue, link>>

Ep0BatchDone ==
  /\ ep0 = "next" /\ batch = 0
  /\ ep0' = "loop"
  /\ UNCHANGED <<stop, started, ioVars, condemned, flagVars, cancel_mutex, inotify_mutex,
                 session, batch, queue, link>>

\* The handler takes the next event of its batch.
Handles(c) ==
  /\ ep0 = "next" /\ batch > 0 /\ Head(queue) = c
  /\ queue' = Tail(queue) /\ batch' = batch - 1

\* FUNCTIONFS_ENABLE, SET_CONFIGURATION 1: pthread_create, once.
Enable ==
  /\ Handles("up")
  /\ stop' = FALSE
  /\ started' = TRUE
  /\ IF started THEN UNCHANGED <<io, condemned>>
                ELSE io' = "loop" /\ condemned' = FALSE
  /\ ep0' = "next"
  /\ UNCHANGED <<req, blocks, wake, flagVars, cancel_mutex, inotify_mutex, session, link>>

\* SET_CONFIGURATION 0
Unconfigure ==
  /\ Handles("unconfigure")
  /\ stop' = TRUE /\ ep0' = "next"
  /\ UNCHANGED <<started, ioVars, condemned, flagVars, cancel_mutex, inotify_mutex,
                 session, link>>

\* Mutant: the DISABLE handler cancels the thread, as GADGETFS_DISCONNECT does.
Disable_Cancels ==
  /\ Ffs /\ Handles("down")
  /\ stop' = TRUE /\ condemned' = started
  /\ ep0' = IF started THEN "join" ELSE "joined"
  /\ UNCHANGED <<started, ioVars, flagVars, cancel_mutex, inotify_mutex, session, link>>

\* FUNCTIONFS_DISABLE up to the wait for the thread.
Disable ==
  /\ Ffs /\ Handles("down")
  /\ stop' = TRUE
  /\ ep0' = IF ~started THEN "joined" ELSE IF transferring THEN "kill_lock" ELSE "join"
  /\ UNCHANGED <<started, ioVars, condemned, flagVars, cancel_mutex, inotify_mutex,
                 session, link>>

\* GADGETFS_DISCONNECT
Disconnect ==
  /\ ~Ffs /\ Handles("down")
  /\ stop' = TRUE
  /\ condemned' = started
  /\ ep0' = IF started THEN "join" ELSE "next"
  /\ UNCHANGED <<started, ioVars, flagVars, cancel_mutex, inotify_mutex, session, link>>

\* MTP_REQ_CANCEL, and GADGETFS_SUSPEND when a file is transferred.
Cancel ==
  /\ \/ Handles("cancel") /\ ep0' = "cancel_lock"
     \/ Handles("suspend") /\ ep0' = IF transferring THEN "suspend_lock" ELSE "next"
  /\ UNCHANGED <<stop, started, ioVars, condemned, flagVars, cancel_mutex, inotify_mutex,
                 session, link>>

\* Where the handler goes once it took cancel_mutex.
AfterLock == [cancel_lock |-> "cancel_set", suspend_lock |-> "suspend_set",
              kill_lock   |-> "kill_set"]

\* cancel_mutex, and the test of transferring_file_data under it; the DISABLE
\* handler made that test before it took the mutex.
Ep0LockCancel ==
  /\ ep0 \in DOMAIN AfterLock /\ cancel_mutex = "free"
  /\ IF transferring \/ ep0 = "kill_lock"
     THEN /\ cancel_mutex' = "ep0" /\ ep0' = AfterLock[ep0]
          /\ UNCHANGED cancel_req
     ELSE /\ cancel_req' = 0
          /\ ep0' = IF ep0 = "cancel_lock" THEN "next" ELSE "suspend_wait"
          /\ UNCHANGED cancel_mutex
  /\ UNCHANGED <<stop, started, ioVars, condemned, transferring, inotify_mutex, session,
                 batch, queue, link>>

AfterSet == [cancel_set |-> "cancel_kill", suspend_set |-> "suspend_kill",
             kill_set   |-> "kill_kill"]

\* Mutant: cancel_mutex is released before the signal is sent.
Ep0SetCancel_Unlocks ==
  /\ ep0 \in DOMAIN AfterSet
  /\ cancel_req' = 2 /\ cancel_mutex' = "free"
  /\ ep0' = AfterSet[ep0]
  /\ UNCHANGED <<stop, started, ioVars, condemned, transferring, inotify_mutex, session,
                 batch, queue, link>>

Ep0SetCancel ==
  /\ ep0 \in DOMAIN AfterSet
  /\ cancel_req' = 2
  /\ ep0' = AfterSet[ep0]
  /\ UNCHANGED <<stop, started, ioVars, condemned, transferring, cancel_mutex,
                 inotify_mutex, session, batch, queue, link>>

\* Mutant: a signal waits for the next system call.
pthread_kill_Pending == wake' = IF wake = "no" THEN "signal" ELSE wake

pthread_kill == wake' = IF io \in Blocked /\ wake = "no" THEN "signal" ELSE wake

AfterKill == [cancel_kill |-> "next", suspend_kill |-> "suspend_wait",
              kill_kill   |-> "join"]

Ep0Kill ==
  /\ ep0 \in DOMAIN AfterKill
  /\ pthread_kill
  /\ cancel_mutex' = "free"
  /\ ep0' = AfterKill[ep0]
  /\ UNCHANGED <<stop, started, io, req, blocks, condemned, flagVars, inotify_mutex,
                 session, batch, queue, link>>

\* Mutant: the wait ends without the second signal.
SuspendWait_NoKill ==
  /\ ep0 = "suspend_wait"
  /\ cancel_req # 0 => io \in Blocked \cup {"off", "lock", "ended"}
  /\ ep0' = "next"
  /\ UNCHANGED <<stop, started, ioVars, condemned, flagVars, cancel_mutex, inotify_mutex,
                 session, batch, queue, link>>

\* The wait of GADGETFS_SUSPEND for cancel_req, or its end after 250 turns, by
\* which time the io thread is blocked in a call or past the transfer.
SuspendWait ==
  /\ ep0 = "suspend_wait"
  /\ \/ cancel_req = 0 /\ UNCHANGED wake
     \/ cancel_req # 0 /\ io \in Blocked \cup {"off", "lock", "ended"} /\ pthread_kill
  /\ ep0' = "next"
  /\ UNCHANGED <<stop, started, io, req, blocks, condemned, flagVars, cancel_mutex,
                 inotify_mutex, session, batch, queue, link>>

\* MTP_REQ_GET_DEVICE_STATUS: OK, with a reset of cancel_req, or BUSY.
DeviceStatus ==
  /\ Handles("status")
  /\ IF cancel_req # 2
     THEN /\ cancel_req' = IF transferring THEN cancel_req ELSE 0
          /\ ep0' = "next"
     ELSE ep0' = "busy" /\ UNCHANGED cancel_req
  /\ UNCHANGED <<stop, started, ioVars, condemned, transferring, cancel_mutex,
                 inotify_mutex, session, link>>

DeviceBusy ==
  /\ ep0 = "busy" /\ cancel_mutex = "free"
  /\ cancel_req' = IF cancel_req = 2 THEN 1 ELSE cancel_req
  /\ ep0' = "next"
  /\ UNCHANGED <<stop, started, ioVars, condemned, transferring, cancel_mutex,
                 inotify_mutex, session, batch, queue, link>>

\* Mutant: the DISABLE handler does not wait for the thread.
Ep0Join_NoWait ==
  /\ ep0 = "join"
  /\ started' = FALSE
  /\ io' = IF io = "ended" THEN "off" ELSE io
  /\ ep0' = IF Ffs THEN "joined" ELSE "next"
  /\ UNCHANGED <<stop, req, blocks, wake, condemned, flagVars, cancel_mutex,
                 inotify_mutex, session, batch, queue, link>>

\* Mutant: thread_not_started is not set again.
Ep0Join_StillStarted ==
  /\ ep0 = "join" /\ io = "ended"
  /\ ep0' = IF Ffs THEN "joined" ELSE "next"
  /\ UNCHANGED <<stop, started, ioVars, condemned, flagVars, cancel_mutex,
                 inotify_mutex, session, batch, queue, link>>

\* pthread_join
Ep0Join ==
  /\ ep0 = "join" /\ io = "ended"
  /\ started' = FALSE /\ io' = "off"
  /\ ep0' = IF Ffs THEN "joined" ELSE "next"
  /\ UNCHANGED <<stop, req, blocks, wake, condemned, flagVars, cancel_mutex,
                 inotify_mutex, session, batch, queue, link>>

DisableJoined ==
  /\ ep0 = "joined"
  /\ stop' = FALSE
  /\ ep0' = "drop"
  /\ UNCHANGED <<started, ioVars, condemned, flagVars, cancel_mutex, inotify_mutex,
                 session, batch, queue, link>>

\* deinit_fs_db under inotify_mutex
DisableDrop ==
  /\ ep0 = "drop" /\ inotify_mutex = "free"
  /\ session' = FALSE
  /\ ep0' = "next"
  /\ UNCHANGED <<stop, started, ioVars, condemned, flagVars, cancel_mutex, inotify_mutex,
                 batch, queue, link>>

\* The handler returned: deinit_usb_mtp_gadget.
Deinit ==
  /\ ep0 = "leave"
  /\ stop' = TRUE /\ condemned' = started
  /\ ep0' = "deinit"
  /\ UNCHANGED <<started, ioVars, flagVars, cancel_mutex, inotify_mutex, session, batch,
                 queue, link>>

\* The thread is joined, main_thread drops the database, without the mutex,
\* and ends or starts again with a new gadget.
MainThread ==
  /\ ep0 = "deinit" /\ (started => io = "ended")
  /\ started' = FALSE /\ io' = "off"
  /\ session' = FALSE
  /\ ep0' = IF LoopOnDisconnect THEN "loop" ELSE "exit"
  /\ stop' = ~LoopOnDisconnect
  /\ queue' = <<>> /\ batch' = 0 /\ link' = FALSE
  /\ UNCHANGED <<req, blocks, wake, condemned, flagVars, cancel_mutex, inotify_mutex>>

-----------------------------------------------------------------------------
(* The host and the link.                                                   *)

Quiet == UNCHANGED <<stop, started, io, req, blocks, condemned, flagVars, cancel_mutex,
                     inotify_mutex, session, ep0, batch>>

\* A loss of the link ends the call the io thread is blocked in.
Control(c) ==
  /\ Quiet
  /\ ep0 \notin {"deinit", "exit"}
  /\ Len(queue) < IF c = "up" THEN MaxQueue + 1 ELSE MaxQueue
  /\ c # "up" => link
  /\ c = "up" => /\ ~link \/ ~Ffs
                 /\ FastReconnect \/ (ep0 = "select" /\ queue = <<>>)
  /\ c \in {"unconfigure", "suspend"} => ~Ffs
  /\ queue' = Append(queue, c)
  /\ link' = (c # "down")
  /\ wake' = IF c = "down" /\ io \in Blocked THEN "link" ELSE wake

-----------------------------------------------------------------------------
Init ==
  /\ stop = FALSE /\ started = FALSE
  /\ io = "off" /\ req = "open" /\ blocks = 0 /\ wake = "no" /\ condemned = FALSE
  /\ transferring = FALSE /\ cancel_req = 0
  /\ cancel_mutex = "free" /\ inotify_mutex = "free"
  /\ session = FALSE
  /\ ep0 = "loop" /\ batch = 0 /\ queue = <<>> /\ link = FALSE

\* What the io thread does by itself.
IoThread ==
  \/ IoLoop \/ IoReadFails \/ IoWriteList \/ IoTest \/ IoEnter \/ IoTransferFails
  \/ IoDiskError \/ IoCloseFile \/ IoVerdict \/ IoUnlock \/ IoAnswer \/ IoWriteFails
  \/ IoDies
  \/ IoOpenFails \/ \E n \in 0..MaxBlocks : IoOpenFile(n)

IoLocks == IoLock \/ IoLockCancel

\* What it does when the host moves.
IoHost ==
  \/ IoTransferred \/ IoWritten
  \/ \E r \in Requests : IoRequest(r)

Ep0Thread ==
  \/ Ep0Loop \/ Ep0Read \/ Ep0BatchDone \/ Enable \/ Unconfigure \/ Disable \/ Disconnect
  \/ Cancel \/ Ep0SetCancel \/ Ep0Kill \/ SuspendWait \/ DeviceStatus
  \/ Ep0Join \/ DisableJoined \/ Deinit \/ MainThread

Ep0Locks == Ep0LockCancel \/ DeviceBusy \/ DisableDrop

Next ==
  \/ IoThread \/ IoLocks \/ IoHost
  \/ Ep0Thread \/ Ep0Locks
  \/ \E c \in Controls : Control(c)

Spec == Init /\ [][Next]_vars

\* Both threads run, and get a mutex that keeps becoming free; nothing is
\* assumed of the host: it may stop taking data or sending requests.
Fairness ==
  /\ WF_vars(IoThread) /\ SF_vars(IoLocks)
  /\ WF_vars(Ep0Thread) /\ SF_vars(Ep0Locks)

FairSpec == Spec /\ Fairness

-----------------------------------------------------------------------------
(* Correctness.                                                             *)

\* Types of all variables; thread_not_started says whether there is a thread, a
\* call is only ever interrupted while the io thread is in it, and a transfer is
\* only started for a block that is left.
TypeOK ==
  /\ stop \in BOOLEAN /\ started \in BOOLEAN /\ condemned \in BOOLEAN
  /\ transferring \in BOOLEAN /\ session \in BOOLEAN /\ link \in BOOLEAN
  /\ io \in Blocked \cup {"off", "loop", "lock", "reply_list", "open_file", "test", "enter",
                          "close_file", "lock_cancel", "verdict", "unlock", "answer", "ended"}
  /\ req \in {"open", "close", "get", "send", "list"}
  /\ blocks \in 0..MaxBlocks /\ (io \in {"enter", "transfer"} => blocks > 0)
  /\ (io = "off") = ~started
  /\ wake \in {"no", "signal", "link"} /\ (wake # "no" => io \in Blocked)
  /\ cancel_req \in 0..2
  /\ cancel_mutex \in {"free", "io", "ep0"} /\ inotify_mutex \in {"free", "io"}
  /\ ep0 \in DOMAIN AfterLock \cup DOMAIN AfterSet \cup DOMAIN AfterKill \cup
             {"loop", "select", "next", "suspend_wait", "busy", "join", "joined", "drop",
              "leave", "deinit", "exit"}
  /\ queue \in Seq(Controls) /\ Len(queue) <= MaxQueue + 1 /\ batch \in 0..Len(queue)

\* The io thread is within the transfer that transferring_file_data announces,
\* or on its way to the verdict on it.
InTransfer == io \in {"test", "enter", "transfer", "close_file", "lock_cancel", "verdict"}

\* A cancel never outlives the transfer it was for: with cancel_mutex around the
\* verdict of send_file_data, no later answer is refused because of it, however
\* late in the transfer MTP_REQ_CANCEL comes and whatever the host polls.
NoStaleCancel == cancel_req # 0 => InTransfer

\* A cancel interrupts the transfer and never the wait for the next request,
\* which would end the io thread (io_thread sets stop when the read fails).
CancelSparesRead == io = "read" => wake # "signal"

\* FunctionFS: when the DISABLE handler is done, its thread is joined, nothing
\* of it is left behind, neither session, mutex nor transfer, and the handler
\* is ready for the next ENABLE.
CleanAfterDisable ==
  ep0 \in {"loop", "select"} /\ ~started =>
    /\ io = "off" /\ ~stop /\ ~session /\ ~transferring
    /\ cancel_mutex = "free" /\ inotify_mutex = "free"

\* FunctionFS: while the link is up and the handler waits for events, the io
\* thread serves requests; it did not end unnoticed.
Serving ==
  ep0 = "select" /\ queue = <<>> /\ link => started /\ io # "ended"

\* A mutex is held by a thread that runs.
LockHolderAlive == inotify_mutex = "io" => io \notin {"off", "ended"}

Disabled == ep0 \in {"kill_lock", "join", "joined", "drop"}

\* FUNCTIONFS_DISABLE is handled to the end, whatever the io thread is doing:
\* the handler waits for ever only for a host that stays away, or is back and
\* silent, while the io thread is in one call to its endpoint that it made
\* after the link was lost. No mutex holds the handler up, the io thread makes
\* no second such call, and the first move of a host ends the wait.
DisableCompletes ==
  Disabled ~> (ep0 = "select" \/ [](io \in Blocked /\ wake = "no"))

\* GADGETFS_SUSPEND ends the transfer of the file, though the host takes no
\* more data and though the first signal may be lost.
SuspendEndsTransfer == ep0 = "suspend_set" ~> ~InTransfer

-----------------------------------------------------------------------------
(* What the documentation says and the code does not do (see the README).   *)

\* Release-notes.txt: "gadgetfs -> Handle unexpected disconnection while
\* transferring a file." The handler of GADGETFS_DISCONNECT gets past its join.
DisconnectCompletes == ep0 = "join" ~> ep0 # "join"

\* Release-notes.txt: "File read/write transfer cancel operation supported."
CancelHandled == ep0 = "cancel_kill" ~> (cancel_req = 0 \/ ~link)

\* usb_gadget.c, FUNCTIONFS_DISABLE: "Stop the main rx thread." The handler ends
\* though the host does nothing more.
DisableNeedsNoHost == Disabled ~> ep0 = "select"

\* usb_gadget.c, FUNCTIONFS_DISABLE: "But don't close the endpoints !"
DisableKeepsEndpoints == ep0 # "leave"

=============================================================================
