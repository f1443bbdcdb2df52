---------------------------- MODULE GadgetProofs ----------------------------
(***************************************************************************)
(* Theorems about module Gadget, for every number of blocks and every      *)
(* length of the event queue: its type invariant; for a host that reads    *)
(* files and cancels (no SendObject, no loss of the link), that a cancel   *)
(* never outlives its transfer and never interrupts the wait for the next  *)
(* request; and over FunctionFS, in every order in which the link is lost  *)
(* and comes back, who holds the mutexes, what the handler of DISABLE      *)
(* leaves behind, and that the thread is there while the link is.          *)
(***************************************************************************)
EXTENDS Gadget, TLAPS

\* The types hold initially.
LEMMA InitTyped == Init => TypeOK
<1> SUFFICES ASSUME Init PROVE TypeOK
  OBVIOUS
<1>1. queue \in Seq(Controls) /\ Len(queue) = 0
  BY DEF Init
<1>2. /\ stop \in BOOLEAN /\ started \in BOOLEAN /\ condemned \in BOOLEAN
      /\ transferring \in BOOLEAN /\ session \in BOOLEAN /\ link \in BOOLEAN
  BY Zenon DEF Init
<1> QED BY <1>1, <1>2, GadgetAssumption DEF Init, TypeOK, Blocked

\* A step of the io thread keeps the types.
LEMMA IoTyped ==
  ASSUME TypeOK, IoThread \/ IoLocks \/ IoHost PROVE TypeOK'
<1> USE GadgetAssumption DEF TypeOK, Blocked, ioVars, flagVars, ep0Vars
<1>1. CASE IoLoop       BY <1>1 DEF IoLoop
<1>2. CASE IoReadFails  BY <1>2 DEF IoReadFails
<1>3. CASE IoWriteList  BY <1>3 DEF IoWriteList
<1>4. CASE IoTest       BY <1>4 DEF IoTest
<1>5. CASE IoEnter      BY <1>5 DEF IoEnter
<1>6. CASE IoTransferFails BY <1>6 DEF IoTransferFails
<1>7. CASE IoDiskError  BY <1>7 DEF IoDiskError
<1>8. CASE IoCloseFile
  <2>1. transferring' \in BOOLEAN
    BY <1>8, Zenon DEF IoCloseFile
  <2> QED BY <2>1, <1>8 DEF IoCloseFile
<1>9. CASE IoVerdict    BY <1>9 DEF IoVerdict, ReleasedByIo
<1>10. CASE IoUnlock    BY <1>10 DEF IoUnlock
<1>11. CASE IoAnswer    BY <1>11 DEF IoAnswer
<1>12. CASE AfterWrite  BY <1>12 DEF AfterWrite, ReleasedByIo
<1>13. CASE IoDies      BY <1>13 DEF IoDies
<1>14. CASE IoOpenFails BY <1>14 DEF IoOpenFails
<1>15. ASSUME NEW n \in 0..MaxBlocks, IoOpenFile(n) PROVE TypeOK'
  BY <1>15 DEF IoOpenFile
<1>16. CASE IoLock       BY <1>16 DEF IoLock
<1>17. CASE IoLockCancel BY <1>17 DEF IoLockCancel
<1>18. CASE IoTransferred BY <1>18 DEF IoTransferred
<1>19. ASSUME NEW r \in Requests, IoRequest(r) PROVE TypeOK'
  <2>1. session' \in BOOLEAN
    BY <1>19, Zenon DEF IoRequest
  <2> QED BY <2>1, <1>19 DEF IoRequest
<1> QED
  BY <1>1, <1>2, <1>3, <1>4, <1>5, <1>6, <1>7, <1>8, <1>9, <1>10, <1>11, <1>12, <1>13,
     <1>14, <1>15, <1>16, <1>17, <1>18, <1>19
  DEF IoThread, IoLocks, IoHost, IoWritten, IoWriteFails

\* Taking an event shortens the queue and the batch by one.
LEMMA HandlesTyped ==
  ASSUME TypeOK, NEW c, Handles(c)
  PROVE /\ queue' \in Seq(Controls) /\ Len(queue') = Len(queue) - 1
        /\ Len(queue') <= MaxQueue /\ batch' \in 0..Len(queue')
        /\ queue # <<>> /\ c \in Controls
<1>1. Len(queue) > 0 /\ queue # <<>>
  BY DEF TypeOK, Handles
<1>2. Tail(queue) \in Seq(Controls) /\ Len(Tail(queue)) = Len(queue) - 1
  BY <1>1 DEF TypeOK
<1>3. Head(queue) \in Controls
  BY <1>1 DEF TypeOK
<1> QED BY <1>1, <1>2, <1>3, GadgetAssumption DEF TypeOK, Handles

\* A step of the control endpoint handler keeps the types.
LEMMA Ep0Typed ==
  ASSUME TypeOK, Ep0Thread \/ Ep0Locks PROVE TypeOK'
<1> USE GadgetAssumption DEF TypeOK, Blocked, AfterLock, AfterSet, AfterKill,
                             ioVars, flagVars, ep0Vars
<1>1. CASE Ep0Loop      BY <1>1 DEF Ep0Loop
<1>2. CASE Ep0Read      BY <1>2 DEF Ep0Read
<1>3. CASE Ep0BatchDone BY <1>3 DEF Ep0BatchDone
<1>4. CASE Enable
  <2>1. stop' \in BOOLEAN /\ condemned' \in BOOLEAN
    BY <1>4, Zenon DEF Enable
  <2> QED BY <2>1, <1>4, HandlesTyped DEF Enable
<1>5. CASE Unconfigure  BY <1>5, HandlesTyped DEF Unconfigure
<1>6. CASE Disable      BY <1>6, HandlesTyped DEF Disable
<1>7. CASE Disconnect   BY <1>7, HandlesTyped DEF Disconnect
<1>8. CASE Cancel       BY <1>8, HandlesTyped DEF Cancel
<1>9. CASE Ep0SetCancel BY <1>9 DEF Ep0SetCancel
<1>10. CASE Ep0Kill     BY <1>10 DEF Ep0Kill, pthread_kill
<1>11. CASE SuspendWait BY <1>11 DEF SuspendWait, pthread_kill
<1>12. CASE DeviceStatus BY <1>12, HandlesTyped DEF DeviceStatus
<1>13. CASE Ep0Join
  <2>1. started' \in BOOLEAN /\ ~started' /\ io' = "off" /\ wake' = "no"
    BY <1>13, Zenon DEF Ep0Join
  <2> QED BY <2>1, <1>13 DEF Ep0Join
<1>14. CASE DisableJoined
  <2>1. stop' \in BOOLEAN
    BY <1>14, Zenon DEF DisableJoined
  <2> QED BY <2>1, <1>14 DEF DisableJoined
<1>15. CASE Deinit      BY <1>15 DEF Deinit
<1>16. CASE MainThread
  <2>1. started' \in BOOLEAN /\ session' \in BOOLEAN /\ stop' \in BOOLEAN /\ link' \in BOOLEAN
    BY <1>16, Zenon DEF MainThread
  <2> QED BY <2>1, <1>16 DEF MainThread
<1>17. CASE Ep0LockCancel BY <1>17 DEF Ep0LockCancel
<1>18. CASE DeviceBusy  BY <1>18 DEF DeviceBusy
<1>19. CASE DisableDrop
  <2>1. session' \in BOOLEAN
    BY <1>19, Zenon DEF DisableDrop
  <2> QED BY <2>1, <1>19 DEF DisableDrop
<1> QED
  BY <1>1, <1>2, <1>3, <1>4, <1>5, <1>6, <1>7, <1>8, <1>9, <1>10, <1>11, <1>12, <1>13,
     <1>14, <1>15, <1>16, <1>17, <1>18, <1>19
  DEF Ep0Thread, Ep0Locks

\* So does an event of the host or the link.
LEMMA ControlTyped ==
  ASSUME TypeOK, NEW c \in Controls, Control(c) PROVE TypeOK'
<1>1. /\ queue' \in Seq(Controls) /\ Len(queue') = Len(queue) + 1
      /\ Len(queue') <= MaxQueue + 1
  BY GadgetAssumption DEF TypeOK, Control
<1> QED BY <1>1, GadgetAssumption DEF TypeOK, Control, Quiet, Blocked, flagVars, AfterLock, AfterSet, AfterKill

\* The states of both threads, the flags they share and the mutexes stay within
\* their types, and a system call is only interrupted while the io thread is in it.
THEOREM TypeCorrect == Spec => []TypeOK
<1>1. TypeOK /\ [Next]_vars => TypeOK'
  <2>1. ASSUME TypeOK, Next PROVE TypeOK'
    BY <2>1, IoTyped, Ep0Typed, ControlTyped DEF Next
  <2>2. ASSUME TypeOK, UNCHANGED vars PROVE TypeOK'
    BY <2>2 DEF TypeOK, vars, ioVars, flagVars, ep0Vars
  <2> QED BY <2>1, <2>2
<1> QED BY InitTyped, <1>1, PTL DEF Spec

-----------------------------------------------------------------------------
(* A host that reads files, lists folders and cancels, over a link that     *)
(* stays up and with a disk that does not fail.                             *)

ReadingHost ==
  /\ "send" \notin Requests /\ Faults \subseteq {"zlp"}
  /\ Controls \subseteq {"up", "cancel", "status"}

\* Under such a host nothing ever stops the responder.
Up ==
  /\ stop = FALSE /\ condemned = FALSE
  /\ io = "lock" => req \in {"open", "get", "list"}
  /\ io = "open_file" \/ InTransfer => req = "get"
  /\ ep0 \in {"loop", "select", "next", "cancel_lock", "cancel_set", "cancel_kill", "busy"}
  /\ io \notin {"off", "ended"} \/ queue # <<>> \/ batch > 0 => link

\* Who holds cancel_mutex.
CancelMutexHeld ==
  /\ cancel_mutex = "io" <=> io \in {"verdict", "zlp"}
  /\ cancel_mutex = "ep0" <=> ep0 \in {"cancel_set", "cancel_kill"}

\* Before the verdict of send_file_data.
Cancellable == io \in {"test", "enter", "transfer", "close_file", "lock_cancel"}

\* The inductive invariant: while ep0 holds the mutex to cancel, the transfer
\* cannot get to its verdict, so that both the flag and the signal find it.
CancelInv ==
  /\ Up /\ CancelMutexHeld
  /\ transferring => io \in {"test", "enter", "transfer", "close_file"}
  /\ ep0 \in {"cancel_set", "cancel_kill"} => Cancellable
  /\ NoStaleCancel
  /\ wake # "no" => io = "transfer"

\* A step of the io thread keeps it.
LEMMA IoCancelInv ==
  ASSUME ReadingHost, TypeOK, CancelInv, IoThread \/ IoLocks \/ IoHost PROVE CancelInv'
<1> USE DEF CancelInv, Up, CancelMutexHeld, Cancellable, NoStaleCancel, InTransfer, TypeOK,
            Blocked, ioVars, flagVars, ep0Vars
<1>1. CASE IoLoop       BY <1>1 DEF IoLoop
<1>2. CASE IoReadFails  BY <1>2 DEF IoReadFails, Fails
<1>3. CASE IoWriteList  BY <1>3 DEF IoWriteList
<1>4. CASE IoTest       BY <1>4 DEF IoTest
<1>5. CASE IoEnter      BY <1>5 DEF IoEnter
<1>6. CASE IoTransferFails BY <1>6 DEF IoTransferFails
<1>7. CASE IoDiskError  BY <1>7 DEF IoDiskError, ReadingHost
<1>8. CASE IoCloseFile  BY <1>8 DEF IoCloseFile
<1>9. CASE IoVerdict    BY <1>9 DEF IoVerdict, ReleasedByIo
<1>10. CASE IoUnlock    BY <1>10 DEF IoUnlock
<1>11. CASE IoAnswer    BY <1>11 DEF IoAnswer
<1>12. CASE AfterWrite  BY <1>12 DEF AfterWrite, ReleasedByIo
<1>13. CASE IoDies      BY <1>13 DEF IoDies
<1>14. CASE IoOpenFails BY <1>14 DEF IoOpenFails
<1>15. ASSUME NEW n \in 0..MaxBlocks, IoOpenFile(n) PROVE CancelInv'
  BY <1>15 DEF IoOpenFile
<1>16. CASE IoLock       BY <1>16 DEF IoLock
<1>17. CASE IoLockCancel BY <1>17 DEF IoLockCancel
<1>18. CASE IoTransferred BY <1>18 DEF IoTransferred
<1>19. ASSUME NEW r \in Requests, IoRequest(r) PROVE CancelInv'
  BY <1>19 DEF IoRequest, ReadingHost
<1> QED
  BY <1>1, <1>2, <1>3, <1>4, <1>5, <1>6, <1>7, <1>8, <1>9, <1>10, <1>11, <1>12, <1>13,
     <1>14, <1>15, <1>16, <1>17, <1>18, <1>19
  DEF IoThread, IoLocks, IoHost, IoWritten, IoWriteFails

\* A step of the control endpoint handler keeps it; those of DISABLE, SUSPEND,
\* DISCONNECT and of the shutdown are not taken.
LEMMA Ep0CancelInv ==
  ASSUME ReadingHost, TypeOK, CancelInv, Ep0Thread \/ Ep0Locks PROVE CancelInv'
<1> USE DEF CancelInv, Up, CancelMutexHeld, Cancellable, NoStaleCancel, InTransfer,
            ioVars, flagVars, ep0Vars
<1>1. ASSUME NEW c, Handles(c) PROVE c \in {"up", "cancel", "status"} /\ link
  BY <1>1, HandlesTyped DEF ReadingHost
<1>2. CASE Ep0Loop      BY <1>2 DEF Ep0Loop
<1>3. CASE Ep0Read      BY <1>3 DEF Ep0Read
<1>4. CASE Ep0BatchDone BY <1>4 DEF Ep0BatchDone
<1>5. CASE Enable       BY <1>1, <1>5 DEF Enable, Handles, TypeOK
<1>6. ~Unconfigure /\ ~Disable /\ ~Disconnect
  BY <1>1 DEF Unconfigure, Disable, Disconnect
<1>7. CASE Cancel
  <2>1. Handles("cancel") /\ ep0' = "cancel_lock"
    BY <1>1, <1>7 DEF Cancel
  <2> QED BY <1>1, <1>7, <2>1 DEF Cancel, Handles
<1>8. CASE Ep0SetCancel BY <1>8 DEF Ep0SetCancel, AfterSet
<1>9. CASE Ep0Kill      BY <1>9 DEF Ep0Kill, pthread_kill, AfterKill, Blocked
<1>10. CASE DeviceStatus BY <1>1, <1>10 DEF DeviceStatus, Handles
<1>11. CASE Ep0LockCancel BY <1>11 DEF Ep0LockCancel, AfterLock
<1>12. CASE DeviceBusy  BY <1>12 DEF DeviceBusy
<1>13. /\ ~SuspendWait /\ ~Ep0Join /\ ~DisableJoined /\ ~Deinit /\ ~MainThread
       /\ ~DisableDrop
  BY DEF SuspendWait, Ep0Join, DisableJoined, Deinit, MainThread, DisableDrop
<1> QED
  BY <1>2, <1>3, <1>4, <1>5, <1>6, <1>7, <1>8, <1>9, <1>10, <1>11, <1>12, <1>13
  DEF Ep0Thread, Ep0Locks

\* So does an event.
LEMMA ControlCancelInv ==
  ASSUME ReadingHost, TypeOK, CancelInv, NEW c \in Controls, Control(c) PROVE CancelInv'
<1>1. c # "down" /\ link'
  BY DEF ReadingHost, Control
<1> QED
  BY <1>1 DEF CancelInv, Up, CancelMutexHeld, Cancellable, NoStaleCancel, InTransfer,
              Control, Quiet, flagVars

\* CancelInv holds in every state when the host only reads.
LEMMA CancelInvCorrect == ASSUME ReadingHost PROVE Spec => []CancelInv
<1>1. Init => CancelInv
  BY DEF Init, CancelInv, Up, CancelMutexHeld, Cancellable, NoStaleCancel, InTransfer
<1>2. TypeOK /\ CancelInv /\ [Next]_vars => CancelInv'
  <2>1. ASSUME TypeOK, CancelInv, Next PROVE CancelInv'
    BY <2>1, IoCancelInv, Ep0CancelInv, ControlCancelInv DEF Next
  <2>2. ASSUME CancelInv, UNCHANGED vars PROVE CancelInv'
    BY <2>2 DEF CancelInv, Up, CancelMutexHeld, Cancellable, NoStaleCancel, InTransfer,
                vars, ioVars, flagVars, ep0Vars
  <2> QED BY <2>1, <2>2
<1> QED BY <1>1, <1>2, TypeCorrect, PTL DEF Spec

\* The cancel of a read is consumed by the transfer it is for: cancel_req is 0
\* whenever the io thread is not in a transfer; for every number of blocks and
\* every interleaving.
THEOREM CancelOfReadCorrect == ASSUME ReadingHost PROVE Spec => []NoStaleCancel
<1>1. CancelInv => NoStaleCancel
  BY DEF CancelInv
<1> QED BY <1>1, CancelInvCorrect, PTL

\* SIGUSR1 never interrupts the wait of the io thread for the next request, which
\* would end it: the signal is sent within cancel_mutex, so that it meets the
\* transfer it is for or no system call at all.
THEOREM CancelSparesReadCorrect == ASSUME ReadingHost PROVE Spec => []CancelSparesRead
<1>1. CancelInv => CancelSparesRead
  BY DEF CancelInv, CancelSparesRead
<1> QED BY <1>1, CancelInvCorrect, PTL

-----------------------------------------------------------------------------
(* The FunctionFS handler: where it and the io thread are.                  *)

\* The DISABLE handler is waiting for the thread.
Disabling == ep0 \in {"kill_lock", "kill_set", "kill_kill", "join"}

\* Where the io thread is within a critical section of inotify_mutex.
Locking == {"reply_list", "list", "open_file", "test", "enter", "transfer", "close_file",
            "lock_cancel", "verdict", "zlp", "unlock"}

\* What the handler's place says of the thread: outside of DISABLE it only stops
\* by its own failed read, which finds it out of any operation.
PlacesInv ==
  /\ queue \in Seq({"up", "down", "cancel", "status"})
  /\ ep0 \notin {"suspend_lock", "suspend_set", "suspend_kill", "suspend_wait"}
  /\ Disabling => stop /\ started
  /\ ep0 = "joined" => stop /\ ~started
  /\ ep0 = "drop" => ~started
  /\ stop /\ ~Disabling => io \in {"loop", "ended", "off"}
  /\ ep0 \in {"leave", "deinit", "exit"} => stop
  /\ condemned => io = "off" \/ ep0 \in {"deinit", "exit"}

\* Who holds the mutexes.
MutexInv ==
  /\ inotify_mutex = "io" <=> io \in Locking
  /\ cancel_mutex = "io" <=> io = "zlp" \/ (io = "verdict" /\ req = "get")
  /\ cancel_mutex = "ep0" <=> ep0 \in {"cancel_set", "cancel_kill", "kill_set", "kill_kill"}
  /\ io \in {"lock_cancel", "zlp"} => req = "get"

HoldersInv == PlacesInv /\ MutexInv

-----------------------------------------------------------------------------
(* The places and the mutexes.                                              *)

\* A step of the io thread keeps them: it is only condemned when it has stopped,
\* so that it never dies within a system call.
LEMMA IoHolders ==
  ASSUME Ffs, TypeOK, HoldersInv, IoThread \/ IoLocks \/ IoHost PROVE HoldersInv'
<1> USE DEF HoldersInv, PlacesInv, MutexInv, Disabling, Locking, TypeOK, Blocked,
            ioVars, flagVars, ep0Vars
<1>1. CASE IoLoop       BY <1>1 DEF IoLoop
<1>2. CASE IoReadFails  BY <1>2 DEF IoReadFails, Fails
<1>3. CASE IoWriteList  BY <1>3 DEF IoWriteList
<1>4. CASE IoTest       BY <1>4 DEF IoTest
<1>5. CASE IoEnter      BY <1>5 DEF IoEnter
<1>6. CASE IoTransferFails BY <1>6 DEF IoTransferFails
<1>7. CASE IoDiskError  BY <1>7 DEF IoDiskError
<1>8. CASE IoCloseFile  BY <1>8 DEF IoCloseFile
<1>9. CASE IoVerdict    BY <1>9 DEF IoVerdict, ReleasedByIo
<1>10. CASE IoUnlock    BY <1>10 DEF IoUnlock
<1>11. CASE IoAnswer    BY <1>11 DEF IoAnswer
<1>12. CASE AfterWrite  BY <1>12 DEF AfterWrite, ReleasedByIo
<1>13. CASE IoDies      BY <1>13 DEF IoDies
<1>14. CASE IoOpenFails BY <1>14 DEF IoOpenFails
<1>15. ASSUME NEW n \in 0..MaxBlocks, IoOpenFile(n) PROVE HoldersInv'
  BY <1>15 DEF IoOpenFile
<1>16. CASE IoLock       BY <1>16 DEF IoLock
<1>17. CASE IoLockCancel BY <1>17 DEF IoLockCancel
<1>18. CASE IoTransferred BY <1>18 DEF IoTransferred
<1>19. ASSUME NEW r \in Requests, IoRequest(r) PROVE HoldersInv'
  BY <1>19 DEF IoRequest
<1> QED
  BY <1>1, <1>2, <1>3, <1>4, <1>5, <1>6, <1>7, <1>8, <1>9, <1>10, <1>11, <1>12, <1>13,
     <1>14, <1>15, <1>16, <1>17, <1>18, <1>19
  DEF IoThread, IoLocks, IoHost, IoWritten, IoWriteFails

\* The handler takes one of the events FunctionFS has.
LEMMA FfsHandles ==
  ASSUME TypeOK, PlacesInv, NEW c, Handles(c)
  PROVE  /\ c \in {"up", "down", "cancel", "status"} /\ ep0 = "next"
         /\ queue' \in Seq({"up", "down", "cancel", "status"})
         /\ Len(queue) > 0 /\ c = Head(queue) /\ queue' = Tail(queue)
<1>1. Len(queue) > 0 /\ queue # <<>>
  BY DEF TypeOK, Handles
<1>2. /\ Head(queue) \in {"up", "down", "cancel", "status"}
      /\ Tail(queue) \in Seq({"up", "down", "cancel", "status"})
  BY <1>1 DEF PlacesInv
<1> QED BY <1>1, <1>2 DEF Handles

\* The control endpoint handler keeps who is where and who has a lock.
LEMMA Ep0Holders ==
  ASSUME Ffs, TypeOK, HoldersInv, Ep0Thread \/ Ep0Locks PROVE HoldersInv'
<1> USE DEF HoldersInv, PlacesInv, MutexInv, Disabling, Locking, ioVars, flagVars, ep0Vars
<1>2. CASE Ep0Loop      BY <1>2 DEF Ep0Loop
<1>3. CASE Ep0Read      BY <1>3 DEF Ep0Read
<1>4. CASE Ep0BatchDone BY <1>4 DEF Ep0BatchDone
<1>5. CASE Enable
  <2>1. ep0 = "next" /\ queue' \in Seq({"up", "down", "cancel", "status"})
    BY <1>5, FfsHandles DEF Enable
  <2>2. ~stop' /\ started' /\ ep0' = "next"
    BY <1>5, Zenon DEF Enable
  <2>3. /\ UNCHANGED <<req, cancel_mutex, inotify_mutex>>
        /\ IF started THEN UNCHANGED <<io, condemned>> ELSE io' = "loop" /\ ~condemned'
    BY <1>5, Zenon DEF Enable
  <2> QED BY <2>1, <2>2, <2>3 DEF TypeOK
<1>6. ~Unconfigure /\ ~Disconnect /\ ~SuspendWait
  BY FfsHandles DEF Unconfigure, Disconnect, SuspendWait
<1>7. CASE Disable      BY <1>7, FfsHandles DEF Disable, TypeOK
<1>8. CASE Cancel
  <2>1. Handles("cancel") /\ ep0' = "cancel_lock"
    BY <1>8, FfsHandles DEF Cancel
  <2> QED BY <1>8, <2>1, FfsHandles DEF Cancel
<1>9. CASE Ep0SetCancel BY <1>9 DEF Ep0SetCancel, AfterSet
<1>10. CASE Ep0Kill     BY <1>10 DEF Ep0Kill, AfterKill
<1>11. CASE DeviceStatus BY <1>11, FfsHandles DEF DeviceStatus
<1>12. CASE Ep0Join     BY <1>12 DEF Ep0Join
<1>13. CASE DisableJoined BY <1>13 DEF DisableJoined, TypeOK
<1>14. CASE Deinit      BY <1>14 DEF Deinit, TypeOK
<1>15. CASE MainThread
  <2>1. queue' = <<>> /\ io' = "off" /\ ~started' /\ ep0 = "deinit" /\ stop
    BY <1>15 DEF MainThread
  <2>2. /\ ep0' = (IF LoopOnDisconnect THEN "loop" ELSE "exit")
        /\ ep0' = "exit" => stop'
    BY <1>15 DEF MainThread
  <2>3. UNCHANGED <<req, cancel_mutex, inotify_mutex, condemned>>
    BY <1>15 DEF MainThread
  <2>4. queue' \in Seq({"up", "down", "cancel", "status"})
    BY <2>1
  <2>5. ep0' \in {"loop", "exit"}
    BY <2>2
  <2>6. PlacesInv'
    BY <2>1, <2>2, <2>3, <2>4, <2>5
  <2>7. io \in {"loop", "ended", "off"}
    BY <2>1
  <2>8. MutexInv'
    BY <2>1, <2>3, <2>5, <2>7
  <2> QED BY <2>6, <2>8
<1>16. CASE Ep0LockCancel BY <1>16 DEF Ep0LockCancel, AfterLock
<1>17. CASE DeviceBusy  BY <1>17 DEF DeviceBusy
<1>18. CASE DisableDrop BY <1>18 DEF DisableDrop, TypeOK
<1> QED
  BY <1>2, <1>3, <1>4, <1>5, <1>6, <1>7, <1>8, <1>9, <1>10, <1>11, <1>12, <1>13, <1>14,
     <1>15, <1>16, <1>17, <1>18
  DEF Ep0Thread, Ep0Locks

\* So does an event that comes in.
LEMMA ControlHolders ==
  ASSUME Ffs, TypeOK, HoldersInv, NEW c \in Controls, Control(c) PROVE HoldersInv'
<1>1. c \in {"up", "down", "cancel", "status"}
  BY GadgetAssumption DEF Control
<1>2. queue' \in Seq({"up", "down", "cancel", "status"})
  BY <1>1 DEF Control, HoldersInv, PlacesInv
<1> QED BY <1>2 DEF HoldersInv, PlacesInv, MutexInv, Disabling, Control, Quiet

\* Every step keeps HoldersInv.
LEMMA HoldersStep ==
  ASSUME Ffs, TypeOK, HoldersInv, [Next]_vars PROVE HoldersInv'
<1>1. CASE Next
  BY <1>1, IoHolders, Ep0Holders, ControlHolders DEF Next
<1>2. CASE UNCHANGED vars
  BY <1>2 DEF HoldersInv, PlacesInv, MutexInv, Disabling, vars, ioVars, flagVars, ep0Vars
<1> QED BY <1>1, <1>2

\* HoldersInv holds in every state.
LEMMA HoldersCorrect == ASSUME Ffs PROVE Spec => []HoldersInv
<1>1. Init => HoldersInv
  <2>1. Init => queue \in Seq({"up", "down", "cancel", "status"})
    BY DEF Init
  <2> QED BY <2>1 DEF Init, HoldersInv, PlacesInv, MutexInv, Disabling, Locking
<1>2. TypeOK /\ HoldersInv /\ [Next]_vars => HoldersInv'
  BY HoldersStep
<1> QED BY TypeCorrect, <1>1, <1>2, PTL DEF Spec

\* Over FunctionFS no thread ends with inotify_mutex, though pthread_cancel is
\* called for it and though the link is lost within an operation: whatever the
\* host asks for, and with files that cannot be read.
THEOREM LockHolderAliveCorrect == ASSUME Ffs PROVE Spec => []LockHolderAlive
<1>1. HoldersInv => LockHolderAlive
  BY DEF HoldersInv, MutexInv, Locking, LockHolderAlive
<1> QED BY HoldersCorrect, <1>1, PTL

-----------------------------------------------------------------------------
(* What a thread that is gone has left.                                     *)

LeftInv ==
  /\ transferring => io \in {"test", "enter", "transfer", "close_file"}
  /\ ~started /\ session => ep0 \in {"joined", "drop"}
  /\ ~started /\ stop => ep0 \in {"joined", "exit"}

\* The io thread keeps LeftInv: it leaves its loop with nothing of a transfer left.
LEMMA IoLeft ==
  ASSUME Ffs, "disk" \notin Faults, TypeOK, HoldersInv, LeftInv, IoThread \/ IoLocks \/ IoHost
  PROVE  LeftInv'
<1> USE DEF LeftInv, TypeOK, Blocked, ioVars, flagVars, ep0Vars
<1>1. CASE IoLoop       BY <1>1 DEF IoLoop
<1>2. CASE IoReadFails  BY <1>2 DEF IoReadFails, Fails
<1>3. CASE IoWriteList  BY <1>3 DEF IoWriteList
<1>4. CASE IoTest       BY <1>4 DEF IoTest
<1>5. CASE IoEnter      BY <1>5 DEF IoEnter
<1>6. CASE IoTransferFails BY <1>6 DEF IoTransferFails
<1>7. CASE IoDiskError  BY <1>7 DEF IoDiskError
<1>8. CASE IoCloseFile  BY <1>8 DEF IoCloseFile
<1>9. CASE IoVerdict    BY <1>9 DEF IoVerdict, ReleasedByIo
<1>10. CASE IoUnlock    BY <1>10 DEF IoUnlock
<1>11. CASE IoAnswer    BY <1>11 DEF IoAnswer
<1>12. CASE AfterWrite  BY <1>12 DEF AfterWrite, ReleasedByIo
<1>13. CASE IoDies      BY <1>13 DEF IoDies, HoldersInv, PlacesInv, Disabling
<1>14. CASE IoOpenFails BY <1>14 DEF IoOpenFails
<1>15. ASSUME NEW n \in 0..MaxBlocks, IoOpenFile(n) PROVE LeftInv'
  BY <1>15 DEF IoOpenFile
<1>16. CASE IoLock       BY <1>16 DEF IoLock
<1>17. CASE IoLockCancel BY <1>17 DEF IoLockCancel
<1>18. CASE IoTransferred BY <1>18 DEF IoTransferred
<1>19. ASSUME NEW r \in Requests, IoRequest(r) PROVE LeftInv'
  BY <1>19 DEF IoRequest
<1> QED
  BY <1>1, <1>2, <1>3, <1>4, <1>5, <1>6, <1>7, <1>8, <1>9, <1>10, <1>11, <1>12, <1>13,
     <1>14, <1>15, <1>16, <1>17, <1>18, <1>19
  DEF IoThread, IoLocks, IoHost, IoWritten, IoWriteFails

\* The handler keeps LeftInv.
LEMMA Ep0Left ==
  ASSUME Ffs, TypeOK, HoldersInv, LeftInv, Ep0Thread \/ Ep0Locks PROVE LeftInv'
<1> USE DEF LeftInv, ioVars, flagVars, ep0Vars
<1>1. PlacesInv
  BY DEF HoldersInv
<1>2. CASE Ep0Loop      BY <1>1, <1>2 DEF Ep0Loop
<1>3. CASE Ep0Read      BY <1>3 DEF Ep0Read
<1>4. CASE Ep0BatchDone BY <1>4 DEF Ep0BatchDone
<1>5. CASE Enable       BY <1>1, <1>5, FfsHandles DEF Enable, TypeOK
<1>6. ~Unconfigure /\ ~Disconnect /\ ~SuspendWait
  BY <1>1, FfsHandles DEF Unconfigure, Disconnect, SuspendWait, PlacesInv
<1>7. CASE Disable      BY <1>1, <1>7, FfsHandles DEF Disable, TypeOK
<1>8. CASE Cancel
  <2>1. Handles("cancel") /\ ep0' = "cancel_lock"
    BY <1>1, <1>8, FfsHandles DEF Cancel
  <2> QED BY <1>1, <1>8, <2>1, FfsHandles DEF Cancel
<1>9. CASE Ep0SetCancel BY <1>9 DEF Ep0SetCancel, AfterSet
<1>10. CASE Ep0Kill     BY <1>10 DEF Ep0Kill, AfterKill
<1>11. CASE DeviceStatus BY <1>1, <1>11, FfsHandles DEF DeviceStatus
<1>12. CASE Ep0Join     BY <1>1, <1>12 DEF Ep0Join, PlacesInv, Disabling
<1>13. CASE DisableJoined BY <1>1, <1>13 DEF DisableJoined, PlacesInv
<1>14. CASE Deinit      BY <1>1, <1>14 DEF Deinit, PlacesInv
<1>15. CASE MainThread
  <2>1. ~transferring
    BY <1>15 DEF MainThread, TypeOK
  <2> QED BY <1>15, <2>1 DEF MainThread
<1>16. CASE Ep0LockCancel BY <1>1, <1>16 DEF Ep0LockCancel, AfterLock
<1>17. CASE DeviceBusy  BY <1>17 DEF DeviceBusy
<1>18. CASE DisableDrop BY <1>18 DEF DisableDrop
<1> QED
  BY <1>2, <1>3, <1>4, <1>5, <1>6, <1>7, <1>8, <1>9, <1>10, <1>11, <1>12, <1>13, <1>14,
     <1>15, <1>16, <1>17, <1>18
  DEF Ep0Thread, Ep0Locks

\* LeftInv holds in every state.
LEMMA LeftCorrect == ASSUME Ffs, "disk" \notin Faults PROVE Spec => []LeftInv
<1>1. Init => LeftInv
  BY DEF Init, LeftInv
<1>2. TypeOK /\ HoldersInv /\ LeftInv /\ [Next]_vars => LeftInv'
  <2>1. ASSUME TypeOK, HoldersInv, LeftInv, NEW c \in Controls, Control(c) PROVE LeftInv'
    BY <2>1 DEF LeftInv, Control, Quiet, flagVars
  <2>2. ASSUME LeftInv, UNCHANGED vars PROVE LeftInv'
    BY <2>2 DEF LeftInv, vars, ioVars, flagVars, ep0Vars
  <2> QED BY <2>1, <2>2, IoLeft, Ep0Left DEF Next
<1> QED BY TypeCorrect, HoldersCorrect, <1>1, <1>2, PTL DEF Spec

\* When the DISABLE handler is done, nothing is left of its thread: no session,
\* no transfer, no mutex, no stop that would keep the next thread from running;
\* wherever the link was lost and whatever was cancelled, as long as no file read
\* failed within send_file_data.
THEOREM CleanAfterDisableCorrect ==
  ASSUME Ffs, "disk" \notin Faults PROVE Spec => []CleanAfterDisable
<1>1. TypeOK /\ HoldersInv /\ LeftInv => CleanAfterDisable
  BY DEF TypeOK, HoldersInv, MutexInv, Locking, LeftInv, CleanAfterDisable
<1> QED BY TypeCorrect, HoldersCorrect, LeftCorrect, <1>1, PTL

-----------------------------------------------------------------------------
(* The link and the events.                                                 *)

FfsEvents == {"up", "down", "cancel", "status"}

\* What the handler knows of the link, the events q it has still to take, and the
\* event that can come next, where it is up (s) for the handler and (l) in fact.
Dir(b) == IF b THEN "up" ELSE "down"
Event(q, s, l, i) == IF i = 0 THEN Dir(s) ELSE IF i = Len(q) + 1 THEN Dir(~l) ELSE q[i]

\* Between two that are alike there is one of the other kind.
Alternate(q, s, l) ==
  \A j \in 1..Len(q) + 1 : \A i \in 0..j - 1 :
    Event(q, s, l, i) = Event(q, s, l, j) /\ Event(q, s, l, i) \in {"up", "down"} =>
      \E k \in i + 1..j - 1 : q[k] \in {"up", "down"} \ {Event(q, s, l, i)}

\* Where no event is left the handler knows the link as it is.
LEMMA NothingLeft ==
  ASSUME NEW s \in BOOLEAN, NEW l \in BOOLEAN PROVE Alternate(<<>>, s, l) <=> s = l
<1>1. Len(<<>>) = 0 /\ 1..1 = {1} /\ 0..0 = {0} /\ 1..0 = {}
  OBVIOUS
<1>2. Event(<<>>, s, l, 0) = Dir(s) /\ Event(<<>>, s, l, 1) = Dir(~l)
  BY <1>1 DEF Event
<1>3. Alternate(<<>>, s, l) <=> ~(Dir(s) = Dir(~l) /\ Dir(s) \in {"up", "down"})
  BY <1>1, <1>2 DEF Alternate
<1> QED BY <1>3 DEF Dir

\* The kernel adds an event: of another kind, or of the one that can come next.
LEMMA EventAdded ==
  ASSUME NEW q \in Seq(FfsEvents), NEW s \in BOOLEAN, NEW l \in BOOLEAN, NEW m \in BOOLEAN,
         NEW c \in FfsEvents, Alternate(q, s, l),
         \/ c \notin {"up", "down"} /\ m = l
         \/ c = Dir(m) /\ m = ~l
  PROVE  Alternate(Append(q, c), s, m)
<1> DEFINE n == Len(q)
           r == Append(q, c)
<1>1. n \in Nat /\ Len(r) = n + 1 /\ r[n + 1] = c /\ \A i \in 1..n : r[i] = q[i]
  OBVIOUS
<1>2. \A i \in 0..n : Event(r, s, m, i) = Event(q, s, l, i)
  BY <1>1 DEF Event
<1>3. Event(r, s, m, n + 1) = c /\ Event(r, s, m, n + 2) = Dir(~m) /\ Event(q, s, l, n + 1) = Dir(~l)
  BY <1>1 DEF Event
<1> SUFFICES ASSUME NEW j \in 1..n + 2, NEW i \in 0..j - 1,
                    Event(r, s, m, i) = Event(r, s, m, j), Event(r, s, m, i) \in {"up", "down"}
             PROVE  \E k \in i + 1..j - 1 : r[k] \in {"up", "down"} \ {Event(r, s, m, i)}
  BY <1>1 DEF Alternate
<1> HIDE DEF r, n
<1>4. ASSUME NEW b \in 1..n + 1, NEW a \in 0..b - 1, Event(q, s, l, a) = Event(q, s, l, b),
             Event(q, s, l, a) \in {"up", "down"}
      PROVE  \E k \in a + 1..b - 1 : k \in 1..n /\ q[k] \in {"up", "down"} \ {Event(q, s, l, a)}
  <2>1. \E k \in a + 1..b - 1 : q[k] \in {"up", "down"} \ {Event(q, s, l, a)}
    BY <1>4 DEF Alternate, n
  <2> QED BY <1>1, <2>1
<1>5. CASE j \in 1..n
  <2>1. i \in 0..n /\ Event(q, s, l, i) = Event(q, s, l, j) /\ Event(q, s, l, i) = Event(r, s, m, i)
    BY <1>1, <1>2, <1>5
  <2>2. j \in 1..n + 1 /\ Event(q, s, l, i) \in {"up", "down"}
    BY <1>1, <1>5, <2>1
  <2>3. PICK k \in i + 1..j - 1 : k \in 1..n /\ q[k] \in {"up", "down"} \ {Event(q, s, l, i)}
    BY <1>4, <2>1, <2>2
  <2> QED BY <1>1, <2>1, <2>3
<1>6. CASE j = n + 1
  <2>1. c = Dir(~l) /\ i \in 0..n /\ Event(q, s, l, i) = Event(r, s, m, i)
    BY <1>1, <1>2, <1>3, <1>6
  <2>2. Event(q, s, l, i) = Event(q, s, l, n + 1)
    BY <1>3, <1>6, <2>1
  <2>3. PICK k \in i + 1..(n + 1) - 1 : k \in 1..n /\ q[k] \in {"up", "down"} \ {Event(q, s, l, i)}
    BY <1>1, <1>4, <2>1, <2>2
  <2> QED BY <1>1, <1>6, <2>1, <2>3
<1>7. CASE j = n + 2
  <2>1. CASE c \notin {"up", "down"} /\ m = l
    <3>1. i \in 0..n /\ Event(q, s, l, i) = Event(r, s, m, i)
      BY <1>1, <1>2, <1>3, <1>7, <2>1
    <3>2. Event(q, s, l, i) = Event(q, s, l, n + 1)
      BY <1>3, <1>7, <2>1, <3>1
    <3>3. PICK k \in i + 1..(n + 1) - 1 : k \in 1..n /\ q[k] \in {"up", "down"} \ {Event(q, s, l, i)}
      BY <1>1, <1>4, <3>1, <3>2
    <3> QED BY <1>1, <1>7, <3>1, <3>3
  <2>2. CASE c = Dir(m) /\ m = ~l
    <3>1. c # Dir(~m) /\ c \in {"up", "down"}
      BY <2>2 DEF Dir
    <3>2. i \in 0..n /\ Event(r, s, m, i) = Dir(~m)
      BY <1>1, <1>3, <1>7, <3>1
    <3>3. n + 1 \in i + 1..j - 1 /\ r[n + 1] \in {"up", "down"} \ {Event(r, s, m, i)}
      BY <1>1, <1>7, <3>1, <3>2
    <3> QED BY <3>3
  <2> QED BY <2>1, <2>2
<1> QED BY <1>1, <1>5, <1>6, <1>7

\* The handler takes an event: of another kind, or it knows of the link by it.
LEMMA EventTaken ==
  ASSUME NEW q \in Seq(FfsEvents), NEW s \in BOOLEAN, NEW t \in BOOLEAN, NEW l \in BOOLEAN,
         Len(q) > 0, Alternate(q, s, l),
         \/ Head(q) \notin {"up", "down"} /\ t = s
         \/ Head(q) = Dir(t)
  PROVE  Alternate(Tail(q), t, l)
<1> DEFINE n == Len(q)
           r == Tail(q)
<1>1. n \in Nat \ {0} /\ Len(r) = n - 1 /\ q[1] = Head(q) /\ \A i \in 1..n - 1 : r[i] = q[i + 1]
  OBVIOUS
<1>2. ASSUME NEW i \in 1..n PROVE Event(r, t, l, i) = Event(q, s, l, i + 1)
  <2> HIDE DEF r
  <2>1. CASE i = n
    <3>1. Event(r, t, l, i) = Dir(~l)
      BY <1>1, <2>1 DEF Event
    <3>2. Event(q, s, l, i + 1) = Dir(~l)
      BY <1>1, <2>1 DEF Event
    <3> QED BY <3>1, <3>2
  <2>2. CASE i # n
    <3>1. i \in 1..n - 1
      BY <1>1, <2>2
    <3>2. Event(r, t, l, i) = r[i]
      BY <1>1, <3>1 DEF Event
    <3>3. Event(q, s, l, i + 1) = q[i + 1]
      BY <1>1, <3>1 DEF Event
    <3> QED BY <1>1, <3>1, <3>2, <3>3
  <2> QED BY <2>1, <2>2
<1>3. Event(r, t, l, 0) = Dir(t) /\ Event(q, s, l, 0) = Dir(s) /\ Event(q, s, l, 1) = Head(q)
  BY <1>1 DEF Event
<1> SUFFICES ASSUME NEW j \in 1..n, NEW i \in 0..j - 1,
                    Event(r, t, l, i) = Event(r, t, l, j), Event(r, t, l, i) \in {"up", "down"}
             PROVE  \E k \in i + 1..j - 1 : r[k] \in {"up", "down"} \ {Event(r, t, l, i)}
  BY <1>1 DEF Alternate
<1> HIDE DEF r, n
<1>4. ASSUME NEW b \in 1..n + 1, NEW a \in 0..b - 1, Event(q, s, l, a) = Event(q, s, l, b),
             Event(q, s, l, a) \in {"up", "down"}
      PROVE  \E k \in a + 1..b - 1 : k \in 1..n /\ q[k] \in {"up", "down"} \ {Event(q, s, l, a)}
  <2>1. \E k \in a + 1..b - 1 : q[k] \in {"up", "down"} \ {Event(q, s, l, a)}
    BY <1>4 DEF Alternate, n
  <2> QED BY <1>1, <2>1
<1>5. CASE i # 0 \/ Head(q) = Dir(t)
  <2>1. Event(q, s, l, i + 1) = Event(r, t, l, i) /\ Event(q, s, l, j + 1) = Event(r, t, l, j)
    BY <1>1, <1>2, <1>3, <1>5
  <2>2. PICK k \in (i + 1) + 1..(j + 1) - 1 :
          k \in 1..n /\ q[k] \in {"up", "down"} \ {Event(q, s, l, i + 1)}
    BY <1>1, <1>4, <2>1
  <2>3. k - 1 \in i + 1..j - 1 /\ k - 1 \in 1..n - 1 /\ r[k - 1] = q[k]
    BY <1>1, <2>2
  <2> QED BY <2>1, <2>2, <2>3
<1>6. CASE i = 0 /\ Head(q) \notin {"up", "down"} /\ t = s
  <2>1. Event(q, s, l, 0) = Event(r, t, l, 0) /\ Event(q, s, l, j + 1) = Event(r, t, l, j)
    BY <1>1, <1>2, <1>3, <1>6
  <2>2. PICK k \in 0 + 1..(j + 1) - 1 : k \in 1..n /\ q[k] \in {"up", "down"} \ {Event(q, s, l, 0)}
    BY <1>1, <1>4, <1>6, <2>1
  <2>3. k # 1
    BY <1>1, <1>6, <2>2
  <2>4. k - 1 \in i + 1..j - 1 /\ k - 1 \in 1..n - 1 /\ r[k - 1] = q[k]
    BY <1>1, <1>6, <2>2, <2>3
  <2> QED BY <1>6, <2>1, <2>2, <2>4
<1> QED BY <1>5, <1>6

\* The first event is none the handler knows already.
LEMMA FirstIsNew ==
  ASSUME NEW q \in Seq(FfsEvents), NEW s \in BOOLEAN, NEW l \in BOOLEAN, Len(q) > 0,
         Alternate(q, s, l)
  PROVE  Head(q) # Dir(s)
<1>1. Event(q, s, l, 0) = Dir(s) /\ Event(q, s, l, 1) = Head(q) /\ Dir(s) \in {"up", "down"}
  BY DEF Event, Dir
<1>2. 1 \in 1..Len(q) + 1 /\ 0 \in 0..1 - 1 /\ 0 + 1..1 - 1 = {}
  OBVIOUS
<1> QED BY <1>1, <1>2 DEF Alternate

-----------------------------------------------------------------------------
(* The thread is there while the link is.                                   *)

\* The handler takes the link for up.
Knows == started /\ ~Disabling

DownPending == \E i \in 1..Len(queue) : queue[i] = "down"

\* A signal outside of DISABLE only meets a transfer.
SignalInv ==
  /\ io = "lock" => req \in {"open", "get", "list"}
  /\ io = "open_file" \/ InTransfer => req = "get"
  /\ ep0 \in {"cancel_set", "cancel_kill"} => Cancellable
  /\ wake = "signal" => io = "transfer" \/ Disabling

\* The thread only stops for a loss of the link the handler has still to take.
LinkInv ==
  /\ Alternate(queue, Knows, link)
  /\ Knows /\ (stop \/ io = "ended" \/ wake = "link") => DownPending

\* The io thread keeps SignalInv: it clears the cancel that ended its call.
LEMMA IoSignal ==
  ASSUME Ffs, "disk" \notin Faults, "send" \notin Requests, TypeOK, HoldersInv, SignalInv,
         IoThread \/ IoLocks \/ IoHost
  PROVE  SignalInv'
<1> USE DEF SignalInv, Disabling, Cancellable, InTransfer, TypeOK, Blocked,
            ioVars, flagVars, ep0Vars
<1>1. CASE IoLoop       BY <1>1 DEF IoLoop
<1>2. CASE IoReadFails  BY <1>2 DEF IoReadFails, Fails
<1>3. CASE IoWriteList  BY <1>3 DEF IoWriteList
<1>4. CASE IoTest       BY <1>4 DEF IoTest
<1>5. CASE IoEnter      BY <1>5 DEF IoEnter
<1>6. CASE IoTransferFails BY <1>6 DEF IoTransferFails
<1>7. CASE IoDiskError  BY <1>7 DEF IoDiskError
<1>8. CASE IoCloseFile  BY <1>8 DEF IoCloseFile
<1>9. CASE IoVerdict    BY <1>9 DEF IoVerdict, ReleasedByIo
<1>10. CASE IoUnlock    BY <1>10 DEF IoUnlock
<1>11. CASE IoAnswer    BY <1>11 DEF IoAnswer
<1>12. CASE AfterWrite  BY <1>12 DEF AfterWrite, ReleasedByIo
<1>13. CASE IoDies      BY <1>13 DEF IoDies, HoldersInv, PlacesInv
<1>14. CASE IoOpenFails BY <1>14 DEF IoOpenFails
<1>15. ASSUME NEW n \in 0..MaxBlocks, IoOpenFile(n) PROVE SignalInv'
  BY <1>15 DEF IoOpenFile
<1>16. CASE IoLock       BY <1>16 DEF IoLock
<1>17. CASE IoLockCancel BY <1>17 DEF IoLockCancel, HoldersInv, MutexInv
<1>18. CASE IoTransferred BY <1>18 DEF IoTransferred
<1>19. ASSUME NEW r \in Requests, IoRequest(r) PROVE SignalInv'
  BY <1>19, GadgetAssumption DEF IoRequest
<1> QED
  BY <1>1, <1>2, <1>3, <1>4, <1>5, <1>6, <1>7, <1>8, <1>9, <1>10, <1>11, <1>12, <1>13,
     <1>14, <1>15, <1>16, <1>17, <1>18, <1>19
  DEF IoThread, IoLocks, IoHost, IoWritten, IoWriteFails

\* The handler keeps SignalInv: it signals within a transfer only.
LEMMA Ep0Signal ==
  ASSUME Ffs, TypeOK, HoldersInv, LeftInv, SignalInv, Ep0Thread \/ Ep0Locks PROVE SignalInv'
<1> USE DEF SignalInv, Disabling, Cancellable, InTransfer, ioVars, flagVars, ep0Vars
<1>1. PlacesInv
  BY DEF HoldersInv
<1>2. CASE Ep0Loop      BY <1>2 DEF Ep0Loop
<1>3. CASE Ep0Read      BY <1>3 DEF Ep0Read
<1>4. CASE Ep0BatchDone BY <1>4 DEF Ep0BatchDone
<1>5. CASE Enable       BY <1>1, <1>5, FfsHandles DEF Enable, TypeOK, Blocked
<1>6. ~Unconfigure /\ ~Disconnect /\ ~SuspendWait
  BY <1>1, FfsHandles DEF Unconfigure, Disconnect, SuspendWait, PlacesInv
<1>7. CASE Disable
  <2>1. ep0 = "next" /\ ep0' \in {"joined", "kill_lock", "join"} /\ UNCHANGED ioVars
    BY <1>1, <1>7, FfsHandles DEF Disable
  <2> QED BY <2>1
<1>8. CASE Cancel
  <2>1. Handles("cancel") /\ ep0' = "cancel_lock" /\ ep0 = "next"
    BY <1>1, <1>8, FfsHandles DEF Cancel
  <2>2. UNCHANGED ioVars
    BY <1>8 DEF Cancel
  <2> QED BY <2>1, <2>2
<1>9. CASE Ep0SetCancel BY <1>9 DEF Ep0SetCancel, AfterSet
<1>10. CASE Ep0Kill
  <2>1. ep0 \in {"cancel_kill", "kill_kill"} /\ (ep0 = "kill_kill" => ep0' = "join")
    BY <1>1, <1>10 DEF Ep0Kill, AfterKill, PlacesInv
  <2>2. ep0 = "cancel_kill" => (io \in Blocked => io = "transfer")
    BY DEF Blocked
  <2>3. ep0' \in {"next", "join"} /\ UNCHANGED <<io, req>>
    BY <1>10, <2>1 DEF Ep0Kill, AfterKill
  <2>4. wake' = "signal" => wake = "signal" \/ io \in Blocked
    BY <1>10 DEF Ep0Kill, pthread_kill
  <2> QED BY <2>1, <2>2, <2>3, <2>4
<1>11. CASE DeviceStatus BY <1>1, <1>11, FfsHandles DEF DeviceStatus
<1>12. CASE Ep0Join     BY <1>12 DEF Ep0Join, TypeOK, Blocked
<1>13. CASE DisableJoined BY <1>13 DEF DisableJoined
<1>14. CASE Deinit      BY <1>14 DEF Deinit
<1>15. CASE MainThread
  <2>1. io = "ended" \/ io = "off"
    BY <1>15 DEF MainThread, TypeOK
  <2>2. wake = "no" /\ wake' = wake /\ io' = "off" /\ ep0' \in {"loop", "exit"}
    BY <1>15, <2>1 DEF MainThread, TypeOK, Blocked
  <2> QED BY <2>2
<1>16. CASE Ep0LockCancel BY <1>16 DEF Ep0LockCancel, AfterLock, LeftInv
<1>17. CASE DeviceBusy  BY <1>17 DEF DeviceBusy
<1>18. CASE DisableDrop BY <1>18 DEF DisableDrop
<1> QED
  BY <1>2, <1>3, <1>4, <1>5, <1>6, <1>7, <1>8, <1>9, <1>10, <1>11, <1>12, <1>13, <1>14,
     <1>15, <1>16, <1>17, <1>18
  DEF Ep0Thread, Ep0Locks

\* A step of the io thread: it stops where its read fails, and that is where the
\* link was lost.
LEMMA IoLink ==
  ASSUME Ffs, TypeOK, HoldersInv, SignalInv, LinkInv, IoThread \/ IoLocks \/ IoHost
  PROVE  LinkInv'
<1> USE DEF ioVars, flagVars, ep0Vars
<1>1. UNCHANGED <<queue, link, started, ep0>>
  BY DEF IoThread, IoLocks, IoHost, IoWritten, IoWriteFails, IoLoop, IoReadFails, IoWriteList,
         IoTest, IoEnter, IoTransferFails, IoDiskError, IoCloseFile, IoVerdict, IoUnlock,
         IoAnswer, AfterWrite, IoDies, IoOpenFails, IoOpenFile, IoLock, IoLockCancel,
         IoTransferred, IoRequest
<1>2. Knows' = Knows /\ DownPending' = DownPending
  BY <1>1 DEF Knows, Disabling, DownPending
<1>3. Alternate(queue, Knows, link)'
  <2>1. Alternate(queue, Knows, link)
    BY DEF LinkInv
  <2> QED BY <1>1, <1>2, <2>1
<1>4. ASSUME Knows, stop' \/ io' = "ended" \/ wake' = "link" PROVE DownPending
  <2>1. CASE stop \/ io = "ended" \/ wake = "link"
    BY <1>4, <2>1 DEF LinkInv
  <2>2. CASE IoReadFails
    <3>1. io = "read" /\ wake # "no"
      BY <2>2 DEF IoReadFails, Fails
    <3>2. wake # "signal"
      BY <1>4, <3>1 DEF SignalInv, Knows
    <3> QED BY <2>1, <3>1, <3>2 DEF TypeOK
  <2>3. CASE IoDies
    BY <2>3 DEF IoDies, HoldersInv, PlacesInv, Disabling, Blocked
  <2>4. CASE ~IoReadFails /\ ~IoDies
    <3>1. (stop' => stop) /\ (io' = "ended" => stop) /\ (wake' = "link" => wake = "link")
      BY <2>4 DEF IoThread, IoLocks, IoHost, IoWritten, IoWriteFails, IoLoop, IoWriteList,
           IoTest, IoEnter, IoTransferFails, IoDiskError, IoCloseFile, IoVerdict, IoUnlock,
           IoAnswer, AfterWrite, IoOpenFails, IoOpenFile, IoLock, IoLockCancel,
           IoTransferred, IoRequest
    <3> QED BY <1>4, <2>1, <3>1
  <2> QED BY <2>2, <2>3, <2>4
<1> QED BY <1>2, <1>3, <1>4 DEF LinkInv

\* A loss of the link that is not the event taken is still to come.
LEMMA PendingTaken ==
  ASSUME NEW q \in Seq(FfsEvents), Len(q) > 0, Head(q) # "down",
         \E i \in 1..Len(q) : q[i] = "down"
  PROVE  \E i \in 1..Len(Tail(q)) : Tail(q)[i] = "down"
<1>1. PICK i \in 1..Len(q) : q[i] = "down"
  OBVIOUS
<1>2. Len(Tail(q)) = Len(q) - 1 /\ \A k \in 1..Len(q) - 1 : Tail(q)[k] = q[k + 1]
  OBVIOUS
<1>3. i # 1
  BY <1>1
<1>4. i - 1 \in 1..Len(q) - 1 /\ (i - 1) + 1 = i
  BY <1>3
<1> QED BY <1>1, <1>2, <1>4

\* A step of the handler: by DISABLE it takes the loss of the link, by ENABLE it
\* starts a new thread, for it has none.
LEMMA Ep0Link ==
  ASSUME Ffs, TypeOK, HoldersInv, LinkInv, Ep0Thread \/ Ep0Locks PROVE LinkInv'
<1> USE DEF ioVars, flagVars, ep0Vars
<1>1. PlacesInv /\ queue \in Seq(FfsEvents) /\ link \in BOOLEAN /\ Knows \in BOOLEAN
  BY DEF HoldersInv, PlacesInv, TypeOK, FfsEvents, Knows, Disabling
<1>2. Alternate(queue, Knows, link)
  BY DEF LinkInv
<1>3. ASSUME UNCHANGED <<queue, link>>, Knows' = Knows,
             Knows => (stop' => stop) /\ (io' = "ended" => io = "ended")
                      /\ (wake' = "link" => wake = "link")
      PROVE  LinkInv'
  BY <1>3 DEF LinkInv, DownPending
<1>4. CASE Ep0Loop \/ Ep0Read \/ Ep0BatchDone \/ Ep0SetCancel \/ DeviceBusy
  <2>1. UNCHANGED <<queue, link, started, stop, io, wake>>
    BY <1>4 DEF Ep0Loop, Ep0Read, Ep0BatchDone, Ep0SetCancel, DeviceBusy
  <2>2. \/ ep0 \in DOMAIN AfterSet /\ ep0' = AfterSet[ep0]
        \/ /\ ep0 \in {"loop", "select", "next", "busy"}
           /\ ep0' \in {"leave", "select", "next", "loop"}
    BY <1>4 DEF Ep0Loop, Ep0Read, Ep0BatchDone, Ep0SetCancel, DeviceBusy
  <2>3. Knows' = Knows
    BY <2>1, <2>2 DEF Knows, Disabling, AfterSet
  <2> QED BY <1>3, <2>1, <2>3
<1>5. CASE Ep0LockCancel
  <2>1. Knows' = Knows
    BY <1>5 DEF Ep0LockCancel, AfterLock, Knows, Disabling
  <2> QED BY <1>3, <1>5, <2>1 DEF Ep0LockCancel
<1>6. CASE Ep0Kill
  <2>1. Knows' = Knows
    BY <1>6 DEF Ep0Kill, AfterKill, Knows, Disabling
  <2> QED BY <1>3, <1>6, <2>1 DEF Ep0Kill, pthread_kill
<1>7. CASE DisableDrop \/ DisableJoined
  <2>1. Knows' = FALSE /\ Knows = FALSE
    BY <1>1, <1>7 DEF DisableDrop, DisableJoined, PlacesInv, Knows, Disabling
  <2> QED BY <1>3, <1>7, <2>1 DEF DisableDrop, DisableJoined
<1>8. CASE Ep0Join
  <2>1. Knows' = FALSE /\ Knows = FALSE
    BY <1>8 DEF Ep0Join, Knows, Disabling
  <2> QED BY <1>3, <1>8, <2>1 DEF Ep0Join
<1>9. CASE Deinit
  <2>1. Knows' = Knows
    BY <1>9 DEF Deinit, Knows, Disabling
  <2>2. stop
    BY <1>1, <1>9 DEF Deinit, PlacesInv
  <2> QED BY <1>3, <1>9, <2>1, <2>2 DEF Deinit
<1>10. CASE MainThread
  <2>1. queue' = <<>> /\ link' = FALSE /\ Knows' = FALSE
    BY <1>10 DEF MainThread, Knows, Disabling
  <2>2. Alternate(<<>>, FALSE, FALSE)
    BY NothingLeft
  <2> QED BY <2>1, <2>2 DEF LinkInv
<1>11. ASSUME NEW c, Handles(c)
       PROVE  /\ c \in FfsEvents /\ ep0 = "next"
              /\ Len(queue) > 0 /\ c = Head(queue) /\ queue' = Tail(queue)
  BY <1>1, <1>11, FfsHandles DEF FfsEvents
<1>12. CASE Cancel \/ DeviceStatus
  <2>1. PICK c : Handles(c) /\ c \in {"cancel", "suspend", "status"}
    BY <1>12 DEF Cancel, DeviceStatus
  <2>2. Head(queue) \notin {"up", "down"} /\ Len(queue) > 0 /\ queue' = Tail(queue) /\ ep0 = "next"
    BY <1>11, <2>1
  <2>3. UNCHANGED <<link, started, stop, io, wake>>
    BY <1>12 DEF Cancel, DeviceStatus
  <2>4. ep0' \in {"cancel_lock", "suspend_lock", "next", "busy"}
    BY <1>12 DEF Cancel, DeviceStatus
  <2>5. Knows' = Knows
    BY <2>2, <2>3, <2>4 DEF Knows, Disabling
  <2>6. Alternate(Tail(queue), Knows, link)
    BY <1>1, <1>2, <2>2, EventTaken
  <2>7. DownPending => DownPending'
    BY <1>1, <2>2, PendingTaken DEF DownPending
  <2> QED BY <2>2, <2>3, <2>5, <2>6, <2>7 DEF LinkInv
<1>13. CASE Enable
  <2>1. Head(queue) = "up" /\ Len(queue) > 0 /\ queue' = Tail(queue) /\ ep0 = "next"
    BY <1>11, <1>13 DEF Enable
  <2>2. ~Knows
    BY <1>1, <1>2, <2>1, FirstIsNew DEF Dir
  <2>3. ~started
    BY <2>1, <2>2 DEF Knows, Disabling
  <2>4. ~stop' /\ started' /\ io' = "loop" /\ ep0' = "next" /\ wake' = wake /\ link' = link
    BY <1>13, <2>3, Zenon DEF Enable, ioVars
  <2>5. wake # "link"
    BY <2>3 DEF TypeOK, Blocked
  <2>6. Knows' = TRUE
    BY <2>4 DEF Knows, Disabling
  <2>7. Alternate(Tail(queue), TRUE, link)
    BY <1>1, <1>2, <2>1, EventTaken DEF Dir
  <2> QED BY <2>1, <2>4, <2>5, <2>6, <2>7 DEF LinkInv
<1>14. CASE Disable
  <2>1. Head(queue) = "down" /\ Len(queue) > 0 /\ queue' = Tail(queue) /\ link' = link
    BY <1>11, <1>14 DEF Disable
  <2>2. Knows' = FALSE
    BY <1>14 DEF Disable, Knows, Disabling
  <2>3. Alternate(Tail(queue), FALSE, link)
    BY <1>1, <1>2, <2>1, EventTaken DEF Dir
  <2> QED BY <2>1, <2>2, <2>3 DEF LinkInv
<1>15. ~Unconfigure /\ ~Disconnect /\ ~SuspendWait
  BY <1>1, FfsHandles DEF Unconfigure, Disconnect, SuspendWait, PlacesInv
<1> QED
  BY <1>4, <1>5, <1>6, <1>7, <1>8, <1>9, <1>10, <1>12, <1>13, <1>14, <1>15
  DEF Ep0Thread, Ep0Locks

\* An event of the host or the link.
LEMMA ControlLink ==
  ASSUME Ffs, TypeOK, HoldersInv, LinkInv, NEW c \in Controls, Control(c) PROVE LinkInv'
<1>1. queue \in Seq(FfsEvents) /\ link \in BOOLEAN /\ Knows \in BOOLEAN
  BY DEF HoldersInv, PlacesInv, TypeOK, FfsEvents, Knows, Disabling
<1>2. c \in FfsEvents /\ queue' = Append(queue, c) /\ link' = (c # "down")
  BY GadgetAssumption DEF Control, FfsEvents
<1>3. (c = "up" => ~link) /\ (c # "up" => link)
  BY DEF Control
<1>4. Knows' = Knows /\ stop' = stop /\ io' = io
  BY DEF Control, Quiet, Knows, Disabling
<1>5. \/ c \notin {"up", "down"} /\ link' = link
      \/ c = Dir(link') /\ link' = ~link
  BY <1>1, <1>2, <1>3 DEF FfsEvents, Dir
<1>6. Alternate(Append(queue, c), Knows, link')
  <2>1. PICK m \in BOOLEAN : m = link'
    BY <1>2
  <2>2. Alternate(Append(queue, c), Knows, m)
    <3>1. Alternate(queue, Knows, link)
      BY DEF LinkInv
    <3> QED BY <1>1, <1>2, <1>5, <2>1, <3>1, EventAdded
  <2> QED BY <2>1, <2>2
<1>7. DownPending \/ c = "down" => DownPending'
  <2>1. Len(queue') = Len(queue) + 1 /\ queue'[Len(queue) + 1] = c
        /\ \A i \in 1..Len(queue) : queue'[i] = queue[i]
    BY <1>1, <1>2
  <2> QED BY <1>1, <2>1 DEF DownPending
<1>8. wake' = "link" => wake = "link" \/ c = "down"
  BY DEF Control
<1> QED BY <1>2, <1>4, <1>6, <1>7, <1>8 DEF LinkInv

\* SignalInv and LinkInv hold in every state.
LEMMA ServingInvCorrect ==
  ASSUME Ffs, "disk" \notin Faults, "send" \notin Requests PROVE Spec => [](SignalInv /\ LinkInv)
<1>1. Init => SignalInv /\ LinkInv
  <2>1. Init => queue = <<>> /\ link = FALSE /\ Knows = FALSE
    BY DEF Init, Knows, Disabling
  <2>2. Alternate(<<>>, FALSE, FALSE)
    BY NothingLeft
  <2> QED BY <2>1, <2>2 DEF Init, SignalInv, LinkInv, InTransfer
<1>2. TypeOK /\ HoldersInv /\ LeftInv /\ (SignalInv /\ LinkInv) /\ [Next]_vars
        => (SignalInv /\ LinkInv)'
  <2>1. ASSUME SignalInv, NEW c \in Controls, Control(c) PROVE SignalInv'
    BY <2>1 DEF SignalInv, Control, Quiet, Disabling, Cancellable, InTransfer
  <2>2. ASSUME SignalInv, LinkInv, UNCHANGED vars PROVE (SignalInv /\ LinkInv)'
    <3>1. SignalInv'
      BY <2>2 DEF SignalInv, vars, ioVars, ep0Vars, Disabling, Cancellable, InTransfer
    <3>2. Knows' = Knows /\ DownPending' = DownPending /\ queue' = queue /\ link' = link
      BY <2>2 DEF vars, ioVars, ep0Vars, Knows, Disabling, DownPending
    <3>3. LinkInv'
      BY <2>2, <3>2 DEF LinkInv, vars, ioVars, ep0Vars
    <3> QED BY <3>1, <3>3
  <2> QED BY <2>1, <2>2, IoSignal, Ep0Signal, IoLink, Ep0Link, ControlLink DEF Next
<1> QED BY TypeCorrect, HoldersCorrect, LeftCorrect, <1>1, <1>2, PTL DEF Spec

\* While the link is up and no event is left to handle, the io thread is there:
\* however often the link is lost, in whatever call and with whatever cancels in
\* between, and also where it is back before its loss was handled. The host sends
\* no file, and no file read fails.
THEOREM ServingCorrect ==
  ASSUME Ffs, "disk" \notin Faults, "send" \notin Requests PROVE Spec => []Serving
<1>1. TypeOK /\ LinkInv => Serving
  <2> SUFFICES ASSUME TypeOK, LinkInv, ep0 = "select", queue = <<>>, link
               PROVE  started /\ io # "ended"
    BY DEF Serving
  <2>1. Knows \in BOOLEAN /\ link \in BOOLEAN
    BY DEF TypeOK, Knows, Disabling
  <2>2. Knows = link
    BY <2>1, NothingLeft DEF LinkInv
  <2>3. ~DownPending
    BY DEF DownPending
  <2> QED BY <2>2, <2>3 DEF LinkInv, Knows
<1> QED BY TypeCorrect, ServingInvCorrect, <1>1, PTL

=============================================================================
