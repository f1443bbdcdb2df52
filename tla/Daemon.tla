------------------------------- MODULE Daemon -------------------------------
(***************************************************************************)
(* The processes of uMTP-Responder: umtprd started without a command       *)
(* becomes the daemon, umtprd -cmd:... sends commands to it.  They meet in *)
(* one POSIX message queue, which is also what tells a second start that a *)
(* daemon runs: check_running opens it and tries to flock it, and whoever  *)
(* has the lock keeps it until its process ends.                           *)
(*                                                                         *)
(* The queue outlives a daemon that is killed.  Inside the daemon, the     *)
(* main thread (main_thread) and the command thread (msgqueue_thread) meet *)
(* in shutdown_requested and in SIGUSR1, which interrupts mq_receive and   *)
(* is lost when the thread is not blocked there.                           *)
(*                                                                         *)
(* Modules Gadget and StorageTable have what the main thread does with the *)
(* USB device and what a command does to the storages.                     *)
(***************************************************************************)
EXTENDS Naturals, SequencesExt

CONSTANTS
  Procs,      \* bound: processes that run umtprd, again once they ended
  Settings,   \* bound: the conditions checked, see conf
  Cmds,       \* bound: the commands sent, each once
  Queues,     \* bound: the kernel's message queues, numbered
  MaxMsg,     \* mq_maxmsg, 10 in the code
  None

ASSUME DaemonAssumption ==
  /\ Settings \subseteq [loop : BOOLEAN, term : BOOLEAN, left : BOOLEAN,
                       starters : SUBSET Procs, senders : SUBSET Procs, cmds : SUBSET Cmds]
  /\ Queues \subseteq Nat /\ 1 \in Queues
  /\ MaxMsg \in Nat \ {0}
  /\ None \notin Queues /\ None \notin Procs /\ None \notin Cmds

VARIABLES
  conf,    \* chosen once: loop_on_disconnect, whether anyone sends SIGTERM,
           \* whether a queue was left by a daemon of before; bound: who runs
           \* umtprd without a command, who with one, and which commands
  name,    \* kernel: the queue under MQ_PATH
  msgs,    \* kernel: the messages of each queue
  proc,    \* the processes
  unsent   \* commands no process was started with yet

vars == <<conf, name, msgs, proc, unsent>>

Out == [pc |-> "out", todo |-> <<>>, chk |-> None, qid |-> None,
        thr |-> "none", hand |-> None, term |-> FALSE]

\* The main thread of a daemon, from mtp_init_responder to the end of main.
Starting == {"init", "config"}
Serving  == {"select", "event"}
Ending   == {"closing", "kill", "join", "inotify", "stuck"}

IsDaemon(p) == proc[p].pc \in Starting \cup Serving \cup Ending
Daemons     == {p \in Procs : IsDaemon(p)}

\* The open file descriptions that refer to queue q, and the one that has its lock.
Opened(pr, q) == \E p \in Procs : q \in {pr[p].chk, pr[p].qid}
Locked(q)     == \E p \in Procs : proc[p].chk = q /\ proc[p].pc # "flock"

\* What the kernel keeps: a queue without a name and without a descriptor is gone.
Kept(pr, n, ms) == [q \in Queues |-> IF q = n \/ Opened(pr, q) THEN ms[q] ELSE <<>>]

Set(p, r)  == proc' = [proc EXCEPT ![p] = r]
Goto(p, l) == proc' = [proc EXCEPT ![p].pc = l]

\* A process ends: its descriptors are closed, its lock is released.
End(p) ==
  /\ Set(p, Out)
  /\ msgs' = Kept(proc', name, msgs)
  /\ UNCHANGED <<conf, name, unsent>>

-----------------------------------------------------------------------------
(* main: check_running, the arguments, -cmd.                                *)

\* A user, a script or init runs umtprd, with commands or without.
Invoke(p) ==
  /\ proc[p].pc = "out"
  /\ \E s \in {<<>>} \cup {<<m>> : m \in unsent}
            \cup {<<m[1], m[2]>> : m \in {x \in unsent \X unsent : x[1] # x[2]}} :
       /\ p \in IF s = <<>> THEN conf.starters ELSE conf.senders
       /\ Set(p, [Out EXCEPT !.pc = "check", !.todo = s])
       /\ unsent' = unsent \ ToSet(s)
  /\ UNCHANGED <<conf, name, msgs>>

\* What main does once it knows: without a command it says "Already running" and
\* ends, or it is the daemon; with commands it sends them either way.
Known(p, running, r) ==
  IF r.todo # <<>> THEN [r EXCEPT !.pc = "open"]
  ELSE IF running THEN Out ELSE [r EXCEPT !.pc = "init"]

\* get_message_queue(0) of check_running: no queue, not running.
Check(p) ==
  /\ proc[p].pc = "check"
  /\ Set(p, IF name = None THEN Known(p, FALSE, proc[p])
                           ELSE [proc[p] EXCEPT !.pc = "flock", !.chk = name])
  /\ UNCHANGED <<conf, name, msgs, unsent>>

\* Mutant: check_running closes the queue before it returns, in both cases.
Flock_Closes(p) ==
  /\ proc[p].pc = "flock"
  /\ Set(p, Known(p, Locked(proc[p].chk), [proc[p] EXCEPT !.chk = None]))
  /\ msgs' = Kept(proc', name, msgs)
  /\ UNCHANGED <<conf, name, unsent>>

\* flock(LOCK_EX | LOCK_NB): refused, the queue is closed; granted, it stays
\* open and locked until the process ends.
Flock(p) ==
  /\ proc[p].pc = "flock"
  /\ LET taken == Locked(proc[p].chk)
     IN Set(p, Known(p, taken, [proc[p] EXCEPT !.chk = IF taken THEN None ELSE @]))
  /\ msgs' = Kept(proc', name, msgs)
  /\ UNCHANGED <<conf, name, unsent>>

\* send_message_queue opens the queue; there is none: an error, exit.
OpenSend(p) ==
  /\ proc[p].pc = "open"
  /\ \/ name = None /\ End(p)
     \/ /\ name # None
        /\ Set(p, [proc[p] EXCEPT !.pc = "send", !.qid = name])
        /\ UNCHANGED <<conf, name, msgs, unsent>>

\* mq_send blocks while the queue is full.  The last command sent, the process
\* ends.
Send(p) ==
  /\ proc[p].pc = "send"
  /\ LET q    == proc[p].qid
         rest == Tail(proc[p].todo)
     IN /\ Len(msgs[q]) < MaxMsg
        /\ Set(p, IF rest = <<>> THEN Out
                  ELSE [proc[p] EXCEPT !.pc = "open", !.todo = rest, !.qid = None])
        /\ msgs' = Kept(proc', name, [msgs EXCEPT ![q] = Append(@, Head(proc[p].todo))])
  /\ UNCHANGED <<conf, name, unsent>>

-----------------------------------------------------------------------------
(* main_thread.                                                             *)

\* Mutant: the queue is created anew, as a file opened with O_TRUNC is.
InitResponder_Truncates(p) ==
  /\ proc[p].pc = "init"
  /\ \E q \in IF name # None THEN {name}
              ELSE {r \in Queues : ~Opened(proc, r) /\ \A s \in Queues : s < r => Opened(proc, s)} :
       /\ name' = q
       /\ msgs' = [msgs EXCEPT ![q] = <<>>]
       /\ Set(p, [proc[p] EXCEPT !.pc = "config", !.qid = q, !.thr = "new"])
  /\ UNCHANGED <<conf, unsent>>

\* Mutant: the command thread is only started with a queue of one's own.
InitResponder_OwnQueue(p) ==
  /\ proc[p].pc = "init"
  /\ \E q \in IF name # None THEN {name}
              ELSE {r \in Queues : ~Opened(proc, r) /\ \A s \in Queues : s < r => Opened(proc, s)} :
       /\ name' = q
       /\ Set(p, [proc[p] EXCEPT !.pc = "config", !.qid = q,
                                 !.thr = IF name = None THEN "new" ELSE "gone"])
  /\ UNCHANGED <<conf, msgs, unsent>>

\* mtp_init_responder: msgqueue_handler_init opens the queue, creates it when
\* there is none (O_CREAT), and starts the command thread.
InitResponder(p) ==
  /\ proc[p].pc = "init"
  /\ \E q \in IF name # None THEN {name}
              ELSE {r \in Queues : ~Opened(proc, r) /\ \A s \in Queues : s < r => Opened(proc, s)} :
       /\ name' = q
       /\ Set(p, [proc[p] EXCEPT !.pc = "config", !.qid = q, !.thr = "new"])
  /\ UNCHANGED <<conf, msgs, unsent>>

\* init_usb_mtp_gadget; a failure ends the loop whatever the configuration says.
InitGadget(p) == \E l \in {"select", "kill"} : Goto(p, l)

\* mtp_load_config_file, while the command thread already runs.
LoadConfig(p) ==
  /\ proc[p].pc = "config"
  /\ InitGadget(p)
  /\ UNCHANGED <<conf, name, msgs, unsent>>

\* handle_ep0, handle_ffs_ep0: select returns with an event.
ReadEvent(p) ==
  /\ proc[p].pc = "select"
  /\ Goto(p, "event")
  /\ UNCHANGED <<conf, name, msgs, unsent>>

\* The event is handled: back to select, or out of the loop (DISCONNECT, a
\* read error).  A SIGTERM that came meanwhile is not looked at.
HandleEvent(p) ==
  /\ proc[p].pc = "event"
  /\ \E l \in {"select", "closing"} : Goto(p, l)
  /\ UNCHANGED <<conf, name, msgs, unsent>>

\* select times out: nothing came after the start or after a disconnection.
Timeout(p) ==
  /\ proc[p].pc = "select"
  /\ Goto(p, "closing")
  /\ UNCHANGED <<conf, name, msgs, unsent>>

\* deinit_usb_mtp_gadget, deinit_fs_db, while(loop_continue && !shutdown_requested)
EndSession(p) ==
  /\ proc[p].pc = "closing"
  /\ IF conf.loop /\ ~proc[p].term THEN InitGadget(p) ELSE Goto(p, "kill")
  /\ UNCHANGED <<conf, name, msgs, unsent>>

\* Mutant: the handler of SIGUSR1 is set with SA_RESTART, mq_receive goes on.
KillThread_Restarts(p) ==
  /\ proc[p].pc = "kill"
  /\ \/ proc[p].thr = "new" /\ End(p)
     \/ /\ Set(p, [proc[p] EXCEPT !.pc = "join"])
        /\ UNCHANGED <<conf, name, msgs, unsent>>

\* msgqueue_handler_deinit: pthread_kill(SIGUSR1).  Neither the command thread
\* nor the inotify thread has set the handler yet: the signal ends the process.
\* The thread is blocked in mq_receive: EINTR, and it leaves only if
\* shutdown_requested.  Else the signal is lost.
KillThread(p) ==
  /\ proc[p].pc = "kill"
  /\ \/ proc[p].thr = "new" /\ End(p)
     \/ /\ Set(p, [proc[p] EXCEPT !.pc = "join",
                                  !.thr = IF @ # "blocked" THEN @
                                          ELSE IF proc[p].term THEN "gone" ELSE "test"])
        /\ UNCHANGED <<conf, name, msgs, unsent>>

\* pthread_join; mq_close; mq_unlink(MQ_PATH), whatever queue has that name now.
Unlink(p) ==
  /\ proc[p].pc = "join" /\ proc[p].thr = "gone"
  /\ name' = None
  /\ Set(p, [proc[p] EXCEPT !.pc = "inotify", !.thr = "none", !.qid = None])
  /\ msgs' = Kept(proc', None, msgs)
  /\ UNCHANGED <<conf, unsent>>

\* inotify_handler_deinit: the same signal to the inotify thread.  Blocked in
\* read, it ends, and main returns; with an event in hand it goes back to read,
\* and nothing is left that could wake the thread that joins it.
StopInotify(p) ==
  /\ proc[p].pc = "inotify"
  /\ \/ End(p)
     \/ Goto(p, "stuck") /\ UNCHANGED <<conf, name, msgs, unsent>>

\* SIGTERM to a daemon: shutdown_signal_handler; select returns with EINTR.  Any
\* other process has no handler: Crash.
SigTerm(p) ==
  /\ conf.term
  /\ IsDaemon(p) /\ ~proc[p].term
  /\ Set(p, [proc[p] EXCEPT !.term = TRUE, !.pc = IF @ = "select" THEN "closing" ELSE @])
  /\ UNCHANGED <<conf, name, msgs, unsent>>

\* SIGKILL, or any other end of the process without its own cleanup.
Crash(p) ==
  /\ proc[p].pc # "out"
  /\ End(p)

-----------------------------------------------------------------------------
(* msgqueue_thread.                                                         *)

\* sigaction(SIGUSR1); the first turn of do ... while has no test.
ThreadStart(p) ==
  /\ proc[p].thr = "new"
  /\ Set(p, [proc[p] EXCEPT !.thr = "enter"])
  /\ UNCHANGED <<conf, name, msgs, unsent>>

\* mq_receive: the oldest message, or it blocks until there is one.
Receive(p) ==
  /\ proc[p].thr \in {"enter", "blocked"}
  /\ LET q == proc[p].qid
     IN \/ /\ msgs[q] # <<>>
           /\ Set(p, [proc[p] EXCEPT !.thr = "exec", !.hand = Head(msgs[q])])
           /\ msgs' = [msgs EXCEPT ![q] = Tail(@)]
        \/ /\ msgs[q] = <<>> /\ proc[p].thr = "enter"
           /\ Set(p, [proc[p] EXCEPT !.thr = "blocked"])
           /\ UNCHANGED msgs
  /\ UNCHANGED <<conf, name, unsent>>

\* Mutant: the message buffer is executed again on the next turn.
Execute_KeepsHand(p) ==
  /\ proc[p].thr = "exec"
  /\ Set(p, [proc[p] EXCEPT !.thr = "test"])
  /\ UNCHANGED <<conf, name, msgs, unsent>>

\* The command is executed (module StorageTable).
Execute(p) ==
  /\ proc[p].thr = "exec"
  /\ Set(p, [proc[p] EXCEPT !.thr = "test", !.hand = None])
  /\ UNCHANGED <<conf, name, msgs, unsent>>

\* Mutant: the thread ends after a message, as a thread that breaks out on
\* anything but an error does.
Again_Leaves(p) ==
  /\ proc[p].thr = "test"
  /\ Set(p, [proc[p] EXCEPT !.thr = "gone"])
  /\ UNCHANGED <<conf, name, msgs, unsent>>

\* while(!shutdown_requested)
Again(p) ==
  /\ proc[p].thr = "test"
  /\ Set(p, [proc[p] EXCEPT !.thr = IF proc[p].term THEN "gone" ELSE "enter"])
  /\ UNCHANGED <<conf, name, msgs, unsent>>

-----------------------------------------------------------------------------
Init ==
  /\ conf \in Settings
  /\ proc = [p \in Procs |-> Out]
  /\ name = IF conf.left THEN 1 ELSE None
  /\ \E s \in {<<>>} \cup {<<m>> : m \in IF conf.left THEN conf.cmds ELSE {}} :
       /\ msgs = [q \in Queues |-> IF q = name THEN s ELSE <<>>]
       /\ unsent = conf.cmds \ ToSet(s)

Command(p) == Check(p) \/ Flock(p) \/ OpenSend(p) \/ Send(p)
Main(p)    == InitResponder(p) \/ LoadConfig(p) \/ HandleEvent(p) \/ EndSession(p)
                \/ KillThread(p) \/ Unlink(p) \/ StopInotify(p)
Thread(p)  == ThreadStart(p) \/ Receive(p) \/ Execute(p) \/ Again(p)
Outside(p) == Invoke(p) \/ ReadEvent(p) \/ Timeout(p) \/ SigTerm(p) \/ Crash(p)

Next == \E p \in Procs : Command(p) \/ Main(p) \/ Thread(p) \/ Outside(p)

\* Fairness: a thread that can take a step takes one.  Nobody has to start a
\* process, send a signal or plug a cable.
Spec == Init /\ [][Next]_vars
             /\ \A p \in Procs : WF_vars(Command(p)) /\ WF_vars(Main(p)) /\ WF_vars(Thread(p))

-----------------------------------------------------------------------------
(* Properties.                                                              *)

Process ==
  [pc : {"out", "check", "flock", "open", "send"} \cup Starting \cup Serving \cup Ending,
   todo : Seq(Cmds), chk : Queues \cup {None}, qid : Queues \cup {None},
   thr : {"none", "new", "enter", "blocked", "exec", "test", "gone"},
   hand : Cmds \cup {None}, term : BOOLEAN]

\* A process has a command in hand exactly while it executes it, commands left
\* while it sends, a queue while it may use one, and threads only as a daemon.
Coherent(r) ==
  /\ r.hand # None <=> r.thr = "exec"
  /\ r.pc \in {"open", "send"} => r.todo # <<>>
  /\ r.pc = "send" \/ r.thr # "none" => r.qid # None
  /\ r.thr # "none" => r.pc \in {"config"} \cup Serving \cup Ending

\* Every variable keeps its type (the structures of main, main_thread and
\* msgqueue_thread, and the kernel's queues).
TypeOK ==
  /\ conf \in Settings
  /\ name \in Queues \cup {None}
  /\ msgs \in [Queues -> Seq(Cmds)] /\ \A q \in Queues : Len(msgs[q]) <= MaxMsg
  /\ proc \in [Procs -> Process]
  /\ \A p \in Procs : Coherent(proc[p])
  /\ unsent \subseteq Cmds

\* When the queue was there before the first start and nobody stops a daemon
\* (it may be killed and started again at any time, with commands sent
\* meanwhile), at most one daemon runs.  Rests on check_running keeping the
\* queue open, and locked, for the life of the process.
SingleDaemon == conf.left /\ ~conf.term => \A p, r \in Daemons : p = r

\* A command on its way: in the queue commands are sent to, or being executed.
Pending == (IF name = None THEN {} ELSE ToSet(msgs[name]))
             \cup ({proc[p].hand : p \in Procs} \ {None})

\* An accepted command survives every step but its execution, the end of the
\* daemon that was executing it and the mq_unlink of the queue: a daemon that is killed leaves
\* the commands it had not begun to the next one.
CommandsSurvive ==
  [][\A m \in Pending \ Pending' :
        \/ name' = None
        \/ \E p \in Procs : proc[p].hand = m /\ proc[p].thr = "exec"
                           /\ (proc'[p].thr = "test" \/ proc'[p].pc = "out")]_vars

\* A queue that can be read: some daemon serves it and was not told to stop.
Served(q) == \E p \in Procs : IsDaemon(p) /\ proc[p].qid = q /\ ~proc[p].term

Waiting(m) == \E q \in Queues : m \in ToSet(msgs[q])

\* A command in a queue is executed, or taken over by the death of a daemon,
\* unless no daemon keeps serving the queue; killed daemons and later starts
\* included (msgqueue_thread's loop goes on after an error, a command and a
\* signal).
CommandsServed ==
  \A m \in Cmds : Waiting(m) ~> (~Waiting(m) \/ \E q \in Queues : m \in ToSet(msgs[q]) /\ ~Served(q))

\* mq_send blocks on a full queue: a process that sends commands ends all the
\* same while a daemon serves the queue.
SendersEnd ==
  \A p \in Procs : (proc[p].pc = "send") ~> (proc[p].pc # "send" \/ ~Served(proc[p].qid))

\* A daemon that leaves its session with shutdown_requested set, and its command
\* thread blocked in mq_receive, removes the queue and ends, unless the inotify
\* thread missed its signal: SIGUSR1 gets the thread out (msgqueue_handler_deinit).
StopsCleanly ==
  \A p \in Procs :
    (proc[p].pc = "kill" /\ proc[p].term /\ proc[p].thr = "blocked")
      ~> (proc[p].pc = "out" \/ (proc[p].pc = "stuck" /\ proc[p].qid = None))

-----------------------------------------------------------------------------
(* What comments and documents say and the code does not do.                *)

\* umtprd.c: "Lock acquired: not running."
OneDaemon == \A p, r \in Daemons : p = r

\* umtprd.c: "Lock fails: daemon is running."
RefusedMeansRunning ==
  [][\A p \in Procs : proc[p].pc = "flock" /\ proc[p].todo = <<>> /\ Locked(proc[p].chk)
                       /\ proc'[p].pc = "out" => Daemons # {}]_vars

\* conf/umtprd.conf: without loop_on_disconnect, umtprd shuts down when the
\* link is disconnected.
DisconnectEnds ==
  \A p \in Procs : (proc[p].pc = "closing" /\ ~conf.loop /\ proc[p].thr = "blocked")
                    ~> (proc[p].pc = "out")

\* "Received shutdown signal, initiating graceful shutdown": a daemon that got
\* SIGTERM ends.
TermEnds == \A p \in Procs : proc[p].term ~> ~proc[p].term

\* No command is executed before the configuration file is read.
RunsConfigured ==
  [][\A p \in Procs : proc[p].hand # None /\ proc'[p].hand = None /\ proc'[p].pc # "out"
        => proc[p].pc # "config"]_vars
=============================================================================
