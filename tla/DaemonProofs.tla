---------------------------- MODULE DaemonProofs ----------------------------
(***************************************************************************)
(* Theorems about module Daemon, for every number of processes, commands   *)
(* and queues: at most one daemon runs as long as the queue was there      *)
(* before the first start and no daemon is told to stop, whatever is       *)
(* killed, started again and sent meanwhile.                               *)
(***************************************************************************)
EXTENDS Daemon, TLAPS

(* Types. *)

\* The messages of the kernel's queues.
Contents == {ms \in [Queues -> Seq(Cmds)] : \A q \in Queues : Len(ms[q]) <= MaxMsg}

\* A process as it may be.
Sound == {r \in Process : Coherent(r)}

\* The type invariant, with the processes as one function of sound records.
LEMMA TypesSplit ==
  TypeOK <=> /\ conf \in Settings
             /\ name \in Queues \cup {None}
             /\ msgs \in Contents
             /\ proc \in [Procs -> Sound]
             /\ unsent \subseteq Cmds
<1>1. msgs \in Contents <=> /\ msgs \in [Queues -> Seq(Cmds)]
                            /\ \A q \in Queues : Len(msgs[q]) <= MaxMsg
  BY DEF Contents
<1>2. proc \in [Procs -> Sound] <=> /\ proc \in [Procs -> Process]
                                    /\ \A p \in Procs : Coherent(proc[p])
  BY DEF Sound
<1> QED BY <1>1, <1>2 DEF TypeOK

\* A process that is not there is sound.
LEMMA OutSound == Out \in Sound
BY DaemonAssumption DEF Out, Process, Sound, Coherent, Starting, Serving, Ending

\* What the kernel keeps of the queues are contents of queues.
LEMMA KeptTyped ==
  ASSUME NEW pr, NEW n, NEW ms \in Contents
  PROVE  Kept(pr, n, ms) \in Contents
<1>1. <<>> \in Seq(Cmds) /\ Len(<<>>) <= MaxMsg
  BY DaemonAssumption
<1> QED BY <1>1 DEF Kept, Contents

\* Once it knows whether a daemon runs, main sends, ends or is the daemon.
LEMMA KnownIs ==
  ASSUME NEW p \in Procs, NEW running \in BOOLEAN, NEW r \in Sound, r.thr = "none"
  PROVE  /\ Known(p, running, r) \in Sound
         /\ \/ r.todo # <<>> /\ Known(p, running, r) = [r EXCEPT !.pc = "open"]
            \/ running /\ Known(p, running, r) = Out
            \/ ~running /\ Known(p, running, r) = [r EXCEPT !.pc = "init"]
<1>1. /\ r.todo # <<>> => [r EXCEPT !.pc = "open"] \in Sound
      /\ [r EXCEPT !.pc = "init"] \in Sound
  BY DEF Process, Starting, Sound, Coherent
<1> QED BY <1>1, OutSound DEF Known

\* A step of one process changes that process only.
LEMMA OneMoves ==
  ASSUME TypeOK, NEW p \in Procs, NEW r \in Sound, Set(p, r)
  PROVE  proc' \in [Procs -> Sound] /\ proc'[p] = r
         /\ \A s \in Procs : s # p => proc'[s] = proc[s]
BY TypesSplit DEF Set

-----------------------------------------------------------------------------
(* What each step makes of the process that takes it.                       *)

\* Process p becomes r in a step that keeps the types of everything else.
Becomes(p, r) ==
  /\ r \in Sound /\ Set(p, r)
  /\ conf' = conf /\ name' \in Queues \cup {None}
  /\ msgs' \in Contents /\ unsent' \subseteq Cmds

\* A process that ends (exit, crash) is out, and the queues keep their names.
LEMMA EndBecomes ==
  ASSUME TypeOK, NEW p \in Procs, End(p) PROVE Becomes(p, Out) /\ name' = name
BY TypesSplit, OutSound, KeptTyped DEF End, Becomes

\* A start begins at check_running, with no queue locked.
LEMMA InvokeBecomes ==
  ASSUME TypeOK, NEW p \in Procs, Invoke(p)
  PROVE  \E r : Becomes(p, r) /\ r.pc = "check" /\ r.chk = None
                /\ ~r.term /\ r.thr = "none" /\ name' = name
<1> DEFINE Args == {<<>>} \cup {<<m>> : m \in unsent}
            \cup {<<m[1], m[2]>> : m \in {x \in unsent \X unsent : x[1] # x[2]}}
<1>1. PICK s \in Args :
         Set(p, [Out EXCEPT !.pc = "check", !.todo = s]) /\ unsent' = unsent \ ToSet(s)
  BY DEF Invoke
<1>2. s \in Seq(Cmds)
  <2>1. unsent \subseteq Cmds
    BY TypesSplit
  <2>2. CASE s = <<>>  BY <2>2
  <2>3. ASSUME NEW m \in unsent, s = <<m>> PROVE s \in Seq(Cmds)
    BY <2>1, <2>3
  <2>4. ASSUME NEW m \in unsent \X unsent, s = <<m[1], m[2]>> PROVE s \in Seq(Cmds)
    <3>1. m[1] \in Cmds /\ m[2] \in Cmds
      BY <2>1
    <3> QED BY <3>1, <2>4
  <2> QED BY <2>2, <2>3, <2>4
<1> DEFINE r == [Out EXCEPT !.pc = "check", !.todo = s]
<1>3. r \in Sound /\ r.pc = "check" /\ r.chk = None /\ ~r.term /\ r.thr = "none"
  BY <1>2, DaemonAssumption DEF Out, Sound, Coherent, Process, Starting, Serving, Ending
<1>4. Becomes(p, r) /\ name' = name
  BY <1>1, <1>3, TypesSplit DEF Invoke, Becomes
<1> QED BY <1>3, <1>4

\* The open of check_running: there is a queue to lock, or nothing runs.
LEMMA CheckBecomes ==
  ASSUME TypeOK, NEW p \in Procs, Check(p)
  PROVE  /\ name' = name
         /\ \/ name # None /\ Becomes(p, [proc[p] EXCEPT !.pc = "flock", !.chk = name])
            \/ name = None /\ Becomes(p, Known(p, FALSE, proc[p]))
<1>1. proc[p] \in Sound /\ proc[p].thr = "none"
  BY TypesSplit DEF Check, Sound, Coherent, Starting, Serving, Ending
<1>2. [proc[p] EXCEPT !.pc = "flock", !.chk = name] \in Sound
  BY <1>1, TypesSplit DEF Sound, Coherent, Process
<1>3. Known(p, FALSE, proc[p]) \in Sound
  BY <1>1, KnownIs
<1> QED BY <1>2, <1>3, TypesSplit DEF Check, Becomes

\* The lock of check_running: taken by another, or taken now.
LEMMA FlockBecomes ==
  ASSUME TypeOK, NEW p \in Procs, Flock(p)
  PROVE  /\ name' = name
         /\ \/ Locked(proc[p].chk) /\ Becomes(p, Known(p, TRUE, [proc[p] EXCEPT !.chk = None]))
            \/ ~Locked(proc[p].chk) /\ Becomes(p, Known(p, FALSE, proc[p]))
<1>1. proc[p] \in Sound /\ proc[p].thr = "none"
  BY TypesSplit DEF Flock, Sound, Coherent, Starting, Serving, Ending
<1>2. [proc[p] EXCEPT !.chk = None] \in Sound /\ [proc[p] EXCEPT !.chk = None].thr = "none" /\ [proc[p] EXCEPT !.chk = proc[p].chk] = proc[p]
  BY <1>1 DEF Sound, Coherent, Process
<1>3. /\ Known(p, TRUE, [proc[p] EXCEPT !.chk = None]) \in Sound
      /\ Known(p, FALSE, proc[p]) \in Sound
  BY <1>1, <1>2, KnownIs
<1>4. msgs' \in Contents
  BY KeptTyped, TypesSplit DEF Flock
<1>5. Set(p, Known(p, Locked(proc[p].chk),
                   [proc[p] EXCEPT !.chk = IF Locked(proc[p].chk) THEN None ELSE proc[p].chk]))
  BY DEF Flock
<1>6. conf' = conf /\ name' = name /\ name' \in Queues \cup {None} /\ unsent' \subseteq Cmds
  BY TypesSplit DEF Flock
<1>7. Locked(proc[p].chk) \in BOOLEAN
  BY DEF Locked
<1>8. CASE Locked(proc[p].chk)
  <2>1. Set(p, Known(p, TRUE, [proc[p] EXCEPT !.chk = None]))
    BY <1>5, <1>8
  <2> QED BY <2>1, <1>3, <1>4, <1>6, <1>8 DEF Becomes
<1>9. CASE ~Locked(proc[p].chk)
  <2>0. /\ (IF Locked(proc[p].chk) THEN None ELSE proc[p].chk) = proc[p].chk
        /\ Locked(proc[p].chk) = FALSE
    BY <1>7, <1>9
  <2>1. Set(p, Known(p, FALSE, proc[p]))
    BY <1>2, <1>5, <2>0
  <2> QED BY <2>1, <1>3, <1>4, <1>6, <1>9 DEF Becomes
<1> QED BY <1>8, <1>9

\* A step after which p still has the descriptor of check_running it had, and
\* is a daemon only if it was one; it stops only when it was told to.
Stays(p, r) ==
  /\ Becomes(p, r) /\ r.chk = proc[p].chk
  /\ \/ r.pc = proc[p].pc
     \/ /\ {r.pc, proc[p].pc} \cap {"out", "check", "flock"} = {}
        /\ r.pc \in Starting \cup Serving \cup Ending => IsDaemon(p)
  /\ r.term => proc[p].term \/ conf.term
  /\ r.thr = "gone" => proc[p].thr = "gone" \/ proc[p].term

\* The sender of a command opens the queue, sends and leaves; it renames nothing.
LEMMA SendBecomes ==
  ASSUME TypeOK, NEW p \in Procs, OpenSend(p) \/ Send(p)
  PROVE  name' = name /\ (Becomes(p, Out) \/ \E r : Stays(p, r))
<1>1. proc[p] \in Sound
  BY TypesSplit
<1>2. CASE OpenSend(p) /\ End(p)
  BY <1>2, EndBecomes
<1>3. CASE OpenSend(p) /\ ~End(p)
  <2> DEFINE r == [proc[p] EXCEPT !.pc = "send", !.qid = name]
  <2>0. name \in Queues /\ name # None /\ proc[p].pc = "open" /\ proc[p].thr = "none"
    BY <1>1, <1>3, TypesSplit, DaemonAssumption DEF OpenSend, Sound, Coherent, Starting, Serving, Ending
  <2>1. r \in Sound /\ r.chk = proc[p].chk /\ r.pc = "send" /\ r.thr = proc[p].thr
           /\ r.term = proc[p].term
    BY <1>1, <2>0 DEF Sound, Coherent, Process
  <2>2. Becomes(p, r) /\ name' = name /\ proc[p].pc = "open"
    BY <1>3, <2>1, TypesSplit DEF OpenSend, Becomes
  <2>3. Stays(p, r)
    BY <2>1, <2>2 DEF Stays, Starting, Serving, Ending
  <2> QED BY <2>2, <2>3
<1>4. CASE Send(p)
  <2> DEFINE q    == proc[p].qid
             rest == Tail(proc[p].todo)
             r    == [proc[p] EXCEPT !.pc = "open", !.todo = rest, !.qid = None]
             ms   == [msgs EXCEPT ![q] = Append(@, Head(proc[p].todo))]
  <2>1. /\ proc[p].todo \in Seq(Cmds) /\ proc[p].todo # <<>> /\ q \in Queues
        /\ msgs[q] \in Seq(Cmds) /\ Len(msgs[q]) < MaxMsg /\ proc[p].pc = "send"
    BY <1>1, <1>4, TypesSplit DEF Send, Sound, Coherent, Process, Contents
  <2>2. /\ Append(msgs[q], Head(proc[p].todo)) \in Seq(Cmds)
        /\ Len(Append(msgs[q], Head(proc[p].todo))) = Len(msgs[q]) + 1
    BY <2>1
  <2>3. ms \in Contents
    <3> DEFINE more == Append(msgs[q], Head(proc[p].todo))
    <3>1. more \in Seq(Cmds) /\ Len(more) <= MaxMsg
      BY <2>1, <2>2, DaemonAssumption
    <3>2. ms = [msgs EXCEPT ![q] = more] /\ msgs \in Contents
      BY TypesSplit
    <3> HIDE DEF more, ms, q
    <3> QED BY <3>1, <3>2 DEF Contents
  <2>4. name' = name /\ msgs' \in Contents
    BY <1>4, <2>3, KeptTyped DEF Send
  <2>5. CASE rest = <<>>
    <3>1. Set(p, Out)
      BY <1>4, <2>5 DEF Send
    <3> QED BY <1>4, <2>4, <3>1, OutSound, TypesSplit DEF Send, Becomes
  <2>6. CASE rest # <<>>
    <3>1. rest \in Seq(Cmds)
      BY <2>1
    <3>2. r \in Sound /\ r.pc = "open" /\ r.chk = proc[p].chk /\ r.thr = proc[p].thr
             /\ r.term = proc[p].term
      <4>1. proc[p].thr = "none"
        BY <1>1, <2>1 DEF Sound, Coherent, Starting, Serving, Ending
      <4> QED BY <1>1, <2>6, <3>1, <4>1 DEF Sound, Coherent, Process
    <3>3. Set(p, r)
      BY <1>4, <2>6 DEF Send
    <3>4. Becomes(p, r)
      BY <1>4, <2>4, <3>2, <3>3, TypesSplit DEF Send, Becomes
    <3>5. Stays(p, r)
      BY <2>1, <3>2, <3>4 DEF Stays, Starting, Serving, Ending
    <3> QED BY <2>4, <3>5
  <2> QED BY <2>5, <2>6
<1> QED BY <1>2, <1>3, <1>4

\* A daemon that only goes on to another line.
LEMMA GotoStays ==
  ASSUME TypeOK, NEW p \in Procs, IsDaemon(p), NEW l \in Serving \cup Ending,
         Goto(p, l), UNCHANGED <<conf, name, msgs, unsent>>
  PROVE  \E r : Stays(p, r)
<1> DEFINE r == [proc[p] EXCEPT !.pc = l]
<1>1. proc[p] \in Sound
  BY TypesSplit
<1>2. r \in Sound /\ r.chk = proc[p].chk /\ r.pc = l /\ r.thr = proc[p].thr
         /\ r.term = proc[p].term
  BY <1>1 DEF Sound, Coherent, Process, Starting, Serving, Ending
<1>3. Set(p, r)
  BY DEF Goto, Set
<1>4. Becomes(p, r)
  BY <1>2, <1>3, TypesSplit DEF Becomes
<1>5. Stays(p, r)
  BY <1>2, <1>4 DEF Stays, IsDaemon, Starting, Serving, Ending
<1> QED BY <1>5

\* The set-up of a daemon creates a queue only where there is none.
LEMMA InitResponderBecomes ==
  ASSUME TypeOK, NEW p \in Procs, InitResponder(p)
  PROVE  /\ name # None => name' = name
         /\ \E r : Stays(p, r)
<1>1. PICK q \in Queues : /\ name # None => q = name
                         /\ name' = q
                         /\ Set(p, [proc[p] EXCEPT !.pc = "config", !.qid = q, !.thr = "new"])
  BY TypesSplit DEF InitResponder
<1> DEFINE r == [proc[p] EXCEPT !.pc = "config", !.qid = q, !.thr = "new"]
<1>2. proc[p] \in Sound /\ proc[p].pc = "init" /\ q # None
  BY TypesSplit, DaemonAssumption DEF InitResponder
<1>3. r \in Sound /\ r.chk = proc[p].chk /\ r.pc = "config" /\ r.thr = "new"
         /\ r.term = proc[p].term
  <2>1. proc[p].hand = None
    BY <1>2 DEF Sound, Coherent, Process, Serving, Ending
  <2> QED BY <1>2, <2>1 DEF Sound, Coherent, Process, Starting
<1>4. Becomes(p, r)
  BY <1>1, <1>3, TypesSplit DEF Becomes, InitResponder
<1>5. Stays(p, r)
  BY <1>2, <1>3, <1>4 DEF Stays, IsDaemon, Starting, Serving, Ending
<1> QED BY <1>1, <1>5

\* The steps of main_thread that keep the queue.
LEMMA MainStays ==
  ASSUME TypeOK, NEW p \in Procs,
         LoadConfig(p) \/ HandleEvent(p) \/ EndSession(p) \/ ReadEvent(p) \/ Timeout(p)
  PROVE  name' = name /\ \E r : Stays(p, r)
<1>1. IsDaemon(p) /\ UNCHANGED <<conf, name, msgs, unsent>>
  BY DEF LoadConfig, HandleEvent, EndSession, ReadEvent, Timeout, IsDaemon, Starting, Serving, Ending
<1>2. \E l \in Serving \cup Ending : Goto(p, l)
  BY DEF LoadConfig, HandleEvent, EndSession, ReadEvent, Timeout, InitGadget,
         Starting, Serving, Ending
<1> QED BY <1>1, <1>2, GotoStays

\* The signal to the command thread ends the process, the thread or nothing.
LEMMA KillBecomes ==
  ASSUME TypeOK, NEW p \in Procs, KillThread(p)
  PROVE  name' = name /\ (Becomes(p, Out) \/ \E r : Stays(p, r))
<1>1. CASE End(p)
  BY <1>1, EndBecomes
<1>2. CASE ~End(p)
  <2> DEFINE t == IF proc[p].thr # "blocked" THEN proc[p].thr
                  ELSE IF proc[p].term THEN "gone" ELSE "test"
             r == [proc[p] EXCEPT !.pc = "join", !.thr = t]
  <2>1. proc[p] \in Sound /\ proc[p].pc = "kill"
    BY TypesSplit DEF KillThread
  <2>2. Set(p, r) /\ UNCHANGED <<conf, name, msgs, unsent>>
    BY <1>2 DEF KillThread
  <2>3. r \in Sound /\ r.chk = proc[p].chk /\ r.pc = "join" /\ r.thr = t
           /\ r.term = proc[p].term
    <3>1. /\ t \in {"none", "new", "enter", "blocked", "exec", "test", "gone"}
          /\ t = "exec" <=> proc[p].thr = "exec"
          /\ t # "none" => proc[p].thr # "none"
      BY <2>1 DEF Sound, Process
    <3> HIDE DEF t
    <3> QED BY <2>1, <3>1 DEF Sound, Coherent, Process, Ending
  <2>4. Becomes(p, r)
    BY <2>2, <2>3, TypesSplit DEF Becomes
  <2>5. Stays(p, r)
    BY <2>1, <2>3, <2>4 DEF Stays, IsDaemon, Starting, Serving, Ending
  <2> QED BY <2>2, <2>5
<1> QED BY <1>1, <1>2

\* The queue is removed once the command thread is gone.
LEMMA UnlinkBecomes ==
  ASSUME TypeOK, NEW p \in Procs, Unlink(p)
  PROVE  (\E r : Becomes(p, r)) /\ proc[p].thr = "gone"
<1> DEFINE r == [proc[p] EXCEPT !.pc = "inotify", !.thr = "none", !.qid = None]
<1>1. proc[p] \in Sound /\ proc[p].pc = "join" /\ proc[p].thr = "gone"
  BY TypesSplit DEF Unlink
<1>2. r \in Sound
  BY <1>1 DEF Sound, Coherent, Process, Starting, Serving, Ending
<1>3. Becomes(p, r)
  BY <1>2, TypesSplit, KeptTyped DEF Unlink, Becomes
<1> QED BY <1>1, <1>3

\* The end of the inotify thread renames no queue.
LEMMA StopInotifyBecomes ==
  ASSUME TypeOK, NEW p \in Procs, StopInotify(p)
  PROVE  name' = name /\ (Becomes(p, Out) \/ \E r : Stays(p, r))
<1>1. CASE End(p)
  BY <1>1, EndBecomes
<1>2. CASE ~End(p)
  <2>1. IsDaemon(p) /\ Goto(p, "stuck") /\ UNCHANGED <<conf, name, msgs, unsent>>
    BY <1>2 DEF StopInotify, IsDaemon, Ending
  <2>2. "stuck" \in Serving \cup Ending
    BY DEF Ending
  <2> QED BY <2>1, <2>2, GotoStays
<1> QED BY <1>1, <1>2

\* SIGTERM sets a flag of the process and nothing else.
LEMMA SigTermStays ==
  ASSUME TypeOK, NEW p \in Procs, SigTerm(p)
  PROVE  name' = name /\ conf.term /\ \E r : Stays(p, r)
<1> DEFINE l == IF proc[p].pc = "select" THEN "closing" ELSE proc[p].pc
           r == [proc[p] EXCEPT !.term = TRUE, !.pc = l]
<1>1. proc[p] \in Sound /\ IsDaemon(p)
  BY TypesSplit DEF SigTerm
<1>2. Set(p, r) /\ UNCHANGED <<conf, name, msgs, unsent>> /\ conf.term
  BY DEF SigTerm
<1>3. /\ l \in Starting \cup Serving \cup Ending
      /\ proc[p].pc \in {"config"} \cup Serving \cup Ending => l \in {"config"} \cup Serving \cup Ending
  BY <1>1 DEF IsDaemon, Starting, Serving, Ending
<1> HIDE DEF l
<1>4. r \in Sound /\ r.chk = proc[p].chk /\ r.pc = l /\ r.thr = proc[p].thr
  <2>1. /\ r \in Process /\ r = [proc[p] EXCEPT !.term = TRUE, !.pc = l]
        /\ r.pc = l /\ r.chk = proc[p].chk /\ r.thr = proc[p].thr /\ r.hand = proc[p].hand
        /\ r.todo = proc[p].todo /\ r.qid = proc[p].qid
    BY <1>1, <1>3 DEF Sound, Process
  <2>2. l \notin {"open", "send"}
    BY <1>3 DEF Starting, Serving, Ending
  <2>3. Coherent(proc[p])
    BY <1>1 DEF Sound
  <2> HIDE DEF r
  <2>4. Coherent(r)
    BY <1>3, <2>1, <2>2, <2>3 DEF Coherent
  <2> QED BY <2>1, <2>4 DEF Sound
<1>5. Becomes(p, r)
  BY <1>2, <1>4, TypesSplit DEF Becomes
<1>6. Stays(p, r)
  BY <1>1, <1>2, <1>3, <1>4, <1>5 DEF Stays, IsDaemon, Starting, Serving, Ending
<1> QED BY <1>2, <1>6

\* The steps of the command thread.
LEMMA ThreadStays ==
  ASSUME TypeOK, NEW p \in Procs, Thread(p)
  PROVE  name' = name /\ \E r : Stays(p, r)
<1>1. proc[p] \in Sound
  BY TypesSplit
<1>2. CASE ThreadStart(p)
  <2> DEFINE r == [proc[p] EXCEPT !.thr = "enter"]
  <2>1. r \in Sound /\ r.chk = proc[p].chk /\ r.pc = proc[p].pc /\ r.thr = "enter"
           /\ r.term = proc[p].term
    BY <1>1, <1>2 DEF ThreadStart, Sound, Coherent, Process
  <2>2. Stays(p, r) /\ name' = name
    BY <1>2, <2>1, TypesSplit DEF ThreadStart, Stays, Becomes
  <2> QED BY <2>2
<1>3. CASE Receive(p)
  <2> DEFINE q == proc[p].qid
  <2>1. q \in Queues /\ msgs[q] \in Seq(Cmds) /\ Len(msgs[q]) <= MaxMsg
    BY <1>1, <1>3, TypesSplit DEF Receive, Sound, Coherent, Process, Contents
  <2>2. CASE msgs[q] # <<>>
    <3> DEFINE r == [proc[p] EXCEPT !.thr = "exec", !.hand = Head(msgs[q])]
    <3>1. Head(msgs[q]) \in Cmds /\ Head(msgs[q]) # None
             /\ Tail(msgs[q]) \in Seq(Cmds) /\ Len(Tail(msgs[q])) <= MaxMsg
      BY <2>1, <2>2, DaemonAssumption
    <3>2. r \in Sound /\ r.chk = proc[p].chk /\ r.pc = proc[p].pc /\ r.thr = "exec"
             /\ r.term = proc[p].term
      BY <1>1, <1>3, <3>1 DEF Receive, Sound, Coherent, Process
    <3>3. [msgs EXCEPT ![q] = Tail(@)] \in Contents
      BY <2>1, <3>1, TypesSplit DEF Contents
    <3>4. Set(p, r) /\ msgs' = [msgs EXCEPT ![q] = Tail(@)] /\ UNCHANGED <<conf, name, unsent>>
      BY <1>3, <2>2 DEF Receive
    <3>5. Stays(p, r)
      BY <3>2, <3>3, <3>4, TypesSplit DEF Stays, Becomes
    <3> QED BY <3>4, <3>5
  <2>3. CASE msgs[q] = <<>>
    <3> DEFINE r == [proc[p] EXCEPT !.thr = "blocked"]
    <3>1. r \in Sound /\ r.chk = proc[p].chk /\ r.pc = proc[p].pc /\ r.thr = "blocked"
             /\ r.term = proc[p].term
      BY <1>1, <1>3 DEF Receive, Sound, Coherent, Process
    <3>2. Set(p, r) /\ UNCHANGED <<conf, name, msgs, unsent>>
      BY <1>3, <2>3 DEF Receive
    <3>3. Stays(p, r)
      BY <3>1, <3>2, TypesSplit DEF Stays, Becomes
    <3> QED BY <3>2, <3>3
  <2> QED BY <2>2, <2>3
<1>4. CASE Execute(p)
  <2> DEFINE r == [proc[p] EXCEPT !.thr = "test", !.hand = None]
  <2>1. r \in Sound /\ r.chk = proc[p].chk /\ r.pc = proc[p].pc /\ r.thr = "test"
           /\ r.term = proc[p].term
    BY <1>1, <1>4 DEF Execute, Sound, Coherent, Process
  <2>2. Stays(p, r) /\ name' = name
    BY <1>4, <2>1, TypesSplit DEF Execute, Stays, Becomes
  <2> QED BY <2>2
<1>5. CASE Again(p)
  <2> DEFINE t == IF proc[p].term THEN "gone" ELSE "enter"
             r == [proc[p] EXCEPT !.thr = t]
  <2>1. r \in Sound /\ r.chk = proc[p].chk /\ r.pc = proc[p].pc /\ r.thr = t
           /\ r.term = proc[p].term
    BY <1>1, <1>5 DEF Again, Sound, Coherent, Process
  <2>2. Stays(p, r) /\ name' = name
    BY <1>5, <2>1, TypesSplit DEF Again, Stays, Becomes
  <2> QED BY <2>2
<1> QED BY <1>2, <1>3, <1>4, <1>5 DEF Thread

\* A step that makes a sound process of p keeps the types.
LEMMA BecomesTyped ==
  ASSUME TypeOK, NEW p \in Procs, NEW r, Becomes(p, r) PROVE TypeOK'
<1>1. proc' \in [Procs -> Sound]
  BY TypesSplit DEF Becomes, Set
<1>2. /\ msgs' \in [Queues -> Seq(Cmds)]
      /\ \A q \in Queues : Len(msgs'[q]) <= MaxMsg
  BY DEF Becomes, Contents
<1>3. /\ proc' \in [Procs -> Process]
      /\ \A s \in Procs : Coherent(proc'[s])
  BY <1>1 DEF Sound
<1> QED BY <1>2, <1>3, TypesSplit DEF TypeOK, Becomes

\* Every step of a process makes a sound process of it.
LEMMA StepBecomes ==
  ASSUME TypeOK, NEW p \in Procs, Command(p) \/ Main(p) \/ Thread(p) \/ Outside(p)
  PROVE  \E r : Becomes(p, r)
<1>1. CASE Invoke(p)      BY <1>1, InvokeBecomes
<1>2. CASE Check(p)       BY <1>2, CheckBecomes
<1>3. CASE Flock(p)       BY <1>3, FlockBecomes
<1>4. CASE OpenSend(p) \/ Send(p)
  BY <1>4, SendBecomes DEF Stays
<1>5. CASE InitResponder(p)
  BY <1>5, InitResponderBecomes DEF Stays
<1>6. CASE LoadConfig(p) \/ HandleEvent(p) \/ EndSession(p) \/ ReadEvent(p) \/ Timeout(p)
  BY <1>6, MainStays DEF Stays
<1>7. CASE KillThread(p)  BY <1>7, KillBecomes DEF Stays
<1>8. CASE Unlink(p)      BY <1>8, UnlinkBecomes
<1>9. CASE Thread(p)      BY <1>9, ThreadStays DEF Stays
<1>10. CASE SigTerm(p)    BY <1>10, SigTermStays DEF Stays
<1>11. CASE Crash(p)      BY <1>11, EndBecomes DEF Crash
<1>12. CASE StopInotify(p) BY <1>12, StopInotifyBecomes DEF Stays
<1> QED
  BY <1>1, <1>2, <1>3, <1>4, <1>5, <1>6, <1>7, <1>8, <1>9, <1>10, <1>11, <1>12
     DEF Command, Main, Outside

\* The types hold in every reachable state (the processes of main, main_thread
\* and msgqueue_thread, and the kernel's queues).
THEOREM TypeCorrect == Spec => []TypeOK
<1>1. Init => TypeOK
  <2> SUFFICES ASSUME Init PROVE TypeOK
    OBVIOUS
  <2>1. name \in Queues \cup {None} /\ proc \in [Procs -> Sound] /\ conf \in Settings
    BY OutSound, DaemonAssumption DEF Init
  <2>2. msgs \in Contents /\ unsent \subseteq Cmds
    <3>0. conf.cmds \subseteq Cmds
      BY <2>1, DaemonAssumption
    <3>1. PICK s \in {<<>>} \cup {<<m>> : m \in IF conf.left THEN conf.cmds ELSE {}} :
             /\ msgs = [q \in Queues |-> IF q = name THEN s ELSE <<>>]
             /\ unsent = conf.cmds \ ToSet(s)
      BY DEF Init
    <3>2. <<>> \in Seq(Cmds) /\ Len(<<>>) = 0
      OBVIOUS
    <3>3. s \in Seq(Cmds) /\ Len(s) <= 1
      <4>1. CASE s = <<>>  BY <3>2, <4>1
      <4>2. ASSUME NEW m \in Cmds, s = <<m>> PROVE s \in Seq(Cmds) /\ Len(s) <= 1
        BY <4>2
      <4> QED BY <3>0, <3>1, <4>1, <4>2
    <3> QED BY <3>0, <3>1, <3>2, <3>3, DaemonAssumption DEF Contents
  <2> QED BY <2>1, <2>2, TypesSplit
<1>2. ASSUME TypeOK, [Next]_vars PROVE TypeOK'
  <2>1. CASE UNCHANGED vars
    BY <1>2, <2>1 DEF vars, TypeOK, Coherent, Process, Starting, Serving, Ending
  <2> QED BY <1>2, <2>1, StepBecomes, BecomesTyped DEF Next
<1> QED BY <1>1, <1>2, PTL DEF Spec

-----------------------------------------------------------------------------
(* The lock.                                                                *)

\* A process that has the queue of that name open and locked.
Holds(r) == r.chk = name /\ r.pc # "flock"

\* Every process has nothing from check_running, or the queue under MQ_PATH; a
\* daemon has its lock; nobody was told to stop and no command thread has left.
Fine(r) ==
  /\ ~r.term /\ r.thr # "gone"
  /\ r.chk \in {None, name}
  /\ r.pc = "check" => r.chk = None
  /\ r.pc \in {"flock"} \cup Starting \cup Serving \cup Ending => r.chk = name

\* The inductive invariant behind SingleDaemon: the queue is never without its
\* name, so that the lock every daemon keeps is the same one.
Guarded ==
  conf.left /\ ~conf.term =>
    /\ name # None
    /\ \A p \in Procs : Fine(proc[p])
    /\ \A p, r \in Procs : Holds(proc[p]) /\ Holds(proc[r]) => p = r

\* What a step of process p has to show to keep Guarded.
Allowed(p, r) ==
  /\ Becomes(p, r) /\ Fine(r) /\ name' = name
  /\ Holds(r) => Holds(proc[p]) \/ \A s \in Procs : ~Holds(proc[s])

\* A process that keeps its place and what it locked is allowed to.
LEMMA StaysAllowed ==
  ASSUME TypeOK, Guarded, conf.left, ~conf.term, NEW p \in Procs, NEW r, Stays(p, r), name' = name
  PROVE  Allowed(p, r)
BY DEF Guarded, Allowed, Stays, Fine, Holds, IsDaemon

\* So is one that goes.
LEMMA OutAllowed ==
  ASSUME Guarded, conf.left, ~conf.term, NEW p \in Procs, Becomes(p, Out), name' = name
  PROVE  Allowed(p, Out)
BY DEF Guarded, Allowed, Fine, Holds, Out, Starting, Serving, Ending

\* A start is allowed: it holds nothing yet.
LEMMA InvokeAllowed ==
  ASSUME TypeOK, Guarded, conf.left, ~conf.term, NEW p \in Procs, Invoke(p)
  PROVE  \E r : Allowed(p, r)
BY InvokeBecomes DEF Guarded, Allowed, Fine, Holds, Starting, Serving, Ending

\* The open of check_running finds the queue that was left.
LEMMA CheckAllowed ==
  ASSUME TypeOK, Guarded, conf.left, ~conf.term, NEW p \in Procs, Check(p)
  PROVE  \E r : Allowed(p, r)
<1> DEFINE r == [proc[p] EXCEPT !.pc = "flock", !.chk = name]
<1>1. Becomes(p, r) /\ name' = name
  BY CheckBecomes DEF Guarded
<1>2. proc[p] \in Sound /\ Fine(proc[p])
  BY TypesSplit DEF Guarded
<1>3. r.pc = "flock" /\ r.chk = name /\ r.thr = proc[p].thr /\ r.term = proc[p].term
  BY <1>2 DEF Sound, Process
<1> HIDE DEF r
<1>4. Allowed(p, r)
  BY <1>1, <1>2, <1>3 DEF Allowed, Fine, Holds, Starting, Serving, Ending
<1> QED BY <1>4

\* The lock of check_running lets one process past.
LEMMA FlockAllowed ==
  ASSUME TypeOK, Guarded, conf.left, ~conf.term, NEW p \in Procs, Flock(p)
  PROVE  \E r : Allowed(p, r)
<1>1. proc[p] \in Sound /\ Fine(proc[p]) /\ proc[p].pc = "flock" /\ name' = name /\ name # None
         /\ proc[p].thr = "none"
  BY TypesSplit, FlockBecomes DEF Guarded, Flock, Sound, Coherent, Starting, Serving, Ending
<1>2. CASE Locked(proc[p].chk)
  <2> DEFINE o == [proc[p] EXCEPT !.chk = None]
             r == Known(p, TRUE, o)
  <2>1. Becomes(p, r)
    BY <1>2, FlockBecomes
  <2>2. o \in Sound /\ o.chk = None /\ o.thr = "none" /\ ~o.term
    BY <1>1 DEF Sound, Coherent, Process, Fine
  <2>3. r \in Sound /\ (r = [o EXCEPT !.pc = "open"] \/ r = Out)
    BY <2>2, KnownIs
  <2> HIDE DEF r, o
  <2>4. r.chk = None /\ r.pc \in {"open", "out"} /\ r.thr = "none" /\ ~r.term
    BY <2>2, <2>3 DEF Sound, Process, Out
  <2>5. Allowed(p, r)
    BY <1>1, <2>1, <2>4 DEF Allowed, Fine, Holds, Starting, Serving, Ending
  <2> QED BY <2>5
<1>3. CASE ~Locked(proc[p].chk)
  <2> DEFINE r == Known(p, FALSE, proc[p])
  <2>1. Becomes(p, r)
    BY <1>3, FlockBecomes
  <2>2. r \in Sound /\ (r = [proc[p] EXCEPT !.pc = "open"] \/ r = [proc[p] EXCEPT !.pc = "init"])
    BY <1>1, KnownIs
  <2> HIDE DEF r
  <2>3. r.chk = proc[p].chk /\ r.pc \in {"open", "init"} /\ r.thr = "none" /\ ~r.term
    BY <1>1, <2>2 DEF Sound, Process, Fine
  <2>4. proc[p].chk = name => \A s \in Procs : ~Holds(proc[s])
    BY <1>3 DEF Locked, Holds
  <2>5. Fine(r)
    BY <1>1, <2>3 DEF Fine, Starting, Serving, Ending
  <2> QED BY <1>1, <2>1, <2>3, <2>4, <2>5 DEF Allowed, Holds
<1> QED BY <1>2, <1>3

\* Allowed steps keep the lock with one process.
LEMMA AllowedGuarded ==
  ASSUME TypeOK, Guarded, conf.left, ~conf.term, NEW p \in Procs, NEW r, Allowed(p, r)
  PROVE  Guarded'
<1>1. proc'[p] = r /\ \A s \in Procs : s # p => proc'[s] = proc[s]
  BY OneMoves DEF Allowed, Becomes
<1> QED BY <1>1 DEF Guarded, Allowed, Fine, Holds

\* When the queue was there before the first start and nobody stops a daemon,
\* at most one runs: the lock check_running leaves with a daemon keeps every
\* other start out until its process ends, killed or not.
THEOREM OneDaemonAtATime == Spec => []SingleDaemon
<1>1. Init => Guarded
  BY DaemonAssumption DEF Init, Guarded, Fine, Holds, Out, Starting, Serving, Ending
<1>2. ASSUME TypeOK, Guarded, [Next]_vars PROVE Guarded'
  <2>1. CASE UNCHANGED vars
    BY <1>2, <2>1 DEF vars, Guarded, Fine, Holds
  <2>2. ASSUME NEW p \in Procs, Command(p) \/ Main(p) \/ Thread(p) \/ Outside(p)
        PROVE  Guarded'
    <3>1. conf' = conf
      BY <1>2, <2>2, StepBecomes DEF Becomes
    <3>2. CASE ~(conf.left /\ ~conf.term)
      BY <3>1, <3>2 DEF Guarded
    <3>3. CASE conf.left /\ ~conf.term
      <4>1. Fine(proc[p]) /\ name # None
        BY <1>2, <3>3 DEF Guarded
      <4>2. CASE Invoke(p)  BY <1>2, <3>3, <4>2, InvokeAllowed, AllowedGuarded
      <4>3. CASE Check(p)   BY <1>2, <3>3, <4>3, CheckAllowed, AllowedGuarded
      <4>4. CASE Flock(p)   BY <1>2, <3>3, <4>4, FlockAllowed, AllowedGuarded
      <4>5. ASSUME name' = name, Becomes(p, Out) \/ \E r : Stays(p, r) PROVE Guarded'
        BY <1>2, <3>3, <4>5, OutAllowed, StaysAllowed, AllowedGuarded
      <4>6. CASE OpenSend(p) \/ Send(p)
        BY <1>2, <4>5, <4>6, SendBecomes
      <4>7. CASE InitResponder(p)
        BY <1>2, <4>1, <4>5, <4>7, InitResponderBecomes
      <4>8. CASE LoadConfig(p) \/ HandleEvent(p) \/ EndSession(p) \/ ReadEvent(p) \/ Timeout(p)
        BY <1>2, <4>5, <4>8, MainStays
      <4>9. CASE KillThread(p)  BY <1>2, <4>5, <4>9, KillBecomes
      <4>10. CASE Unlink(p)     BY <1>2, <4>1, <4>10, UnlinkBecomes DEF Fine
      <4>11. CASE Thread(p)     BY <1>2, <4>5, <4>11, ThreadStays
      <4>12. CASE SigTerm(p)    BY <1>2, <3>3, <4>12, SigTermStays
      <4>13. CASE Crash(p)      BY <1>2, <4>5, <4>13, EndBecomes DEF Crash
      <4>14. CASE StopInotify(p) BY <1>2, <4>5, <4>14, StopInotifyBecomes
      <4> QED
        BY <2>2, <4>2, <4>3, <4>4, <4>6, <4>7, <4>8, <4>9, <4>10, <4>11, <4>12, <4>13, <4>14
           DEF Command, Main, Outside
    <3> QED BY <3>2, <3>3
  <2> QED BY <1>2, <2>1, <2>2 DEF Next
<1>3. TypeOK /\ Guarded => SingleDaemon
  BY DEF Guarded, SingleDaemon, Daemons, IsDaemon, Fine, Holds, Starting, Serving, Ending
<1> QED BY <1>1, <1>2, <1>3, TypeCorrect, PTL DEF Spec
-----------------------------------------------------------------------------
(* What becomes of an accepted command.                                     *)

\* The body of CommandsSurvive.
Survives(m) ==
  \/ name' = None
  \/ \E p \in Procs : /\ proc[p].hand = m /\ proc[p].thr = "exec"
                      /\ proc'[p].thr = "test" \/ proc'[p].pc = "out"

\* The commands in the queue commands are sent to.
Queued == IF name = None THEN {} ELSE ToSet(msgs[name])

\* In a step of process p no command leaves the queue, and p keeps the command
\* it has in hand, has none, or loses it by executing it or by its end.
Keeps(p) ==
  /\ Queued \subseteq Queued'
  /\ \A s \in Procs : s # p => proc'[s] = proc[s]
  /\ \/ proc[p].hand = None
     \/ proc'[p].hand = proc[p].hand
     \/ proc[p].thr = "exec" /\ (proc'[p].thr = "test" \/ proc'[p].pc = "out")

\* The processes but p are as they were.
LEMMA OthersStay ==
  ASSUME TypeOK, NEW p \in Procs, NEW r, Set(p, r)
  PROVE  proc'[p] = r /\ \A s \in Procs : s # p => proc'[s] = proc[s]
BY TypesSplit DEF Set

\* A step that keeps the queue and the command in hand loses no command.
LEMMA KeepsSurvives ==
  ASSUME NEW p \in Procs, Keeps(p), NEW m \in Pending \ Pending' PROVE Survives(m)
<1>1. m \in Queued \cup ({proc[s].hand : s \in Procs} \ {None})
  BY DEF Pending, Queued
<1>2. m \notin Queued' /\ \A s \in Procs : m # None => proc'[s].hand # m
  BY DEF Pending, Queued
<1>3. PICK s \in Procs : m = proc[s].hand /\ m # None
  BY <1>1, <1>2 DEF Keeps
<1> QED BY <1>2, <1>3 DEF Keeps, Survives

\* Only the command thread, once it runs, has a command in hand.
LEMMA HandEmpty ==
  ASSUME TypeOK, NEW p \in Procs,
         proc[p].thr # "exec" \/ proc[p].pc \in {"out", "check", "flock", "open", "send", "init"}
  PROVE  proc[p].hand = None
BY TypesSplit DEF Sound, Coherent, Serving, Ending

\* What the kernel keeps includes the queue that has the name.
LEMMA NamedKept ==
  ASSUME TypeOK, NEW pr, NEW ms, name' = name, msgs' = Kept(pr, name, ms),
         \A q \in Queues : ToSet(msgs[q]) \subseteq ToSet(ms[q])
  PROVE  Queued \subseteq Queued'
<1>1. CASE name = None
  BY <1>1 DEF Queued
<1>2. CASE name # None
  <2>1. name \in Queues /\ msgs'[name] = ms[name]
    BY <1>2, TypesSplit DEF Kept
  <2> QED BY <1>2, <2>1 DEF Queued
<1> QED BY <1>1, <1>2

\* The end of a process takes the command it executes with it, and no other.
LEMMA EndKeeps ==
  ASSUME TypeOK, NEW p \in Procs, End(p) PROVE Keeps(p)
<1>1. proc'[p] = Out /\ \A s \in Procs : s # p => proc'[s] = proc[s]
  BY OthersStay DEF End
<1>2. Queued \subseteq Queued'
  BY NamedKept DEF End
<1> QED BY <1>1, <1>2, HandEmpty DEF Keeps, Out

\* The sending of a command adds it and takes none away.
LEMMA SendKeeps ==
  ASSUME TypeOK, NEW p \in Procs, Send(p) PROVE Keeps(p)
<1> DEFINE q  == proc[p].qid
           ms == [msgs EXCEPT ![q] = Append(@, Head(proc[p].todo))]
<1>1. proc[p].pc = "send" /\ q \in Queues /\ msgs \in [Queues -> Seq(Cmds)]
  BY TypesSplit DEF Send, Sound, Coherent, Process, Contents
<1>2. \A s \in Queues : ToSet(msgs[s]) \subseteq ToSet(ms[s])
  <2> DEFINE x == Head(proc[p].todo)
  <2>1. ASSUME NEW s \in Queues, NEW m \in ToSet(msgs[s]) PROVE m \in ToSet(ms[s])
    <3>1. msgs[s] \in Seq(Cmds)
      BY <1>1
    <3>2. PICK k \in 1..Len(msgs[s]) : msgs[s][k] = m
      BY <2>1 DEF ToSet
    <3> HIDE DEF x
    <3>3. ms[s] = msgs[s] \/ ms[s] = Append(msgs[s], x)
      BY <1>1 DEF x
    <3>4. k \in 1..Len(ms[s]) /\ ms[s][k] = m
      BY <3>1, <3>2, <3>3
    <3> HIDE DEF ms
    <3> QED BY <3>4 DEF ToSet
  <2> QED BY <2>1
<1>3. Queued \subseteq Queued'
  BY <1>2, NamedKept DEF Send
<1>4. \A s \in Procs : s # p => proc'[s] = proc[s]
  BY OthersStay DEF Send
<1> QED BY <1>1, <1>3, <1>4, HandEmpty DEF Keeps

\* The oldest message goes from the queue into the hand of the command thread.
LEMMA ReceiveSurvives ==
  ASSUME TypeOK, NEW p \in Procs, Receive(p), NEW m \in Pending \ Pending' PROVE Survives(m)
<1> DEFINE q == proc[p].qid
<1>1. q \in Queues /\ msgs \in [Queues -> Seq(Cmds)] /\ proc[p].hand = None
  BY TypesSplit, HandEmpty DEF Receive, Sound, Coherent, Process, Contents
<1>2. CASE msgs[q] = <<>>
  <2>1. name' = name /\ msgs' = msgs /\ Set(p, [proc[p] EXCEPT !.thr = "blocked"])
    BY <1>2 DEF Receive
  <2>2. Keeps(p)
    BY <1>1, <2>1, OthersStay DEF Keeps, Queued
  <2> QED BY <2>2, KeepsSurvives
<1>3. CASE msgs[q] # <<>>
  <2>1. /\ name' = name /\ msgs' = [msgs EXCEPT ![q] = Tail(@)]
        /\ Set(p, [proc[p] EXCEPT !.thr = "exec", !.hand = Head(msgs[q])])
    BY <1>3 DEF Receive
  <2>2. proc[p] \in Process
    BY TypesSplit DEF Sound
  <2>3. proc'[p].hand = Head(msgs[q]) /\ \A s \in Procs : s # p => proc'[s] = proc[s]
    <3>1. PICK h : h = Head(msgs[q])
      OBVIOUS
    <3>2. Set(p, [proc[p] EXCEPT !.thr = "exec", !.hand = h])
      BY <2>1, <3>1
    <3>3. [proc[p] EXCEPT !.thr = "exec", !.hand = h].hand = h
      BY <2>2 DEF Process
    <3> QED BY <3>1, <3>2, <3>3, OthersStay
  <2>4. Head(msgs[q]) \in Cmds /\ Head(msgs[q]) # None
    BY <1>1, <1>3, DaemonAssumption
  <2>5. Head(msgs[q]) \in Pending'
    BY <2>3, <2>4 DEF Pending
  <2>6. ASSUME NEW x \in Queued PROVE x \in Queued' \/ x = Head(msgs[q])
    <3>1. name # None /\ name \in Queues /\ x \in ToSet(msgs[name])
      BY <2>6, TypesSplit DEF Queued
    <3>2. msgs[name] \in Seq(Cmds)
      BY <1>1, <3>1
    <3>3. PICK k \in 1..Len(msgs[name]) : msgs[name][k] = x
      BY <3>1 DEF ToSet
    <3>4. CASE name # q
      <4>1. msgs'[name] = msgs[name]
        BY <1>1, <2>1, <3>1, <3>4
      <4> QED BY <2>1, <3>1, <4>1 DEF Queued
    <3>5. CASE name = q /\ k = 1
      BY <1>3, <3>2, <3>3, <3>5
    <3>6. CASE name = q /\ k # 1
      <4>1. msgs'[name] = Tail(msgs[name])
        BY <1>1, <2>1, <3>1, <3>6
      <4>2. k - 1 \in 1..Len(Tail(msgs[name])) /\ Tail(msgs[name])[k - 1] = x
        BY <1>3, <3>2, <3>3, <3>6
      <4> QED BY <2>1, <3>1, <4>1, <4>2 DEF Queued, ToSet
    <3> QED BY <3>4, <3>5, <3>6
  <2>7. m \notin Queued' /\ m # Head(msgs[q])
    BY <2>5 DEF Pending, Queued
  <2>8. PICK s \in Procs : m = proc[s].hand /\ m # None
    BY <2>6, <2>7 DEF Pending, Queued
  <2>9. s # p
    BY <1>1, <2>8
  <2>10. m \in Pending'
    BY <2>3, <2>8, <2>9 DEF Pending
  <2> QED BY <2>10
<1> QED BY <1>2, <1>3

\* The other steps of the main threads and of whoever starts and stops processes
\* read and remove no message.
LEMMA OtherKeeps ==
  ASSUME TypeOK, NEW p \in Procs,
         \/ Invoke(p) \/ Check(p) \/ Flock(p) \/ OpenSend(p) \/ InitResponder(p)
         \/ LoadConfig(p) \/ HandleEvent(p) \/ EndSession(p) \/ ReadEvent(p) \/ Timeout(p)
         \/ KillThread(p) \/ StopInotify(p) \/ SigTerm(p) \/ Crash(p)
         \/ ThreadStart(p) \/ Execute(p) \/ Again(p)
  PROVE  Keeps(p)
<1>0. proc[p] \in Process /\ proc \in [Procs -> Sound]
  BY TypesSplit DEF Sound
<1>1. CASE End(p)
  BY <1>1, EndKeeps
<1>2. CASE Flock(p)
  <2>1. Queued \subseteq Queued'
    BY <1>2, NamedKept DEF Flock
  <2> QED BY <1>2, <2>1, HandEmpty, OthersStay DEF Flock, Keeps
<1>3. CASE InitResponder(p)
  <2>1. msgs' = msgs /\ (name # None => name' = name)
    BY <1>3 DEF InitResponder
  <2>2. Queued \subseteq Queued'
    BY <2>1 DEF Queued
  <2>3. \E r : Set(p, r)
    BY <1>3 DEF InitResponder
  <2> QED BY <1>3, <2>2, <2>3, HandEmpty, OthersStay DEF InitResponder, Keeps
<1>4. ASSUME name' = name, msgs' = msgs, NEW r, Set(p, r),
             \/ proc[p].hand = None \/ r.hand = proc[p].hand
             \/ proc[p].thr = "exec" /\ r.thr = "test"
      PROVE  Keeps(p)
  <2>1. Queued' = Queued
    BY <1>4 DEF Queued
  <2> QED BY <1>4, <2>1, OthersStay DEF Keeps
<1>5. CASE Invoke(p)
  <2>1. proc[p].hand = None
    BY <1>5, HandEmpty DEF Invoke
  <2>2. name' = name /\ msgs' = msgs /\ \E r : Set(p, r)
    BY <1>5 DEF Invoke
  <2> QED BY <1>4, <2>1, <2>2
<1>6. CASE Check(p) \/ (OpenSend(p) /\ ~End(p))
  <2>1. proc[p].hand = None
    BY <1>6, HandEmpty DEF Check, OpenSend
  <2>2. name' = name /\ msgs' = msgs /\ \E r : Set(p, r)
    BY <1>6 DEF Check, OpenSend
  <2> QED BY <1>4, <2>1, <2>2
<1>7. ASSUME NEW l, Goto(p, l), name' = name, msgs' = msgs PROVE Keeps(p)
  <2>1. Set(p, [proc[p] EXCEPT !.pc = l])
    BY <1>7 DEF Goto, Set
  <2>2. [proc[p] EXCEPT !.pc = l].hand = proc[p].hand
    BY <1>0 DEF Process
  <2> QED BY <1>4, <1>7, <2>1, <2>2
<1>8. CASE LoadConfig(p) \/ HandleEvent(p) \/ EndSession(p) \/ ReadEvent(p) \/ Timeout(p)
  <2>1. name' = name /\ msgs' = msgs /\ \E l \in Serving \cup Ending : Goto(p, l)
    BY <1>8 DEF LoadConfig, HandleEvent, EndSession, ReadEvent, Timeout, InitGadget, Serving, Ending
  <2> QED BY <1>7, <2>1
<1>9. CASE StopInotify(p) /\ ~End(p)
  BY <1>7, <1>9 DEF StopInotify
<1>10. CASE KillThread(p) /\ ~End(p)
  <2>1. PICK t : Set(p, [proc[p] EXCEPT !.pc = "join", !.thr = t])
    BY <1>10 DEF KillThread
  <2>2. [proc[p] EXCEPT !.pc = "join", !.thr = t].hand = proc[p].hand
    BY <1>0 DEF Process
  <2> QED BY <1>4, <1>10, <2>1, <2>2 DEF KillThread
<1>11. CASE SigTerm(p)
  <2>1. PICK l : Set(p, [proc[p] EXCEPT !.term = TRUE, !.pc = l])
    BY <1>11 DEF SigTerm
  <2>2. [proc[p] EXCEPT !.term = TRUE, !.pc = l].hand = proc[p].hand
    BY <1>0 DEF Process
  <2> QED BY <1>4, <1>11, <2>1, <2>2 DEF SigTerm
<1>12. CASE ThreadStart(p) \/ Again(p)
  <2>1. proc[p].hand = None
    BY <1>12, HandEmpty DEF ThreadStart, Again
  <2>2. name' = name /\ msgs' = msgs /\ \E r : Set(p, r)
    BY <1>12 DEF ThreadStart, Again
  <2> QED BY <1>4, <2>1, <2>2
<1>13. CASE Execute(p)
  <2> DEFINE r == [proc[p] EXCEPT !.thr = "test", !.hand = None]
  <2>1. r.thr = "test"
    BY <1>0 DEF Process
  <2>2. Set(p, r) /\ name' = name /\ msgs' = msgs /\ proc[p].thr = "exec"
    BY <1>13 DEF Execute
  <2> QED BY <1>4, <2>1, <2>2
<1> QED
  BY <1>1, <1>2, <1>3, <1>5, <1>6, <1>8, <1>9, <1>10, <1>11, <1>12, <1>13 DEF Crash

\* An accepted command survives every step but its execution, the end of the
\* daemon that was executing it and the mq_unlink of the queue: killed daemons,
\* stopped ones and later starts included, for any number of them.
THEOREM CommandsSurviveCorrect == Spec => CommandsSurvive
<1>1. ASSUME TypeOK, Next, NEW m \in Pending \ Pending' PROVE Survives(m)
  <2>1. PICK p \in Procs : Command(p) \/ Main(p) \/ Thread(p) \/ Outside(p)
    BY <1>1 DEF Next
  <2>2. CASE Unlink(p)
    BY <2>2 DEF Unlink, Survives
  <2>3. CASE Receive(p)
    BY <1>1, <2>3, ReceiveSurvives
  <2>4. CASE Send(p)
    BY <1>1, <2>4, SendKeeps, KeepsSurvives
  <2>5. CASE ~Unlink(p) /\ ~Receive(p) /\ ~Send(p)
    <3>1. Keeps(p)
      BY <1>1, <2>1, <2>5, OtherKeeps DEF Command, Main, Thread, Outside
    <3> QED BY <1>1, <3>1, KeepsSurvives
  <2> QED BY <2>2, <2>3, <2>4, <2>5
<1>2. TypeOK /\ [Next]_vars =>
        [\A m \in Pending \ Pending' :
           \/ name' = None
           \/ \E p \in Procs : proc[p].hand = m /\ proc[p].thr = "exec"
                              /\ (proc'[p].thr = "test" \/ proc'[p].pc = "out")]_vars
  BY <1>1 DEF Survives
<1> QED BY <1>2, TypeCorrect, PTL DEF Spec, CommandsSurvive
=============================================================================
