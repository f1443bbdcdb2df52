-------------------------- MODULE DescriptorsProofs --------------------------
(***************************************************************************)
(* Theorems about module Descriptors, for any objects and any number of    *)
(* descriptors: its type invariant and its three safety invariants.        *)
(***************************************************************************)
EXTENDS Descriptors, TLAPS, WellFoundedInduction, SequenceTheorems

MainPcs == {"start", "up", "close_in", "close_out", "close_int", "close_usb", "cancel",
            "drop", "ended"}
Numbers == Fds \cup {-1}
Entry   == [obj : Objs \cup {0}, fd : Numbers]

MainTyped ==
  /\ main \in [pc : MainPcs, usb : Numbers, ep : [Eps -> Numbers]]
  /\ main.pc \in {"start", "cancel", "drop", "ended"} <=> main.usb = -1

IoTyped ==
  io \in [pc : {"none", "idle", "asked", "moving", "ended"},
          use : {"none", "get", "send", "edit"}, e : Nat]

\* A transfer is of an object; an object has one entry.
EntriesInv ==
  /\ io.pc \in {"asked", "moving"} =>
       io.e \in DOMAIN db /\ db[io.e].obj # 0 /\ io.use \in conf.uses /\ io.use # "none"
  /\ \A d, e \in DOMAIN db : db[d].obj = db[e].obj => d = e

Typed ==
  /\ conf \in Settings
  /\ file \in [Fds -> Things]
  /\ MainTyped /\ IoTyped
  /\ db \in Seq(Entry)
  /\ main.pc \in {"start", "drop", "ended"} => io.pc = "none"
  /\ EntriesInv

\* Until its first endpoint is open, a gadget has no thread and no database, and
\* number 0 is taken.
FirstInv ==
  /\ main.pc \in {"start", "ended"} => db = NULL
  /\ main.pc = "up" /\ main.ep[In] = -1 => db = NULL /\ file[0] # Closed /\ io.pc = "none"

\* Where an endpoint has not been closed yet.
Before(i) == {"up"} \cup {Closing[k] : k \in 1..i}

\* The numbers of the endpoints: IN has the lowest, and gives it to the one file
\* that is opened after it was closed.
EndpointsInv ==
  /\ \A i \in Eps : main.ep[i] # 0
  /\ \A i \in Eps \ {In} : main.ep[i] # -1 =>
       /\ main.ep[In] # -1 /\ main.ep[In] < main.ep[i]
       /\ file[main.ep[i]] \in {Ep(i), Closed}
  /\ \A i \in Eps : main.ep[i] # -1 /\ main.pc \in Before(i) => file[main.ep[i]] = Ep(i)
  /\ main.ep[In] # -1 /\ main.pc \notin Before(In) /\ io.pc \in {"idle", "asked"} =>
       file[main.ep[In]] = Closed

\* The numbers of the gadget and of the entries, where they are not 0.
FilesInv ==
  /\ main.usb > 0 => file[main.usb] = Control
  /\ \A e \in DOMAIN db : db[e].fd > 0 =>
       file[db[e].fd].kind = "object" /\ file[db[e].fd].of = db[e].obj

Sound      == FirstInv /\ EndpointsInv /\ FilesInv
NumbersInv == "config" \notin conf.faults => Sound

\* A file that is open for one direction is that of the transfer.
Directed ==
  \A e \in DOMAIN db : db[e].fd > 0 /\ file[db[e].fd].how # "rw" =>
    io.pc = "moving" /\ io.e = e /\ file[db[e].fd].how = Flags(io.use)
DirectionInv == conf.faults \subseteq {"endpoint"} => Directed /\ OwnFile

\* The one file that is open is that of the transfer.
LeakInv ==
  "edit" \notin conf.uses /\ conf.faults \cap {"cut", "path"} = {} =>
    \A n \in Fds : file[n].kind = "object" => io.pc = "moving" /\ db[io.e].fd = n

-----------------------------------------------------------------------------
(* The numbers the kernel gives.                                            *)

\* open(2) finds the lowest of the free numbers, or none.
LEMMA LowestFound ==
  ASSUME NEW f
  PROVE  \/ Free(f) = {} /\ Lowest(f) = -1
         \/ Lowest(f) \in Free(f) /\ \A k \in Free(f) : Lowest(f) <= k
<1>1. CASE Free(f) = {}
  BY <1>1 DEF Lowest
<1>2. CASE Free(f) # {}
  <2>1. Free(f) \subseteq Nat
    BY DescriptorsAssumption DEF Free, Fds
  <2>2. PICK x \in Free(f) : \A y \in Free(f) : ~(<<y, x>> \in OpToRel(<, Nat))
    BY <1>2, <2>1, NatLessThanWellFounded, WFMin
  <2>3. \A y \in Free(f) : x <= y
    <3> TAKE y \in Free(f)
    <3>1. x \in Nat /\ y \in Nat /\ <<y, x>> \in Nat \X Nat
      BY <2>1
    <3>2. ~(y < x)
      BY <2>2, <3>1 DEF OpToRel
    <3> QED BY <3>1, <3>2
  <2> QED BY <1>2, <2>3 DEF Lowest
<1> QED BY <1>1, <1>2

\* So open gives a number that stood for nothing, and touches no other.
LEMMA Opened ==
  ASSUME NEW f \in [Fds -> Things], NEW thing \in Things
  PROVE  /\ Lowest(f) \in Numbers
         /\ Lowest(f) # -1 => Lowest(f) \in Fds /\ f[Lowest(f)] = Closed
         /\ \A n \in Fds : f[n] = Closed => Lowest(f) # -1 /\ Lowest(f) <= n
         /\ Open(f, thing) \in [Fds -> Things]
         /\ \A n \in Fds : Open(f, thing)[n] = IF n = Lowest(f) THEN thing ELSE f[n]
<1>1. -1 \notin Fds
  BY DescriptorsAssumption DEF Fds
<1> QED BY <1>1, LowestFound DEF Free, Open, Numbers

\* close(2) touches one number.
LEMMA ClosedOne ==
  ASSUME NEW f \in [Fds -> Things], NEW c
  PROVE  /\ Close(f, {c}) \in [Fds -> Things]
         /\ \A n \in Fds : Close(f, {c})[n] = IF n = c THEN Closed ELSE f[n]
BY DEF Close, Things

\* What a number stands for tells the things apart.
LEMMA Kinds ==
  /\ Closed \in Things /\ Closed.kind = "closed"
  /\ Control \in Things /\ Control.kind = "control"
  /\ Stdin \in Things /\ Stdin.kind = "stdin"
  /\ \A i \in Eps : Ep(i) \in Things /\ Ep(i).kind = "endpoint" /\ Ep(i).of = i
  /\ \A o \in Objs, h \in {"r", "w", "rw"} :
       /\ Object(o, h) \in Things
       /\ Object(o, h).kind = "object" /\ Object(o, h).of = o /\ Object(o, h).how = h
<1>1. Closed \in [kind : {"closed"}, of : Nat, how : {"rw"}]
  BY DEF Closed
<1>2. Control.kind = "control" /\ Stdin.kind = "stdin"
  BY <1>1 DEF Control, Stdin
<1>3. \A i \in Eps : Ep(i).kind = "endpoint" /\ Ep(i).of = i
  BY <1>1 DEF Ep, Eps
<1>4. \A o \in Objs, h \in {"r", "w", "rw"} :
        Object(o, h).kind = "object" /\ Object(o, h).of = o /\ Object(o, h).how = h
  BY DEF Object
<1>5. /\ Closed \in Things /\ Control \in Things /\ Stdin \in Things
      /\ \A i \in Eps : Ep(i) \in Things
      /\ \A o \in Objs, h \in {"r", "w", "rw"} : Object(o, h) \in Things
  BY DEF Things
<1> QED BY <1>1, <1>2, <1>3, <1>4, <1>5

-----------------------------------------------------------------------------
(* init_eps.                                                                *)

\* What is left however far it came: types, and no new file of an object.
EpsTyped(r) ==
  /\ r \in [file : [Fds -> Things], ep : [Eps -> Numbers], ok : BOOLEAN]
  /\ \A n \in Fds : r.file[n].kind = "object" => file[n] = r.file[n]

\* Opening one endpoint of init_eps keeps the types, and a success gives it a number.
LEMMA EpTyped ==
  ASSUME NEW r, EpsTyped(r), NEW i \in Eps
  PROVE  /\ EpsTyped(OpenEp(r, i))
         /\ OpenEp(r, i).ok => OpenEp(r, i).ep[i] \in Fds
<1> DEFINE f == r.file
           q == OpenEp(r, i)
<1>0. f \in [Fds -> Things] /\ r.ep \in [Eps -> Numbers] /\ r.ok \in BOOLEAN
  BY DEF EpsTyped
<1>1. CASE ~r.ok \/ Lowest(f) = -1
  <2>1. q = [r EXCEPT !.ok = FALSE]
    BY <1>1 DEF OpenEp
  <2> QED BY <2>1 DEF EpsTyped
<1>2. CASE ~(~r.ok \/ Lowest(f) = -1)
  <2>1. PICK n, g : n = Lowest(f) /\ g = Open(f, Ep(i))
    OBVIOUS
  <2>2. q = [file |-> g, ep |-> [r.ep EXCEPT ![i] = n], ok |-> r.ok]
    BY <1>2, <2>1, <1>0 DEF OpenEp, EpsTyped
  <2>3. /\ n \in Fds /\ n \in Numbers /\ g \in [Fds -> Things]
        /\ \A m \in Fds : g[m] = IF m = n THEN Ep(i) ELSE f[m]
    BY <1>0, <1>2, <2>1, Opened, Kinds
  <2>4. \A m \in Fds : g[m].kind = "object" => file[m] = g[m]
    BY <2>3, Kinds DEF EpsTyped
  <2>5. q.file = g /\ q.ep = [r.ep EXCEPT ![i] = n] /\ q.ok = r.ok
    BY <2>2
  <2>6. q \in [file : [Fds -> Things], ep : [Eps -> Numbers], ok : BOOLEAN]
    BY <2>2, <2>3, <1>0
  <2>7. q.ep[i] \in Fds
    BY <2>5, <2>3, <1>0
  <2> QED BY <2>4, <2>5, <2>6, <2>7 DEF EpsTyped
<1> QED BY <1>1, <1>2

\* The endpoints up to k, opened one after another from none: each that has a
\* number has one that was free, IN has the lowest, and nothing else changed.
EpsOpened(r, k) ==
  /\ \A i \in Eps : i > k => r.ep[i] = -1
  /\ \A i \in Eps : r.ep[i] # -1 => file[r.ep[i]] = Closed /\ r.file[r.ep[i]] = Ep(i)
  /\ \A n \in Fds : file[n] # Closed => r.file[n] = file[n]
  /\ \A n \in Fds : r.file[n] = Closed /\ r.ep[In] # -1 => r.ep[In] < n
  /\ r.ok /\ k > 0 => r.ep[In] # -1
  /\ \A i \in Eps \ {In} : r.ep[i] # -1 => r.ep[In] # -1 /\ r.ep[In] < r.ep[i]

\* It keeps that the endpoints opened so far have their own numbers, in their order.
LEMMA EpOpened ==
  ASSUME NEW r, EpsTyped(r), NEW i \in Eps, EpsOpened(r, i - 1),
         file \in [Fds -> Things]
  PROVE  EpsOpened(OpenEp(r, i), i)
<1> DEFINE f == r.file
           q == OpenEp(r, i)
<1>0. f \in [Fds -> Things] /\ r.ep \in [Eps -> Numbers] /\ r.ok \in BOOLEAN
  BY DEF EpsTyped
<1>1. CASE ~r.ok \/ Lowest(f) = -1
  <2>1. q.file = f /\ q.ep = r.ep /\ ~q.ok
    BY <1>1 DEF OpenEp, EpsTyped
  <2> QED BY <2>1 DEF EpsOpened, Eps
<1>2. CASE ~(~r.ok \/ Lowest(f) = -1)
  <2>1. PICK n, g : n = Lowest(f) /\ g = Open(f, Ep(i))
    OBVIOUS
  <2>2. q = [file |-> g, ep |-> [r.ep EXCEPT ![i] = n], ok |-> r.ok]
    BY <1>2, <2>1, <1>0 DEF OpenEp, EpsTyped
  <2>3. /\ n \in Fds /\ f[n] = Closed /\ g \in [Fds -> Things]
        /\ \A m \in Fds : g[m] = IF m = n THEN Ep(i) ELSE f[m]
        /\ \A m \in Fds : f[m] = Closed => n <= m
    <3>1. Ep(i) \in Things
      BY Kinds
    <3>2. /\ Lowest(f) \in Fds /\ f[Lowest(f)] = Closed
          /\ \A m \in Fds : f[m] = Closed => Lowest(f) <= m
      BY <3>1, <1>0, <1>2, Opened
    <3>3. /\ Open(f, Ep(i)) \in [Fds -> Things]
          /\ \A m \in Fds : Open(f, Ep(i))[m] = IF m = Lowest(f) THEN Ep(i) ELSE f[m]
      BY <3>1, <1>0, Opened
    <3> QED BY <2>1, <3>2, <3>3
  <2>4. PICK ep : ep = [r.ep EXCEPT ![i] = n]
    OBVIOUS
  <2>5. q.file = g /\ q.ep = ep /\ q.ok
    BY <2>2, <2>4, <1>2
  <2>6. /\ ep[i] = n /\ n # -1 /\ Fds \subseteq Nat
        /\ \A j \in Eps \ {i} : ep[j] = r.ep[j]
    BY <2>4, <2>3, <1>0, DescriptorsAssumption DEF Fds
  <2>7. /\ \A j \in Eps : j > i - 1 => r.ep[j] = -1
        /\ \A j \in Eps : r.ep[j] # -1 => file[r.ep[j]] = Closed /\ f[r.ep[j]] = Ep(j)
        /\ \A m \in Fds : file[m] # Closed => f[m] = file[m]
        /\ \A m \in Fds : f[m] = Closed /\ r.ep[In] # -1 => r.ep[In] < m
        /\ i - 1 > 0 => r.ep[In] # -1
        /\ \A j \in Eps \ {In} : r.ep[j] # -1 => r.ep[In] # -1 /\ r.ep[In] < r.ep[j]
    BY <1>2 DEF EpsOpened
  <2>8. file[n] = Closed
    BY <2>3, <2>7
  <2>9. \A j \in Eps : j > i => ep[j] = -1
    BY <2>6, <2>7 DEF Eps
  <2>10. \A j \in Eps : ep[j] # -1 => file[ep[j]] = Closed /\ g[ep[j]] = Ep(j)
    <3> TAKE j \in Eps
    <3>1. CASE j = i
      BY <3>1, <2>6, <2>8, <2>3
    <3>2. CASE j # i
      <4>1. ep[j] = r.ep[j] /\ r.ep[j] \in Numbers
        BY <3>2, <2>6, <1>0
      <4>2. Ep(j) # Closed
        BY Kinds
      <4> QED BY <4>1, <4>2, <2>7, <2>3 DEF Numbers
    <3> QED BY <3>1, <3>2
  <2>11. \A m \in Fds : file[m] # Closed => g[m] = file[m]
    BY <2>3, <2>7, <2>8
  <2>12. ep[In] # -1
    BY <2>6, <2>7 DEF Eps, In
  <2>13. \A m \in Fds : g[m] = Closed => ep[In] < m
    <3> SUFFICES ASSUME NEW m \in Fds, g[m] = Closed PROVE ep[In] < m
      OBVIOUS
    <3>1. m # n /\ f[m] = Closed
      BY <2>3, Kinds
    <3>2. CASE i = In
      BY <3>1, <3>2, <2>3, <2>6
    <3>3. CASE i # In
      BY <3>1, <3>3, <2>6, <2>7, <2>12 DEF Eps, In
    <3> QED BY <3>2, <3>3
  <2>14. \A j \in Eps \ {In} : ep[j] # -1 => ep[In] < ep[j]
    <3> SUFFICES ASSUME NEW j \in Eps \ {In}, ep[j] # -1 PROVE ep[In] < ep[j]
      OBVIOUS
    <3>1. CASE j = i
      BY <3>1, <2>3, <2>6, <2>7, <2>12 DEF Eps, In
    <3>2. CASE j # i
      <4>1. r.ep[j] # -1
        BY <3>2, <2>6
      <4>2. i # In
        BY <4>1, <2>7 DEF Eps, In
      <4> QED BY <4>1, <4>2, <3>2, <2>6, <2>7 DEF Eps, In
    <3> QED BY <3>1, <3>2
  <2> QED BY <2>5, <2>9, <2>10, <2>11, <2>12, <2>13, <2>14 DEF EpsOpened
<1> QED BY <1>1, <1>2

\* The rounds of init_eps, by cases.
LEMMA UpTo ==
  \A ep : /\ OpenedUpTo(ep, 0) = NoHandles(ep)
          /\ \A k \in Eps : OpenedUpTo(ep, k) = OpenEp(OpenedUpTo(ep, k - 1), k)
BY DEF OpenedUpTo, Eps

\* The same types for the loop of init_eps up to each endpoint.
LEMMA UpToTyped ==
  ASSUME file \in [Fds -> Things], NEW ep \in [Eps -> Numbers]
  PROVE  /\ \A k \in 0..3 : EpsTyped(OpenedUpTo(ep, k))
         /\ \A k \in Eps : OpenedUpTo(ep, k).ok => OpenedUpTo(ep, k).ep[k] \in Fds
<1>1. EpsTyped(OpenedUpTo(ep, 0))
  <2>1. PICK q : q = NoHandles(ep)
    OBVIOUS
  <2>2. q = [file |-> file, ep |-> ep, ok |-> TRUE]
    BY <2>1 DEF NoHandles
  <2>3. EpsTyped(q)
    BY <2>2 DEF EpsTyped
  <2> QED BY <2>1, <2>3, UpTo
<1>2. \A k \in Eps : EpsTyped(OpenedUpTo(ep, k - 1)) =>
        /\ EpsTyped(OpenedUpTo(ep, k))
        /\ OpenedUpTo(ep, k).ok => OpenedUpTo(ep, k).ep[k] \in Fds
  BY UpTo, EpTyped
<1>3. EpsTyped(OpenedUpTo(ep, 1)) /\ EpsTyped(OpenedUpTo(ep, 2)) /\ EpsTyped(OpenedUpTo(ep, 3))
  <2>1. \A k \in {1, 2, 3} : EpsTyped(OpenedUpTo(ep, k - 1)) => EpsTyped(OpenedUpTo(ep, k))
    BY <1>2 DEF Eps
  <2> QED BY <1>1, <2>1
<1>4. \A k \in 0..3 : EpsTyped(OpenedUpTo(ep, k))
  <2>1. \A k \in 0..3 : k = 0 \/ k = 1 \/ k = 2 \/ k = 3
    OBVIOUS
  <2> QED BY <1>1, <1>3, <2>1
<1> QED BY <1>2, <1>4 DEF Eps

\* Whatever init_eps returns is typed.
LEMMA InitEpsTyped ==
  ASSUME file \in [Fds -> Things], NEW ep \in [Eps -> Numbers], NEW r \in init_eps(ep)
  PROVE  EpsTyped(r)
<1>1. CASE r = OpenedUpTo(ep, 3)
  BY <1>1, UpToTyped
<1>2. CASE \E n \in 0..2 : r = [OpenedUpTo(ep, n) EXCEPT !.ok = FALSE]
  <2>0. PICK n \in 0..2 : r = [OpenedUpTo(ep, n) EXCEPT !.ok = FALSE]
    BY <1>2
  <2>1. PICK p : p = OpenedUpTo(ep, n) /\ r = [p EXCEPT !.ok = FALSE]
    BY <2>0
  <2>2. EpsTyped(p)
    BY <2>1, UpToTyped
  <2> QED BY <2>1, <2>2 DEF EpsTyped
<1>3. CASE \E n \in Eps : r = Unwritten(OpenedUpTo(ep, n), n)
  <2>0. PICK n \in Eps : r = Unwritten(OpenedUpTo(ep, n), n)
    BY <1>3
  <2>1. PICK p : p = OpenedUpTo(ep, n) /\ r = Unwritten(p, n)
    BY <2>0
  <2>2. EpsTyped(p)
    BY <2>1, UpToTyped DEF Eps
  <2>3. PICK f, c, g : f = p.file /\ c = p.ep[n] /\ g = Close(f, {c})
    OBVIOUS
  <2>4. g \in [Fds -> Things] /\ \A m \in Fds : g[m].kind = "object" => p.file[m] = g[m]
    <3>1. f \in [Fds -> Things] /\ Closed.kind # "object"
      BY <2>2, <2>3, Kinds DEF EpsTyped
    <3>2. /\ Close(f, {c}) \in [Fds -> Things]
          /\ \A m \in Fds : Close(f, {c})[m] = IF m = c THEN Closed ELSE f[m]
      BY <3>1, ClosedOne
    <3> QED BY <2>3, <3>1, <3>2
  <2>5. PICK h : h = IF p.ok THEN g ELSE p.file
    OBVIOUS
  <2>6. h \in [Fds -> Things] /\ \A m \in Fds : h[m].kind = "object" => p.file[m] = h[m]
    BY <2>2, <2>4, <2>5 DEF EpsTyped
  <2>7. r = [file |-> h, ep |-> p.ep, ok |-> FALSE]
    BY <2>1, <2>2, <2>3, <2>5 DEF Unwritten, EpsTyped
  <2> QED BY <2>2, <2>6, <2>7 DEF EpsTyped
<1> QED BY <1>1, <1>2, <1>3 DEF init_eps

\* Without failures to write a configuration they are all as they should be.
LEMMA InitEpsOpened ==
  ASSUME file \in [Fds -> Things], NEW ep \in [Eps -> Numbers], \A i \in Eps : ep[i] = -1,
         "config" \notin conf.faults, NEW r \in init_eps(ep)
  PROVE  EpsOpened(r, 3)
<1>1. EpsOpened(OpenedUpTo(ep, 0), 0)
  BY UpTo DEF NoHandles, EpsOpened, Eps, In
<1>2. \A k \in Eps : EpsOpened(OpenedUpTo(ep, k - 1), k - 1) => EpsOpened(OpenedUpTo(ep, k), k)
  BY UpTo, UpToTyped, EpOpened DEF Eps
<1>3. /\ EpsOpened(OpenedUpTo(ep, 1), 1) /\ EpsOpened(OpenedUpTo(ep, 2), 2)
      /\ EpsOpened(OpenedUpTo(ep, 3), 3)
  <2>1. \A k \in {1, 2, 3} :
          EpsOpened(OpenedUpTo(ep, k - 1), k - 1) => EpsOpened(OpenedUpTo(ep, k), k)
    BY <1>2 DEF Eps
  <2> QED BY <1>1, <2>1
<1>4. CASE r = OpenedUpTo(ep, 3)
  BY <1>3, <1>4
<1>5. CASE \E n \in 0..2 : r = [OpenedUpTo(ep, n) EXCEPT !.ok = FALSE]
  <2>0. PICK n \in 0..2 : r = [OpenedUpTo(ep, n) EXCEPT !.ok = FALSE]
    BY <1>5
  <2>1. PICK p : p = OpenedUpTo(ep, n) /\ r = [p EXCEPT !.ok = FALSE]
    BY <2>0
  <2>2. EpsTyped(p) /\ EpsOpened(p, n)
    <3>1. n = 0 \/ n = 1 \/ n = 2
      OBVIOUS
    <3> QED BY <3>1, <2>1, <1>1, <1>3, UpToTyped
  <2>3. r.file = p.file /\ r.ep = p.ep /\ ~r.ok
    BY <2>1, <2>2 DEF EpsTyped
  <2> QED BY <2>2, <2>3 DEF EpsOpened, Eps
<1> QED BY <1>4, <1>5 DEF init_eps

-----------------------------------------------------------------------------
(* What a step does with a number, and with the number of an entry.         *)

Closes(c) ==
  /\ file' \in [Fds -> Things]
  /\ \A n \in Fds : file'[n] = IF n = c THEN Closed ELSE file[n]

Opens(n, thing) ==
  /\ n \in Numbers /\ file' \in [Fds -> Things]
  /\ n # -1 => n \in Fds /\ file[n] = Closed
  /\ \A m \in Fds : file[m] = Closed => n # -1 /\ n <= m
  /\ \A m \in Fds : file'[m] = IF m = n THEN thing ELSE file[m]

SetsFd(e, fd) ==
  /\ fd \in Numbers /\ e \in DOMAIN db
  /\ db' \in Seq(Entry) /\ DOMAIN db' = DOMAIN db
  /\ \A d \in DOMAIN db : /\ db'[d].obj = db[d].obj
                           /\ db'[d].fd = IF d = e THEN fd ELSE db[d].fd

\* Setting the descriptor of one entry of the list changes that one only.
LEMMA FdSet ==
  ASSUME db \in Seq(Entry), NEW e \in DOMAIN db, NEW fd \in Numbers,
         db' = [db EXCEPT ![e].fd = fd]
  PROVE  SetsFd(e, fd)
<1>1. db \in [DOMAIN db -> Entry] /\ DOMAIN db = 1..Len(db) /\ Len(db) \in Nat
  BY ElementOfSeq, LenProperties
<1>2. PICK p : p = [db[e] EXCEPT !.fd = fd]
  OBVIOUS
<1>3. p \in Entry /\ p.obj = db[e].obj /\ p.fd = fd
  BY <1>1, <1>2 DEF Entry
<1>4. db' = [db EXCEPT ![e] = p]
  BY <1>2
<1>5. db' \in Seq(Entry) /\ DOMAIN db' = DOMAIN db
  BY <1>1, <1>3, <1>4, ExceptSeq
<1>6. \A d \in DOMAIN db : db'[d] = IF d = e THEN p ELSE db[d]
  BY <1>1, <1>4
<1> QED BY <1>3, <1>5, <1>6 DEF SetsFd

\* An entry is added at the end.
LEMMA EntryAdded ==
  ASSUME db \in Seq(Entry), NEW x \in Entry, db' = Append(db, x)
  PROVE  /\ db' \in Seq(Entry) /\ Len(db) \in Nat /\ DOMAIN db = 1..Len(db)
         /\ DOMAIN db' = 1..Len(db) + 1
         /\ db'[Len(db) + 1] = x
         /\ \A d \in DOMAIN db : db'[d] = db[d]
BY AppendProperties, LenProperties

\* deinit_fs_db closes the number of an entry, or nothing.
LEMMA DbDropped ==
  ASSUME db \in Seq(Entry), file \in [Fds -> Things], deinit_fs_db
  PROVE  /\ db' = NULL /\ db' \in Seq(Entry) /\ DOMAIN db' = {}
         /\ \/ db = NULL /\ file' = file
            \/ \E e \in DOMAIN db : Closes(db[e].fd)
<1>1. db' = NULL /\ db' \in Seq(Entry) /\ DOMAIN db' = {}
  BY DEF deinit_fs_db, NULL
<1>2. CASE db = NULL
  BY <1>1, <1>2 DEF deinit_fs_db
<1>3. CASE db # NULL
  <2>1. Len(db) \in DOMAIN db
    BY <1>3, LenProperties, EmptySeq DEF NULL
  <2>2. PICK d : d = db[Len(db)].fd
    OBVIOUS
  <2>3. file' = Close(file, {d})
    BY <1>3, <2>2 DEF deinit_fs_db, Last
  <2>4. Closes(d)
    BY <2>3, ClosedOne DEF Closes
  <2> QED BY <1>1, <2>1, <2>2, <2>4
<1> QED BY <1>2, <1>3

\* entry_close sets the descriptor of its entry to -1 and closes the number.
LEMMA EntryClosed ==
  ASSUME db \in Seq(Entry), file \in [Fds -> Things], NEW e \in DOMAIN db, entry_close(e)
  PROVE  SetsFd(e, -1) /\ Closes(db[e].fd)
<1>1. SetsFd(e, -1)
  BY FdSet DEF entry_close, Numbers
<1>2. file' = Close(file, {db[e].fd})
  BY DEF entry_close
<1>3. Closes(db[e].fd)
  <2>1. PICK d : d = db[e].fd
    OBVIOUS
  <2>2. file' = Close(file, {d})
    BY <1>2, <2>1
  <2>3. Closes(d)
    BY <2>2, ClosedOne DEF Closes
  <2> QED BY <2>1, <2>3
<1> QED BY <1>1, <1>3

\* entry_open goes on with the number there is, opens the file, or fails.
LEMMA EntryOpened ==
  ASSUME db \in Seq(Entry), file \in [Fds -> Things], NEW e \in DOMAIN db, db[e].obj # 0,
         NEW use \in {"get", "send", "edit"}, entry_open(e, use)
  PROVE  \/ (db[e].fd > 0 \/ "path" \in conf.faults) /\ UNCHANGED <<file, db>>
         \/ /\ db[e].fd <= 0
            /\ SetsFd(e, Lowest(file)) /\ Opens(Lowest(file), Object(db[e].obj, Flags(use)))
         \/ db[e].fd <= 0 /\ SetsFd(e, -1) /\ file' = file
<1>1. db[e] \in Entry
  BY ElementOfSeq, LenProperties
<1>2. Flags(use) \in {"r", "w", "rw"} /\ db[e].obj \in Objs
  BY <1>1 DEF Flags, Entry
<1>3. Object(db[e].obj, Flags(use)) \in Things
  BY <1>2, Kinds
<1>4. PICK thing, n : thing = Object(db[e].obj, Flags(use)) /\ n = Lowest(file)
  OBVIOUS
<1>5. n \in Numbers
  BY <1>3, <1>4, Opened
<1>6. file' = Open(file, thing) => Opens(n, thing)
  BY <1>3, <1>4, Opened DEF Opens
<1>7. /\ db' = [db EXCEPT ![e].fd = n] => SetsFd(e, n)
      /\ db' = [db EXCEPT ![e].fd = -1] => SetsFd(e, -1)
  BY <1>5, FdSet DEF Numbers
<1> QED BY <1>4, <1>6, <1>7 DEF entry_open

-----------------------------------------------------------------------------
(* Types.                                                                   *)

\* Typed holds at the start.
LEMMA InitTyped == Init => Typed
<1> SUFFICES ASSUME Init PROVE Typed
  OBVIOUS
<1>1. file \in [Fds -> Things]
  BY Kinds DEF Init
<1>2. MainTyped /\ IoTyped
  BY DEF Init, NoUsb, NoThread, MainTyped, IoTyped, MainPcs, Numbers, Eps
<1>3. db \in Seq(Entry) /\ DOMAIN db = {}
  BY DEF Init, NULL
<1>4. EntriesInv
  BY <1>3 DEF Init, NoThread, EntriesInv
<1> QED BY <1>1, <1>2, <1>3, <1>4 DEF Init, NoUsb, NoThread, Typed

\* Steps of main_thread and of the handler keep the database and the transfer, or
\* there is no transfer any more.
LEMMA MainTypedStep ==
  ASSUME Typed, conf' = conf, file' \in [Fds -> Things], MainTyped', IoTyped',
         \/ db' = db /\ (io' = io \/ io'.pc \notin {"asked", "moving"})
         \/ db' = NULL /\ io'.pc \notin {"asked", "moving"},
         main'.pc \in {"start", "drop", "ended"} => io'.pc = "none"
  PROVE  Typed'
<1>1. db' \in Seq(Entry)
  <2>1. NULL \in Seq(Entry)
    BY DEF NULL
  <2> QED BY <2>1 DEF Typed
<1>2. EntriesInv'
  BY DEF Typed, EntriesInv, NULL
<1> QED BY <1>1, <1>2 DEF Typed

\* The io thread that is not there is typed.
LEMMA NoThreadTyped == NoThread.pc = "none" /\ (io' = NoThread => IoTyped')
BY DEF NoThread, IoTyped

\* init_usb_mtp_gadget keeps the types, whichever of its calls fails.
LEMMA InitUsbTyped == Typed /\ InitUsb => Typed'
<1> SUFFICES ASSUME Typed, InitUsb PROVE Typed'
  OBVIOUS
<1>1. file' \in [Fds -> Things] /\ MainTyped'
  <2>1. PICK n : n = Lowest(file)
    OBVIOUS
  <2>2. NoUsb = [pc |-> "start", usb |-> -1, ep |-> [i \in Eps |-> -1]] /\ -1 \in Numbers
    BY DEF NoUsb, Numbers
  <2>3. CASE n # -1 /\ main' = [NoUsb EXCEPT !.pc = "up", !.usb = n] /\ file' = Open(file, Control)
    <3>1. n \in Numbers /\ file' \in [Fds -> Things]
      BY <2>1, <2>3, Opened, Kinds DEF Typed
    <3>2. main' = [pc |-> "up", usb |-> n, ep |-> [i \in Eps |-> -1]]
      BY <2>2, <2>3
    <3> QED BY <2>2, <2>3, <3>1, <3>2 DEF MainTyped, MainPcs
  <2>4. CASE main' = [NoUsb EXCEPT !.pc = "ended"] /\ UNCHANGED file
    <3>1. main' = [pc |-> "ended", usb |-> -1, ep |-> [i \in Eps |-> -1]]
      BY <2>2, <2>4
    <3> QED BY <2>2, <2>4, <3>1 DEF MainTyped, MainPcs, Typed
  <2> QED BY <2>1, <2>3, <2>4 DEF InitUsb
<1>2. io.pc = "none" /\ conf' = conf /\ io' = io /\ db' = db /\ IoTyped'
  <2>1. io.pc = "none" /\ IoTyped
    BY DEF InitUsb, Typed
  <2>2. io' = io
    BY DEF InitUsb
  <2> QED BY <2>1, <2>2 DEF InitUsb, IoTyped
<1> QED BY <1>1, <1>2, MainTypedStep

\* Enable opens the endpoints or leaves them.
LEMMA Enabled ==
  ASSUME Typed, Enable
  PROVE  \E r : /\ EpsTyped(r)
                /\ \/ main.ep[In] <= 0 /\ r \in init_eps(main.ep)
                   \/ main.ep[In] > 0 /\ r.file = file /\ r.ep = main.ep
                /\ file' = r.file /\ main' = [main EXCEPT !.ep = r.ep]
                /\ \/ io' = io
                   \/ io.pc = "none" /\ io' = [NoThread EXCEPT !.pc = "idle"] /\ r.ok
<1>1. PICK r \in IF main.ep[In] <= 0 THEN init_eps(main.ep) ELSE {NoHandles(main.ep)} :
         /\ file' = r.file
         /\ main' = [main EXCEPT !.ep = r.ep]
         /\ io' = IF r.ok /\ io.pc = "none" THEN [NoThread EXCEPT !.pc = "idle"] ELSE io
  BY DEF Enable
<1>2. file \in [Fds -> Things] /\ main.ep \in [Eps -> Numbers]
  BY DEF Typed, MainTyped
<1>3. CASE main.ep[In] <= 0
  BY <1>1, <1>2, <1>3, InitEpsTyped
<1>4. CASE ~(main.ep[In] <= 0)
  <2>1. r = [file |-> file, ep |-> main.ep, ok |-> TRUE]
    BY <1>1, <1>4 DEF NoHandles
  <2>2. EpsTyped(r)
    BY <2>1, <1>2 DEF EpsTyped
  <2>3. main.ep[In] > 0
    BY <1>2, <1>4, DescriptorsAssumption DEF Numbers, Fds, In, Eps
  <2> QED BY <1>1, <2>1, <2>2, <2>3
<1> QED BY <1>3, <1>4

\* So does ENABLE, whatever init_eps opens.
LEMMA EnableTyped == Typed /\ Enable => Typed'
<1> SUFFICES ASSUME Typed, Enable PROVE Typed'
  OBVIOUS
<1>1. PICK r : /\ EpsTyped(r)
               /\ file' = r.file /\ main' = [main EXCEPT !.ep = r.ep]
               /\ io' = io \/ io' = [NoThread EXCEPT !.pc = "idle"]
  BY Enabled
<1>2. file' \in [Fds -> Things] /\ r.ep \in [Eps -> Numbers]
  BY <1>1 DEF EpsTyped
<1>3. MainTyped'
  BY <1>1, <1>2 DEF Typed, MainTyped
<1>4. IoTyped' /\ (io' = io \/ io'.pc = "idle")
  BY <1>1 DEF Typed, IoTyped, NoThread
<1>5. main'.pc = "up" /\ conf' = conf /\ db' = db
  BY <1>1 DEF Enable, Typed, MainTyped
<1> QED BY <1>2, <1>3, <1>4, <1>5, MainTypedStep

\* deinit_fs_db closes the newest entry and forgets all of them.
LEMMA DropTyped ==
  ASSUME Typed, deinit_fs_db, conf' = conf, MainTyped', IoTyped', 
         io'.pc \notin {"asked", "moving"},
         main'.pc \in {"start", "drop", "ended"} => io'.pc = "none"
  PROVE  Typed'
<1>1. db' = NULL /\ file' \in [Fds -> Things]
  BY DbDropped DEF Typed, Closes
<1> QED BY <1>1, MainTypedStep

\* The other steps of main_thread.
LEMMA MainNextTyped ==
  Typed /\ (Disable \/ Disconnect \/ LeaveEp0 \/ CloseUsb \/ CancelThread \/ DropDb) => Typed'
<1> SUFFICES ASSUME Typed, Disable \/ Disconnect \/ LeaveEp0 \/ CloseUsb \/ CancelThread \/ DropDb
             PROVE  Typed'
  OBVIOUS
<1>0. file \in [Fds -> Things] /\ MainTyped /\ IoTyped
  BY DEF Typed
<1>1. CASE Disable
  <2>1. main' = main /\ main.pc = "up" /\ io' = NoThread /\ conf' = conf /\ deinit_fs_db
    BY <1>1 DEF Disable
  <2>2. MainTyped'
    BY <2>1, <1>0 DEF MainTyped
  <2> QED BY <2>1, <2>2, NoThreadTyped, DropTyped
<1>2. CASE Disconnect
  <2>1. main' = main /\ io' = NoThread /\ conf' = conf /\ file' = file /\ db' = db
    BY <1>2 DEF Disconnect
  <2>2. MainTyped'
    BY <2>1, <1>0 DEF MainTyped
  <2> QED BY <1>0, <2>1, <2>2, NoThreadTyped, MainTypedStep
<1>3. CASE LeaveEp0
  <2>1. main.pc = "up" /\ main' = [main EXCEPT !.pc = "close_in"] /\ io' = io /\ conf' = conf
        /\ file' = file /\ db' = db
    BY <1>3 DEF LeaveEp0
  <2>2. MainTyped' /\ main'.pc = "close_in"
    BY <2>1, <1>0 DEF MainTyped, MainPcs
  <2>3. IoTyped'
    BY <2>1, <1>0 DEF IoTyped
  <2> QED BY <1>0, <2>1, <2>2, <2>3, MainTypedStep
<1>4. CASE CloseUsb
  <2>1. PICK k \in 1..4 :
          /\ main.pc = Closing[k]
          /\ file' = Close(file, {IF k \in Eps THEN main.ep[k] ELSE main.usb})
          /\ main' = [main EXCEPT !.pc = Closing[k + 1], !.usb = IF k = 4 THEN -1 ELSE main.usb]
          /\ UNCHANGED <<conf, io, db>>
    BY <1>4 DEF CloseUsb
  <2>2. PICK c, p, u : /\ c = IF k \in Eps THEN main.ep[k] ELSE main.usb
                       /\ p = Closing[k + 1] /\ u = IF k = 4 THEN -1 ELSE main.usb
    OBVIOUS
  <2>3. file' \in [Fds -> Things]
    BY <1>0, <2>1, <2>2, ClosedOne
  <2>4. /\ p \in {"close_out", "close_int", "close_usb", "cancel"}
        /\ p = "cancel" <=> k = 4
        /\ main.pc \in {"close_in", "close_out", "close_int", "close_usb"}
    BY <2>1, <2>2 DEF Closing
  <2>5. main.usb # -1 /\ u \in Numbers /\ (u = -1 <=> k = 4)
    BY <1>0, <2>2, <2>4 DEF MainTyped, Numbers
  <2>6. main' = [pc |-> p, usb |-> u, ep |-> main.ep]
    BY <1>0, <2>1, <2>2 DEF MainTyped
  <2>7. MainTyped' /\ main'.pc \notin {"start", "drop", "ended"}
    BY <1>0, <2>4, <2>5, <2>6 DEF MainTyped, MainPcs
  <2>8. IoTyped' /\ conf' = conf /\ io' = io /\ db' = db
    BY <2>1, <1>0 DEF IoTyped
  <2> QED BY <2>3, <2>7, <2>8, MainTypedStep
<1>5. CASE CancelThread
  <2>1. /\ main' = [NoUsb EXCEPT !.pc = "drop"]
        /\ io' = NoThread /\ conf' = conf /\ file' = file /\ db' = db
    BY <1>5 DEF CancelThread
  <2>2. MainTyped'
    BY <2>1 DEF MainTyped, NoUsb, MainPcs, Numbers
  <2> QED BY <1>0, <2>1, <2>2, NoThreadTyped, MainTypedStep
<1>6. CASE DropDb
  <2>1. PICK p \in {"start", "ended"} : main' = [main EXCEPT !.pc = p]
    BY <1>6 DEF DropDb
  <2>2. main.pc = "drop" /\ io' = io /\ conf' = conf /\ deinit_fs_db /\ io.pc = "none"
    BY <1>6 DEF DropDb, Typed
  <2>3. MainTyped'
    BY <2>1, <2>2, <1>0 DEF MainTyped, MainPcs
  <2>4. IoTyped'
    BY <2>2, <1>0 DEF IoTyped
  <2> QED BY <2>2, <2>3, <2>4, DropTyped
<1> QED BY <1>1, <1>2, <1>3, <1>4, <1>5, <1>6

\* Steps of the thread leave main_thread alone, and the entries in their order.
LEMMA IoTypedStep ==
  ASSUME Typed, conf' = conf, main' = main, file' \in [Fds -> Things], IoTyped',
         io.pc # "none",
         \/ db' = db
         \/ \E e, fd : SetsFd(e, fd),
         \/ io'.pc \notin {"asked", "moving"}
         \/ io.pc \in {"asked", "moving"} /\ io'.e = io.e /\ io'.use = io.use
  PROVE  Typed'
<1>1. db' \in Seq(Entry) /\ DOMAIN db' = DOMAIN db /\ \A d \in DOMAIN db : db'[d].obj = db[d].obj
  BY DEF Typed, SetsFd
<1>2. EntriesInv'
  BY <1>1 DEF Typed, EntriesInv
<1>3. MainTyped'
  BY DEF Typed, MainTyped
<1> QED BY <1>1, <1>2, <1>3 DEF Typed

\* An answered request leaves the thread idle, or ended where the gadget goes down.
LEMMA AnsweredTyped ==
  ASSUME io' = Answered
  PROVE  IoTyped' /\ io'.pc = IF main.pc = "up" THEN "idle" ELSE "ended"
BY DEF Answered, NoThread, IoTyped

\* What OpenFile does.
LEMMA FileOpened ==
  ASSUME Typed, OpenFile
  PROVE  /\ io.e \in DOMAIN db /\ io.use \in {"get", "send", "edit"} \cap conf.uses
         /\ db[io.e].obj \in Objs
         /\ \/ (db[io.e].fd > 0 \/ "path" \in conf.faults) /\ UNCHANGED <<file, db>>
            \/ /\ db[io.e].fd <= 0
               /\ SetsFd(io.e, Lowest(file))
               /\ Opens(Lowest(file), Object(db[io.e].obj, Flags(io.use)))
            \/ db[io.e].fd <= 0 /\ SetsFd(io.e, -1) /\ file' = file
<1>1. /\ io.e \in DOMAIN db /\ db[io.e].obj # 0
      /\ io.use \in {"get", "send", "edit"} /\ io.use \in conf.uses
  BY DEF OpenFile, Typed, EntriesInv, IoTyped
<1>2. db[io.e] \in Entry
  BY <1>1, ElementOfSeq, LenProperties DEF Typed
<1> QED BY <1>1, <1>2, EntryOpened DEF OpenFile, Typed, Entry

\* The steps of the io thread that name no entry keep the types.
LEMMA IoNextTyped ==
  Typed /\ (ReadRequestFails \/ OpenSession \/ CloseSession \/ OpenFile \/ EndTransfer \/ ReadFails)
    => Typed'
<1> SUFFICES ASSUME Typed,
                    \/ ReadRequestFails \/ OpenSession \/ CloseSession
                    \/ OpenFile \/ EndTransfer \/ ReadFails
             PROVE  Typed'
  OBVIOUS
<1>0. file \in [Fds -> Things] /\ MainTyped /\ IoTyped /\ db \in Seq(Entry)
  BY DEF Typed
<1>1. CASE ReadRequestFails
  <2>1. io.pc = "idle" /\ io' = [io EXCEPT !.pc = "ended"] /\ conf' = conf /\ main' = main
        /\ file' = file /\ db' = db
    BY <1>1 DEF ReadRequestFails
  <2>2. IoTyped' /\ io'.pc = "ended"
    BY <2>1, <1>0 DEF IoTyped
  <2> QED BY <1>0, <2>1, <2>2, IoTypedStep
<1>2. CASE OpenSession
  <2>1. io.pc = "idle" /\ db' = <<Root>> /\ conf' = conf /\ main' = main
        /\ file' = file /\ io' = io
    BY <1>2 DEF OpenSession
  <2>2. Root \in Entry
    BY DescriptorsAssumption DEF Root, Entry, Numbers, Fds
  <2>3. db' \in Seq(Entry) /\ DOMAIN db' = {1}
    BY <2>1, <2>2
  <2>4. EntriesInv'
    BY <2>1, <2>3 DEF EntriesInv
  <2> QED BY <2>1, <2>3, <2>4 DEF Typed, MainTyped, IoTyped
<1>3. CASE CloseSession
  <2>1. io.pc = "idle" /\ deinit_fs_db /\ conf' = conf /\ main' = main /\ io' = io
    BY <1>3 DEF CloseSession
  <2>2. MainTyped' /\ IoTyped' /\ main.pc \notin {"start", "drop", "ended"}
    BY <2>1 DEF Typed, MainTyped, IoTyped
  <2> QED BY <2>1, <2>2, DropTyped
<1>4. CASE OpenFile
  <2>1. conf' = conf /\ main' = main /\ io.pc = "asked"
    BY <1>4 DEF OpenFile
  <2>2. \/ file' = file /\ db' = db
        \/ \E n, t : Opens(n, t) /\ SetsFd(io.e, n)
        \/ file' = file /\ SetsFd(io.e, -1)
    BY <1>4, FileOpened
  <2>3. file' \in [Fds -> Things] /\ (db' = db \/ \E e, fd : SetsFd(e, fd))
    BY <1>0, <2>2 DEF Opens
  <2>4. CASE io' = Answered
    BY <1>0, <2>1, <2>3, <2>4, AnsweredTyped, IoTypedStep
  <2>5. CASE io' = [io EXCEPT !.pc = "moving"]
    <3>1. IoTyped' /\ io'.e = io.e /\ io'.use = io.use
      BY <1>0, <2>5 DEF IoTyped
    <3> QED BY <1>0, <2>1, <2>3, <3>1, IoTypedStep
  <2> QED BY <1>4, <2>4, <2>5 DEF OpenFile
<1>5. CASE EndTransfer \/ ReadFails
  <2>1. conf' = conf /\ main' = main /\ io.pc = "moving" /\ io' = Answered
    BY <1>5 DEF EndTransfer, ReadFails
  <2>2. UNCHANGED <<file, db>> \/ entry_close(io.e)
    BY <1>5 DEF EndTransfer, ReadFails
  <2>3. io.e \in DOMAIN db
    BY <2>1 DEF Typed, EntriesInv
  <2>4. file' \in [Fds -> Things] /\ (db' = db \/ \E e, fd : SetsFd(e, fd))
    BY <1>0, <2>2, <2>3, EntryClosed DEF Closes
  <2> QED BY <1>0, <2>1, <2>4, AnsweredTyped, IoTypedStep
<1> QED BY <1>1, <1>2, <1>3, <1>4, <1>5

\* A new entry has 0 as its descriptor.
LEMMA AddEntryTyped == ASSUME Typed, NEW o \in Objs, AddEntry(o) PROVE Typed'
<1>1. io.pc # "none" /\ conf' = conf /\ file' = file /\ main' = main /\ io' = io
      /\ db' = Append(db, [obj |-> o, fd |-> 0]) /\ \A e \in DOMAIN db : db[e].obj # o
  BY DEF AddEntry
<1>2. PICK x : x = [obj |-> o, fd |-> 0]
  OBVIOUS
<1>3. x \in Entry /\ x.obj = o
  BY <1>2, DescriptorsAssumption DEF Entry, Numbers, Fds
<1>4. db \in Seq(Entry) /\ db' = Append(db, x)
  BY <1>1, <1>2 DEF Typed
<1>5. /\ db' \in Seq(Entry) /\ Len(db) \in Nat /\ DOMAIN db = 1..Len(db)
      /\ DOMAIN db' = 1..Len(db) + 1
      /\ db'[Len(db) + 1] = x
      /\ \A d \in DOMAIN db : db'[d] = db[d]
  BY <1>3, <1>4, EntryAdded
<1>6. EntriesInv'
  <2>1. io.pc \in {"asked", "moving"} =>
          io.e \in DOMAIN db /\ db[io.e].obj # 0 /\ io.use \in conf.uses /\ io.use # "none"
    BY DEF Typed, EntriesInv
  <2>2. \A d, e \in DOMAIN db : db[d].obj = db[e].obj => d = e
    BY DEF Typed, EntriesInv
  <2>3. \A d, e \in DOMAIN db' : db'[d].obj = db'[e].obj => d = e
    BY <1>1, <1>3, <1>5, <2>2
  <2>4. io'.pc \in {"asked", "moving"} =>
          io'.e \in DOMAIN db' /\ db'[io'.e].obj # 0 /\ io'.use \in conf'.uses /\ io'.use # "none"
    BY <1>1, <1>5, <2>1
  <2> QED BY <2>3, <2>4 DEF EntriesInv
<1>7. file' \in [Fds -> Things] /\ MainTyped' /\ IoTyped'
  BY <1>1 DEF Typed, MainTyped, IoTyped
<1> QED BY <1>1, <1>5, <1>6, <1>7 DEF Typed

\* A request picks an entry of the list.
LEMMA RequestTyped ==
  ASSUME Typed, NEW use \in {"get", "send", "edit"}, NEW e \in DOMAIN db, Request(use, e)
  PROVE  Typed'
<1>1. /\ conf' = conf /\ file' = file /\ main' = main /\ db' = db
      /\ io' = [pc |-> "asked", use |-> use, e |-> e]
      /\ io.pc = "idle" /\ use \in conf.uses /\ db[e].obj # 0
  BY DEF Request
<1>2. e \in Nat
  BY LenProperties DEF Typed
<1>3. IoTyped' /\ EntriesInv'
  BY <1>1, <1>2 DEF IoTyped, EntriesInv, Typed
<1>4. MainTyped'
  BY <1>1 DEF Typed, MainTyped
<1> QED BY <1>1, <1>3, <1>4 DEF Typed

\* EndEditObject closes the descriptor of its entry.
LEMMA EndEditTyped == ASSUME Typed, NEW e \in DOMAIN db, EndEditObject(e) PROVE Typed'
<1>1. conf' = conf /\ main' = main /\ io' = io /\ io.pc = "idle" /\ entry_close(e)
  BY DEF EndEditObject
<1>2. SetsFd(e, -1) /\ file' \in [Fds -> Things]
  BY <1>1, EntryClosed DEF Typed, Closes
<1>3. IoTyped'
  BY <1>1 DEF Typed, IoTyped
<1> QED BY <1>1, <1>2, <1>3, IoTypedStep

\* A stutter keeps the types.
LEMMA StutterTyped == Typed /\ UNCHANGED vars => Typed'
BY DEF vars, Typed, MainTyped, IoTyped, EntriesInv

\* Every step keeps the types.
LEMMA NextTyped == Typed /\ [Next]_vars => Typed'
BY InitUsbTyped, EnableTyped, MainNextTyped, IoNextTyped, AddEntryTyped, RequestTyped,
   EndEditTyped, StutterTyped DEF Next

\* Typed is at least the type invariant.
LEMMA TypedGivesTypeOK == Typed => TypeOK
<1>1. ToSet(Closing) = {"close_in", "close_out", "close_int", "close_usb", "cancel"}
  BY DEF ToSet, Closing
<1> QED BY <1>1 DEF Typed, TypeOK, MainTyped, IoTyped, EntriesInv, MainPcs, Numbers, Entry

\* Typed holds in every state.
LEMMA TypedCorrect == Spec => []Typed
<1> QED BY InitTyped, NextTyped, PTL DEF Spec

\* The state is well typed: a thread serves only while a gadget exists, and its
\* transfer is of an entry that is in the database (main_thread, io_thread).
THEOREM TypeCorrect == Spec => []TypeOK
<1> QED BY TypedCorrect, TypedGivesTypeOK, PTL

-----------------------------------------------------------------------------
(* No file stays open behind a transfer.                                    *)

Copying == "edit" \notin conf.uses /\ conf.faults \cap {"cut", "path"} = {}

\* A step that opens no file and leaves the transfer that goes on alone.
LEMMA LeakKept ==
  ASSUME LeakInv, conf' = conf,
         Copying => \A n \in Fds : file'[n].kind = "object" => file[n].kind = "object",
         Copying /\ io.pc = "moving" => io'.pc = "moving" /\ db'[io'.e].fd = db[io.e].fd
  PROVE  LeakInv'
BY DEF LeakInv, Copying

\* Neither does a close.
LEMMA NothingOpened ==
  ASSUME NEW c, Closes(c)
  PROVE  \A n \in Fds : file'[n].kind = "object" => file[n].kind = "object"
BY Kinds DEF Closes

\* deinit_fs_db opens no file.
LEMMA DropOpensNothing ==
  ASSUME Typed, deinit_fs_db
  PROVE  \A n \in Fds : file'[n].kind = "object" => file[n].kind = "object"
<1>1. file' = file \/ \E c : Closes(c)
  BY DbDropped DEF Typed
<1> QED BY <1>1, NothingOpened

\* The steps of the control endpoint handler and of main_thread open no object.
LEMMA MainLeak ==
  ASSUME Typed, LeakInv,
         \/ InitUsb \/ Enable \/ Disable \/ Disconnect
         \/ LeaveEp0 \/ CloseUsb \/ CancelThread \/ DropDb
  PROVE  LeakInv'
<1>0. file \in [Fds -> Things]
  BY DEF Typed
<1>1. CASE InitUsb
  <2>1. io.pc = "none" /\ conf' = conf
    BY <1>1 DEF InitUsb, Typed
  <2>2. \A n \in Fds : Open(file, Control)[n] = IF n = Lowest(file) THEN Control ELSE file[n]
    BY <1>0, Opened, Kinds
  <2>3. file' = Open(file, Control) \/ file' = file
    BY <1>1 DEF InitUsb
  <2>4. \A n \in Fds : file'[n].kind = "object" => file[n].kind = "object"
    BY <2>2, <2>3, Kinds
  <2> QED BY <2>1, <2>4, LeakKept
<1>2. CASE Enable
  <2>1. PICK r : /\ EpsTyped(r) /\ file' = r.file
                 /\ io' = io \/ io.pc = "none"
    BY <1>2, Enabled
  <2>2. \A n \in Fds : file'[n].kind = "object" => file[n].kind = "object"
    BY <2>1 DEF EpsTyped
  <2>3. conf' = conf /\ db' = db
    BY <1>2 DEF Enable
  <2> QED BY <2>1, <2>2, <2>3, LeakKept
<1>3. CASE Disable
  <2>1. deinit_fs_db /\ conf' = conf /\ io.pc # "moving"
    BY <1>3 DEF Disable
  <2> QED BY <2>1, DropOpensNothing, LeakKept
<1>4. CASE Disconnect
  <2>1. file' = file /\ conf' = conf /\ (Copying => io.pc # "moving")
    BY <1>4 DEF Disconnect, Copying
  <2> QED BY <2>1, LeakKept
<1>5. CASE LeaveEp0
  BY <1>5, LeakKept DEF LeaveEp0
<1>6. CASE CloseUsb
  <2>1. conf' = conf /\ io' = io /\ db' = db
    BY <1>6 DEF CloseUsb
  <2>2. PICK c : file' = Close(file, {c})
    BY <1>6 DEF CloseUsb
  <2>3. Closes(c)
    BY <1>0, <2>2, ClosedOne DEF Closes
  <2> QED BY <2>1, <2>3, NothingOpened, LeakKept
<1>7. CASE CancelThread
  <2>1. file' = file /\ conf' = conf /\ (Copying => io.pc # "moving")
    BY <1>7 DEF CancelThread, Copying
  <2> QED BY <2>1, LeakKept
<1>8. CASE DropDb
  <2>1. deinit_fs_db /\ conf' = conf /\ io.pc = "none"
    BY <1>8 DEF DropDb, Typed
  <2> QED BY <2>1, DropOpensNothing, LeakKept
<1> QED BY <1>1, <1>2, <1>3, <1>4, <1>5, <1>6, <1>7, <1>8

\* entry_open opens the file of its own transfer.
LEMMA OpenLeak ==
  ASSUME Typed, LeakInv, OpenFile
  PROVE  LeakInv'
<1> SUFFICES ASSUME Copying,
                    NEW n \in Fds, file'[n].kind = "object"
             PROVE  io'.pc = "moving" /\ db'[io'.e].fd = n
  <2>1. conf' = conf
    BY DEF OpenFile
  <2> QED BY <2>1 DEF LeakInv, Copying
<1>1. io.pc = "asked" /\ \A m \in Fds : file[m].kind # "object"
  BY DEF OpenFile, LeakInv, Copying
<1>2. PICK k, t : /\ file' # file => Opens(k, t) /\ SetsFd(io.e, k)
                  /\ io.e \in DOMAIN db
  BY FileOpened
<1>3. n = k /\ db'[io.e].fd = n
  BY <1>1, <1>2 DEF Opens, SetsFd
<1>4. n # -1 /\ io' = [io EXCEPT !.pc = "moving"]
  BY <1>3, DescriptorsAssumption DEF OpenFile, Fds
<1> QED BY <1>3, <1>4 DEF Typed, IoTyped

\* The end of a transfer closes the file it is of.
LEMMA EndLeak ==
  ASSUME Typed, LeakInv, EndTransfer \/ ReadFails
  PROVE  LeakInv'
<1>1. conf' = conf /\ io.pc = "moving" /\ io.e \in DOMAIN db /\ io.use \in conf.uses
  BY DEF EndTransfer, ReadFails, Typed, EntriesInv
<1>2. Copying => entry_close(io.e)
  BY <1>1 DEF EndTransfer, ReadFails, Copying
<1>3. Copying => Closes(db[io.e].fd)
  BY <1>1, <1>2, EntryClosed DEF Typed
<1>4. Copying => \A n \in Fds : file'[n].kind # "object"
  BY <1>3, Kinds DEF LeakInv, Copying, Closes
<1> QED BY <1>1, <1>4 DEF LeakInv, Copying

\* Every step keeps LeakInv.
LEMMA LeakStep == Typed /\ LeakInv /\ [Next]_vars => LeakInv'
<1> SUFFICES ASSUME Typed, LeakInv, [Next]_vars PROVE LeakInv'
  OBVIOUS
<1>1. CASE ReadRequestFails
  BY <1>1, LeakKept DEF ReadRequestFails
<1>2. CASE OpenSession
  BY <1>2, LeakKept DEF OpenSession
<1>3. CASE CloseSession
  BY <1>3, DropOpensNothing, LeakKept DEF CloseSession
<1>4. CASE \E o \in Objs : AddEntry(o)
  <2>1. PICK o \in Objs : AddEntry(o)
    BY <1>4
  <2>2. conf' = conf /\ file' = file /\ io' = io /\ db' = Append(db, [obj |-> o, fd |-> 0])
    BY <2>1 DEF AddEntry
  <2>3. io.pc = "moving" => io.e \in 1..Len(db)
    BY LenProperties DEF Typed, EntriesInv
  <2>4. [obj |-> o, fd |-> 0] \in Entry
    BY DescriptorsAssumption DEF Entry, Numbers, Fds
  <2>5. io.pc = "moving" => db'[io.e] = db[io.e]
    BY <2>2, <2>3, <2>4, AppendProperties DEF Typed
  <2> QED BY <2>2, <2>5, LeakKept
<1>5. CASE \E use \in {"get", "send", "edit"}, e \in DOMAIN db : Request(use, e)
  BY <1>5, LeakKept DEF Request
<1>6. CASE \E e \in DOMAIN db : EndEditObject(e)
  <2>1. PICK e \in DOMAIN db : EndEditObject(e)
    BY <1>6
  <2>2. Closes(db[e].fd) /\ conf' = conf /\ io.pc = "idle"
    BY <2>1, EntryClosed DEF EndEditObject, Typed
  <2> QED BY <2>2, NothingOpened, LeakKept
<1>7. CASE UNCHANGED vars
  BY <1>7, LeakKept DEF vars
<1> QED BY <1>1, <1>2, <1>3, <1>4, <1>5, <1>6, <1>7, MainLeak, OpenLeak, EndLeak DEF Next

\* No object's file stays open behind a transfer, for hosts that copy files and
\* threads that are not cancelled in a transfer, whatever ends it and whatever
\* fails to open (mtp_ops_helpers.c:109, mtp_op_sendobject.c:150).
THEOREM NoLeakCorrect == Spec => []NoLeak
<1>1. Init => LeakInv
  BY Kinds DEF Init, LeakInv
<1>2. Typed /\ LeakInv => NoLeak
  BY DEF LeakInv, NoLeak
<1> QED BY <1>1, <1>2, LeakStep, TypedCorrect, PTL DEF Spec

-----------------------------------------------------------------------------
(* The numbers of the gadget and of the entries stay theirs.                *)

\* The places of main_thread at which an endpoint is not closed yet, one by one.
LEMMA Befores ==
  /\ Before(1) = {"up", "close_in"}
  /\ Before(2) = {"up", "close_in", "close_out"}
  /\ Before(3) = {"up", "close_in", "close_out", "close_int"}
<1>1. 1..1 = {1} /\ 1..2 = {1, 2} /\ 1..3 = {1, 2, 3}
  OBVIOUS
<1> QED BY <1>1 DEF Before, Closing

\* The numbers are numbers, and 0 is one of them.
LEMMA NumbersNat == Fds \subseteq Nat /\ 0 \in Fds /\ Numbers = Fds \cup {-1}
BY DescriptorsAssumption DEF Fds, Numbers

\* What the holders keep are numbers or -1.
LEMMA EpNumbers ==
  ASSUME Typed
  PROVE  /\ \A i \in Eps : main.ep[i] \in Numbers
         /\ \A e \in DOMAIN db : db[e].fd \in Numbers
         /\ main.usb \in Numbers
<1>1. \A e \in DOMAIN db : db[e] \in Entry
  BY LenProperties, ElementOfSeq DEF Typed
<1> QED BY <1>1 DEF Typed, MainTyped, Entry

\* What a number stands for stays when another is opened.
LEMMA OpensFree ==
  ASSUME NEW n, NEW t, Opens(n, t), NEW m \in Fds, file[m] # Closed
  PROVE  file'[m] = file[m]
<1>1. m # n
  <2>1. -1 \notin Fds
    BY NumbersNat
  <2> QED BY <2>1 DEF Opens
<1> QED BY <1>1 DEF Opens

\* The number of an entry is its own, or 0, or none.
LEMMA EntryCloses ==
  ASSUME Typed, Sound, NEW e \in DOMAIN db, Closes(db[e].fd)
  PROVE  /\ \A i \in Eps : main.ep[i] # -1 =>
              \/ file'[main.ep[i]] = file[main.ep[i]]
              \/ file'[main.ep[i]] = Closed /\ file[main.ep[i]] # Ep(i)
         /\ main.usb > 0 => file'[main.usb] = file[main.usb]
         /\ \A d \in DOMAIN db \ {e} : db[d].fd > 0 => file'[db[d].fd] = file[db[d].fd]
<1> DEFINE c == db[e].fd
<1>1. c \in Numbers /\ (c > 0 => file[c].kind = "object" /\ file[c].of = db[e].obj)
  BY EpNumbers DEF Sound, FilesInv
<1>2. \A n \in Fds : file'[n] = IF n = c THEN Closed ELSE file[n]
  BY DEF Closes
<1>3. ASSUME NEW i \in Eps, main.ep[i] # -1
      PROVE  \/ file'[main.ep[i]] = file[main.ep[i]]
             \/ file'[main.ep[i]] = Closed /\ file[main.ep[i]] # Ep(i)
  <2>0. main.ep[i] \in Numbers /\ main.ep[i] # 0
    BY EpNumbers DEF Sound, EndpointsInv
  <2>1. main.ep[i] \in Fds /\ main.ep[i] > 0
    <3>1. \A n \in Fds : n # 0 => n > 0
      BY NumbersNat
    <3> QED BY <1>3, <2>0, <3>1, NumbersNat
  <2>2. Ep(i).kind # "object"
    BY Kinds
  <2>3. CASE main.ep[i] = c
    BY <1>1, <1>2, <2>1, <2>2, <2>3
  <2>4. CASE main.ep[i] # c
    BY <1>2, <2>1, <2>4
  <2> QED BY <2>3, <2>4
<1>4. main.usb > 0 => file'[main.usb] = file[main.usb]
  <2>1. main.usb > 0 => main.usb \in Fds /\ file[main.usb] = Control
    <3>1. main.usb \in Numbers
      BY EpNumbers
    <3>2. main.usb > 0 => main.usb # -1
      OBVIOUS
    <3> QED BY <3>1, <3>2, NumbersNat DEF Sound, FilesInv
  <2> QED BY <1>1, <1>2, <2>1, Kinds
<1>5. ASSUME NEW d \in DOMAIN db \ {e}, db[d].fd > 0
      PROVE  file'[db[d].fd] = file[db[d].fd]
  <2>0. db[d].fd \in Numbers /\ db[d].fd # -1
    BY <1>5, EpNumbers
  <2>1. db[d].fd \in Fds /\ file[db[d].fd].of = db[d].obj
    BY <1>5, <2>0, NumbersNat DEF Sound, FilesInv
  <2>2. db[d].obj # db[e].obj
    BY DEF Typed, EntriesInv
  <2> QED BY <1>1, <1>2, <1>5, <2>1, <2>2
<1> QED BY <1>3, <1>4, <1>5

\* A step of the thread, or of the handler on the thread or the database.
LEMMA EndpointsKept ==
  ASSUME EndpointsInv, main' = main,
         \A i \in Eps : main.ep[i] # -1 =>
           \/ file'[main.ep[i]] = file[main.ep[i]]
           \/ file'[main.ep[i]] = Closed /\ file[main.ep[i]] # Ep(i),
         io'.pc \in {"idle", "asked"} => io.pc \in {"idle", "asked"} \/ main.pc = "up"
  PROVE  EndpointsInv'
<1>1. "up" \in Before(In)
  BY DEF Before
<1> QED BY <1>1 DEF EndpointsInv, Before, Eps, In

\* deinit_fs_db closes no endpoint that is still an endpoint, and not the gadget.
LEMMA DropSound ==
  ASSUME Typed, Sound, deinit_fs_db
  PROVE  /\ \A i \in Eps : main.ep[i] # -1 =>
              \/ file'[main.ep[i]] = file[main.ep[i]]
              \/ file'[main.ep[i]] = Closed /\ file[main.ep[i]] # Ep(i)
         /\ main.usb > 0 => file'[main.usb] = file[main.usb]
         /\ db' = NULL /\ DOMAIN db' = {}
         /\ db = NULL => file' = file
<1>1. db' = NULL /\ DOMAIN db' = {}
  BY DbDropped DEF Typed
<1>2. (db = NULL /\ file' = file) \/ \E e \in DOMAIN db : Closes(db[e].fd)
  BY DbDropped DEF Typed
<1>3. NULL = <<>> /\ DOMAIN NULL = {}
  BY DEF NULL
<1> QED BY <1>1, <1>2, <1>3, EntryCloses

\* entry_close keeps what is known of open objects.
LEMMA EntryClosedFiles ==
  ASSUME Typed, Sound, NEW e \in DOMAIN db, entry_close(e), main' = main
  PROVE  FilesInv'
<1>1. SetsFd(e, -1) /\ Closes(db[e].fd)
  BY EntryClosed DEF Typed
<1>2. /\ main.usb > 0 => file'[main.usb] = file[main.usb]
      /\ \A d \in DOMAIN db \ {e} : db[d].fd > 0 => file'[db[d].fd] = file[db[d].fd]
  BY <1>1, EntryCloses
<1> QED BY <1>1, <1>2 DEF Sound, FilesInv, SetsFd

\* The thread is there: the first endpoint is open.
LEMMA ThreadFirst == Typed /\ Sound /\ io.pc # "none" /\ main' = main => FirstInv'
BY DEF Typed, Sound, FirstInv

\* entry_close keeps the whole of Sound, wherever the thread goes.
LEMMA EntryClosedSound ==
  ASSUME Typed, Sound, NEW e \in DOMAIN db, entry_close(e), main' = main, io.pc # "none",
         io'.pc \in {"idle", "asked"} => io.pc \in {"idle", "asked"} \/ main.pc = "up"
  PROVE  Sound'
<1>1. Closes(db[e].fd)
  BY EntryClosed DEF Typed
<1>2. EndpointsInv'
  BY <1>1, EntryCloses, EndpointsKept DEF Sound
<1> QED BY <1>2, EntryClosedFiles, ThreadFirst DEF Sound

\* The file a transfer opens takes a free number; where OUT is closed IN is too,
\* and has the lower one.
LEMMA OpensSpare ==
  ASSUME Typed, Sound, io.pc = "asked", NEW n, NEW t, Opens(n, t)
  PROVE  \A i \in Eps : main.ep[i] # -1 =>
           \/ file'[main.ep[i]] = file[main.ep[i]]
           \/ i = In /\ main.pc \notin Before(In)
<1> SUFFICES ASSUME NEW i \in Eps, main.ep[i] # -1, ~(i = In /\ main.pc \notin Before(In))
             PROVE  file'[main.ep[i]] = file[main.ep[i]]
  OBVIOUS
<1>1. main.ep[i] \in Fds
  BY EpNumbers, NumbersNat
<1>2. n # main.ep[i]
  <2>1. CASE main.pc \in Before(i)
    <3>1. file[main.ep[i]] = Ep(i) /\ Ep(i) # Closed
      BY <2>1, Kinds DEF Sound, EndpointsInv
    <3> QED BY <1>1, <3>1, NumbersNat DEF Opens
  <2>2. CASE main.pc \notin Before(i)
    <3>1. i # In
      BY <2>2
    <3>2. main.pc \notin Before(In)
      BY <2>2, Befores DEF Eps, In
    <3>3. main.ep[In] # -1 /\ main.ep[In] < main.ep[i]
      BY <3>1 DEF Sound, EndpointsInv
    <3>4. file[main.ep[In]] = Closed
      BY <3>2, <3>3 DEF Sound, EndpointsInv
    <3>5. main.ep[In] \in Fds
      BY <3>3, EpNumbers, NumbersNat DEF Eps, In
    <3>6. n \in Numbers /\ n # -1 /\ n <= main.ep[In]
      BY <3>4, <3>5 DEF Opens
    <3>7. n \in Nat /\ main.ep[In] \in Nat /\ main.ep[i] \in Nat
      BY <1>1, <3>5, <3>6, NumbersNat
    <3> QED BY <3>3, <3>6, <3>7
  <2> QED BY <2>1, <2>2
<1> QED BY <1>1, <1>2 DEF Opens

\* entry_open takes a number no endpoint has, or the one its entry has.
LEMMA OpenFileSound == ASSUME Typed, Sound, OpenFile PROVE Sound'
<1>1. main' = main /\ io.pc = "asked" /\ io.e \in DOMAIN db /\ db[io.e].obj \in Objs
      /\ io.use \in {"get", "send", "edit"}
  BY FileOpened DEF OpenFile
<1>2. io'.pc \in {"idle", "asked"} => main.pc = "up"
  BY DEF OpenFile, Answered, NoThread, Typed, IoTyped
<1>3. CASE UNCHANGED <<file, db>>
  <2>1. EndpointsInv'
    BY <1>1, <1>2, <1>3, EndpointsKept DEF Sound
  <2>2. FilesInv'
    BY <1>1, <1>3 DEF Sound, FilesInv
  <2> QED BY <1>1, <2>1, <2>2, ThreadFirst DEF Sound
<1>4. CASE SetsFd(io.e, -1) /\ file' = file
  <2>1. EndpointsInv'
    BY <1>1, <1>2, <1>4, EndpointsKept DEF Sound
  <2>2. FilesInv'
    BY <1>1, <1>4 DEF Sound, FilesInv, SetsFd
  <2> QED BY <1>1, <2>1, <2>2, ThreadFirst DEF Sound
<1>5. CASE SetsFd(io.e, Lowest(file)) /\ Opens(Lowest(file), Object(db[io.e].obj, Flags(io.use)))
  <2>1. PICK n, t : /\ SetsFd(io.e, n) /\ Opens(n, t)
                    /\ t.kind = "object" /\ t.of = db[io.e].obj
    <3>1. Flags(io.use) \in {"r", "w", "rw"}
      BY <1>1 DEF Flags
    <3> QED BY <1>1, <1>5, <3>1, Kinds
  <2>2. \A i \in Eps : main.ep[i] # -1 =>
          \/ file'[main.ep[i]] = file[main.ep[i]]
          \/ i = In /\ main.pc \notin Before(In)
    BY <1>1, <2>1, OpensSpare
  <2>3. EndpointsInv'
    <3>1. "up" \in Before(In) /\ \A i \in Eps : Before(In) \subseteq Before(i)
      BY Befores DEF Eps, In
    <3> QED BY <1>1, <1>2, <2>2, <3>1 DEF Sound, EndpointsInv, Before, Eps, In
  <2>4. FilesInv'
    <3>1. main.usb > 0 => file'[main.usb] = file[main.usb]
      <4>1. main.usb > 0 => main.usb # -1
        OBVIOUS
      <4>2. main.usb > 0 => main.usb \in Fds /\ file[main.usb] # Closed
        <5>1. main.usb \in Numbers /\ (main.usb > 0 => file[main.usb] = Control)
          BY EpNumbers DEF Sound, FilesInv
        <5>2. Control # Closed
          BY Kinds
        <5> QED BY <4>1, <5>1, <5>2, NumbersNat
      <4> QED BY <2>1, <4>2, OpensFree
    <3>2. ASSUME NEW d \in DOMAIN db \ {io.e}, db[d].fd > 0
          PROVE  file'[db[d].fd] = file[db[d].fd]
      <4>1. db[d].fd \in Numbers /\ db[d].fd # -1
        BY <3>2, EpNumbers
      <4>2. db[d].fd \in Fds /\ file[db[d].fd] # Closed
        <5>1. file[db[d].fd].kind # Closed.kind
          BY <3>2, Kinds DEF Sound, FilesInv
        <5> QED BY <4>1, <5>1, NumbersNat
      <4> QED BY <2>1, <4>2, OpensFree
    <3>3. n > 0 => file'[n] = t
      <4>1. n > 0 => n # -1
        OBVIOUS
      <4> QED BY <2>1, <4>1 DEF Opens
    <3> QED BY <1>1, <2>1, <3>1, <3>2, <3>3 DEF Sound, FilesInv, SetsFd
  <2> QED BY <1>1, <2>3, <2>4, ThreadFirst DEF Sound
<1> QED BY <1>3, <1>4, <1>5, FileOpened

\* The other steps of the io thread keep Sound.
LEMMA IoSound ==
  ASSUME Typed, Sound,
         \/ ReadRequestFails \/ OpenSession \/ CloseSession
         \/ EndTransfer \/ ReadFails
         \/ \E use \in {"get", "send", "edit"}, e \in DOMAIN db : Request(use, e)
         \/ \E e \in DOMAIN db : EndEditObject(e)
  PROVE  Sound'
<1>1. CASE \/ ReadRequestFails
           \/ \E use \in {"get", "send", "edit"}, e \in DOMAIN db : Request(use, e)
  <2>1. io.pc = "idle" /\ main' = main /\ file' = file /\ db' = db
    BY <1>1 DEF ReadRequestFails, Request
  <2>2. FilesInv' /\ EndpointsInv'
    BY <2>1, EndpointsKept DEF Sound, FilesInv
  <2> QED BY <2>1, <2>2, ThreadFirst DEF Sound
<1>2. CASE OpenSession
  <2>1. io.pc = "idle" /\ main' = main /\ file' = file /\ io' = io /\ db' = <<Root>>
    BY <1>2 DEF OpenSession
  <2>2. EndpointsInv'
    BY <2>1, EndpointsKept DEF Sound
  <2>3. DOMAIN db' = {1} /\ db'[1].fd = 0
    BY <2>1 DEF Root
  <2>4. FilesInv'
    BY <2>1, <2>3 DEF Sound, FilesInv
  <2> QED BY <2>1, <2>2, <2>4, ThreadFirst DEF Sound
<1>3. CASE CloseSession
  <2>1. io.pc = "idle" /\ main' = main /\ io' = io /\ deinit_fs_db
    BY <1>3 DEF CloseSession
  <2>2. EndpointsInv'
    BY <2>1, DropSound, EndpointsKept DEF Sound
  <2>3. FilesInv'
    BY <2>1, DropSound DEF Sound, FilesInv
  <2> QED BY <2>1, <2>2, <2>3, ThreadFirst DEF Sound
<1>4. CASE EndTransfer \/ ReadFails
  <2>1. io.pc = "moving" /\ main' = main /\ io.e \in DOMAIN db
    BY <1>4 DEF EndTransfer, ReadFails, Typed, EntriesInv
  <2>2. io'.pc \in {"idle", "asked"} => main.pc = "up"
    BY <1>4, AnsweredTyped DEF EndTransfer, ReadFails
  <2>3. UNCHANGED <<file, db>> \/ entry_close(io.e)
    BY <1>4 DEF EndTransfer, ReadFails
  <2>4. CASE UNCHANGED <<file, db>>
    <3>1. EndpointsInv' /\ FilesInv'
      BY <2>1, <2>2, <2>4, EndpointsKept DEF Sound, FilesInv
    <3> QED BY <2>1, <3>1, ThreadFirst DEF Sound
  <2>5. CASE entry_close(io.e)
    BY <2>1, <2>2, <2>5, EntryClosedSound
  <2> QED BY <2>3, <2>4, <2>5
<1>5. CASE \E e \in DOMAIN db : EndEditObject(e)
  <2>1. PICK e \in DOMAIN db : EndEditObject(e)
    BY <1>5
  <2>2. io.pc = "idle" /\ io' = io /\ main' = main /\ entry_close(e)
    BY <2>1 DEF EndEditObject
  <2> QED BY <2>2, EntryClosedSound
<1> QED BY <1>1, <1>2, <1>3, <1>4, <1>5

\* A new entry keeps Sound.
LEMMA AddEntrySound == ASSUME Typed, Sound, NEW o \in Objs, AddEntry(o) PROVE Sound'
<1>1. PICK x : x = [obj |-> o, fd |-> 0]
  OBVIOUS
<1>2. /\ io.pc # "none" /\ file' = file /\ main' = main /\ io' = io /\ db' = Append(db, x)
      /\ x \in Entry /\ x.fd = 0
  BY <1>1, NumbersNat DEF AddEntry, Entry
<1>3. /\ Len(db) \in Nat /\ DOMAIN db = 1..Len(db) /\ DOMAIN db' = 1..Len(db) + 1
      /\ db'[Len(db) + 1] = x
      /\ \A d \in DOMAIN db : db'[d] = db[d]
  BY <1>2, EntryAdded DEF Typed
<1>4. EndpointsInv'
  BY <1>2, EndpointsKept DEF Sound
<1>5. FilesInv'
  <2>1. \A d \in DOMAIN db' : d \in DOMAIN db \/ d = Len(db) + 1
    BY <1>3
  <2> QED BY <1>2, <1>3, <2>1 DEF Sound, FilesInv
<1> QED BY <1>2, <1>4, <1>5, ThreadFirst DEF Sound

\* init_usb_mtp_gadget keeps Sound: no endpoint is open yet.
LEMMA InitUsbSound == ASSUME Typed, Sound, InitUsb PROVE Sound'
<1>1. /\ db = NULL /\ db' = NULL /\ DOMAIN db' = {} /\ io.pc = "none" /\ io' = io
      /\ file \in [Fds -> Things]
  BY DEF InitUsb, Typed, Sound, FirstInv, NULL
<1>2. NoUsb = [pc |-> "start", usb |-> -1, ep |-> [i \in Eps |-> -1]]
  BY DEF NoUsb
<1>3. \A i \in Eps : main'.ep[i] = -1
  <2>1. NoUsb.ep = [i \in Eps |-> -1]
    BY <1>2
  <2>2. CASE main' = [NoUsb EXCEPT !.pc = "up", !.usb = Lowest(file)]
    <3>1. main'.ep = NoUsb.ep
      BY <1>2, <2>2
    <3> QED BY <2>1, <3>1
  <2>3. CASE main' = [NoUsb EXCEPT !.pc = "ended"]
    <3>1. main'.ep = NoUsb.ep
      BY <1>2, <2>3
    <3> QED BY <2>1, <3>1
  <2> QED BY <2>2, <2>3 DEF InitUsb
<1>4. EndpointsInv'
  BY <1>3 DEF EndpointsInv, Eps, In
<1>5. CASE main' = [NoUsb EXCEPT !.pc = "ended"] /\ UNCHANGED file
  <2>1. main'.pc = "ended" /\ main'.usb = -1
    BY <1>2, <1>5
  <2> QED BY <1>1, <1>4, <2>1 DEF Sound, FirstInv, FilesInv
<1>6. CASE /\ Lowest(file) # -1
           /\ main' = [NoUsb EXCEPT !.pc = "up", !.usb = Lowest(file)]
           /\ file' = Open(file, Control)
  <2>1. PICK n : n = Lowest(file)
    OBVIOUS
  <2>2. main'.pc = "up" /\ main'.usb = n
    BY <1>2, <1>6, <2>1
  <2>3. /\ n \in Fds
        /\ \A m \in Fds : file[m] = Closed => n <= m
        /\ \A m \in Fds : file'[m] = IF m = n THEN Control ELSE file[m]
    BY <1>1, <1>6, <2>1, Opened, Kinds
  <2>4. file'[0] # Closed
    <3>1. CASE file[0] = Closed
      <4>1. n = 0
        BY <2>3, <3>1, NumbersNat
      <4> QED BY <2>3, <4>1, Kinds
    <3>2. CASE file[0] # Closed
      BY <2>3, <3>2, NumbersNat, Kinds
    <3> QED BY <3>1, <3>2
  <2>5. FirstInv'
    BY <1>1, <2>2, <2>4 DEF FirstInv
  <2>6. FilesInv'
    BY <1>1, <2>2, <2>3 DEF FilesInv
  <2> QED BY <1>4, <2>5, <2>6 DEF Sound
<1> QED BY <1>5, <1>6 DEF InitUsb

\* ENABLE keeps Sound: init_eps gives IN the lowest number of the endpoints.
LEMMA EnableSound == ASSUME Typed, Sound, "config" \notin conf.faults, Enable PROVE Sound'
<1>0. file \in [Fds -> Things] /\ main.ep \in [Eps -> Numbers] /\ main.pc = "up" /\ db' = db
  BY DEF Typed, MainTyped, Enable
<1>1. PICK r : /\ EpsTyped(r)
               /\ \/ main.ep[In] <= 0 /\ r \in init_eps(main.ep)
                  \/ main.ep[In] > 0 /\ r.file = file /\ r.ep = main.ep
               /\ file' = r.file /\ main' = [main EXCEPT !.ep = r.ep]
               /\ \/ io' = io
                  \/ io.pc = "none" /\ io' = [NoThread EXCEPT !.pc = "idle"] /\ r.ok
  BY Enabled
<1>2. main'.pc = "up" /\ main'.usb = main.usb /\ main'.ep = r.ep
  BY <1>0, <1>1 DEF Typed, MainTyped
<1>3. CASE main.ep[In] > 0 /\ r.file = file /\ r.ep = main.ep
  <2>1. main' = main /\ file' = file
    BY <1>1, <1>3 DEF Typed, MainTyped
  <2>2. EndpointsInv'
    BY <1>0, <2>1, EndpointsKept DEF Sound
  <2>3. FilesInv'
    BY <1>0, <2>1 DEF Sound, FilesInv
  <2>4. FirstInv'
    <3>1. main.ep[In] # -1
      BY <1>3
    <3> QED BY <1>0, <2>1, <3>1 DEF FirstInv
  <2> QED BY <2>2, <2>3, <2>4 DEF Sound
<1>4. CASE main.ep[In] <= 0 /\ r \in init_eps(main.ep)
  <2>1. main.ep[In] = -1
    <3>1. main.ep[In] \in Numbers /\ main.ep[In] # 0
      BY EpNumbers DEF Eps, In, Sound, EndpointsInv
    <3>2. main.ep[In] \in Nat \/ main.ep[In] = -1
      BY <3>1, NumbersNat
    <3> QED BY <1>4, <3>1, <3>2
  <2>2. \A i \in Eps : main.ep[i] = -1
    BY <2>1 DEF Sound, EndpointsInv
  <2>3. db = NULL /\ DOMAIN db' = {} /\ file[0] # Closed /\ io.pc = "none"
    BY <1>0, <2>1 DEF Sound, FirstInv, NULL
  <2>4. EpsOpened(r, 3)
    BY <1>0, <1>4, <2>2, InitEpsOpened
  <2>5. r.ep \in [Eps -> Numbers]
    BY <1>1 DEF EpsTyped
  <2>6. FirstInv'
    <3>1. io' # io => r.ep[In] # -1
      BY <1>1, <2>4 DEF EpsOpened
    <3>2. file'[0] # Closed
      BY <1>1, <2>3, <2>4, NumbersNat DEF EpsOpened
    <3> QED BY <1>0, <1>2, <2>3, <3>1, <3>2 DEF FirstInv
  <2>7. EndpointsInv'
    <3>1. \A i \in Eps : r.ep[i] # -1 => file[r.ep[i]] = Closed /\ file'[r.ep[i]] = Ep(i)
      BY <1>1, <2>4 DEF EpsOpened
    <3>2. \A i \in Eps : r.ep[i] # 0
      BY <2>3, <3>1
    <3>3. \A i \in Eps \ {In} : r.ep[i] # -1 => r.ep[In] # -1 /\ r.ep[In] < r.ep[i]
      BY <2>4 DEF EpsOpened
    <3> QED BY <1>2, <3>1, <3>2, <3>3 DEF EndpointsInv, Before
  <2>8. FilesInv'
    <3>1. main.usb > 0 => main.usb # -1
      OBVIOUS
    <3>2. main.usb \in Numbers /\ (main.usb > 0 => file[main.usb] = Control)
      BY EpNumbers DEF Sound, FilesInv
    <3>3. Control # Closed
      BY Kinds
    <3>4. main.usb > 0 => file'[main.usb] = Control
      BY <1>1, <2>4, <3>1, <3>2, <3>3, NumbersNat DEF EpsOpened
    <3> QED BY <1>2, <2>3, <3>4 DEF FilesInv
  <2> QED BY <2>6, <2>7, <2>8 DEF Sound
<1> QED BY <1>1, <1>3, <1>4

\* deinit_usb_mtp_gadget closes each endpoint by its own number.
LEMMA CloseUsbSound == ASSUME Typed, Sound, CloseUsb PROVE Sound'
<1>1. PICK k \in 1..4 :
        /\ main.pc = Closing[k]
        /\ file' = Close(file, {IF k \in Eps THEN main.ep[k] ELSE main.usb})
        /\ main' = [main EXCEPT !.pc = Closing[k + 1], !.usb = IF k = 4 THEN -1 ELSE main.usb]
        /\ UNCHANGED <<conf, io, db>>
  BY DEF CloseUsb
<1>2. PICK c, p, u : /\ c = IF k \in Eps THEN main.ep[k] ELSE main.usb
                     /\ p = Closing[k + 1] /\ u = IF k = 4 THEN -1 ELSE main.usb
  OBVIOUS
<1>3. main' = [pc |-> p, usb |-> u, ep |-> main.ep]
  BY <1>1, <1>2 DEF Typed, MainTyped
<1>4. \A n \in Fds : file'[n] = IF n = c THEN Closed ELSE file[n]
  <2>1. file' = Close(file, {c}) /\ file \in [Fds -> Things]
    BY <1>1, <1>2 DEF Typed
  <2> QED BY <2>1, ClosedOne
<1>5. FirstInv'
  BY <1>1, <1>2, <1>3 DEF FirstInv, Closing
<1>6. k \in Eps => main.pc \in Before(k)
  BY <1>1, Befores DEF Closing, Eps
<1>7. k = 4 => \A i \in Eps : main.pc \notin Before(i)
  BY <1>1, Befores DEF Closing, Eps
<1>8. \A i \in Eps : /\ p \in Before(i) => main.pc \in Before(i) /\ i # k
                     /\ p \notin Before(i) => main.pc \notin Before(i) \/ i = k
  BY <1>1, <1>2, Befores DEF Closing, Eps
<1>9. c # -1 => c \in Fds /\ (k = 4 \/ c # 0)
  <2>1. k \in Eps \/ k = 4
    BY DEF Eps
  <2> QED BY <1>2, <2>1, EpNumbers, NumbersNat DEF Sound, EndpointsInv
<1>10. c # -1 /\ k \in Eps => file[c] = Ep(k)
  BY <1>2, <1>6 DEF Sound, EndpointsInv
<1>11. c > 0 /\ k = 4 => file[c] = Control
  BY <1>2 DEF Sound, FilesInv, Eps
<1>12. k \in Eps \/ k = 4
  BY DEF Eps
<1>13. ASSUME NEW i \in Eps, main.ep[i] # -1, main.pc \in Before(i), i # k
       PROVE  file'[main.ep[i]] = Ep(i)
  <2>1. file[main.ep[i]] = Ep(i) /\ main.ep[i] \in Fds
    BY <1>13, EpNumbers, NumbersNat DEF Sound, EndpointsInv
  <2>2. k \in Eps
    BY <1>7, <1>12, <1>13
  <2>3. main.ep[i] # c
    <3>1. Ep(i).of = i /\ Ep(k).of = k
      BY <2>2, Kinds
    <3> QED BY <1>10, <1>13, <2>1, <2>2, <3>1
  <2> QED BY <1>4, <2>1, <2>3
<1>14. EndpointsInv'
  <2>1. \A i \in Eps \ {In} : main.ep[i] # -1 =>
          /\ main.ep[In] # -1 /\ main.ep[In] < main.ep[i]
          /\ file'[main.ep[i]] \in {Ep(i), Closed}
    <3> SUFFICES ASSUME NEW i \in Eps \ {In}, main.ep[i] # -1
                 PROVE  /\ main.ep[In] # -1 /\ main.ep[In] < main.ep[i]
                        /\ file'[main.ep[i]] \in {Ep(i), Closed}
      OBVIOUS
    <3>1. main.ep[i] \in Fds
      BY EpNumbers, NumbersNat
    <3> QED BY <1>4, <3>1 DEF Sound, EndpointsInv
  <2>2. \A i \in Eps : main.ep[i] # -1 /\ p \in Before(i) => file'[main.ep[i]] = Ep(i)
    BY <1>8, <1>13
  <2>3. main.ep[In] # -1 /\ p \notin Before(In) /\ io.pc \in {"idle", "asked"} =>
          file'[main.ep[In]] = Closed
    <3> SUFFICES ASSUME main.ep[In] # -1, p \notin Before(In), io.pc \in {"idle", "asked"}
                 PROVE  file'[main.ep[In]] = Closed
      OBVIOUS
    <3>1. main.ep[In] \in Fds /\ In \in Eps
      BY EpNumbers, NumbersNat DEF Eps, In
    <3>2. CASE k = In
      BY <1>2, <1>4, <3>1, <3>2
    <3>3. CASE k # In
      <4>1. main.pc \notin Before(In)
        BY <1>8, <3>1, <3>3
      <4>2. file[main.ep[In]] = Closed
        BY <4>1 DEF Sound, EndpointsInv
      <4> QED BY <1>4, <3>1, <4>2
    <3> QED BY <3>2, <3>3
  <2>4. main'.pc = p /\ main'.ep = main.ep /\ io' = io
    <3>1. io' = io
      BY <1>1
    <3> QED BY <1>3, <3>1
  <2> QED BY <2>1, <2>2, <2>3, <2>4 DEF Sound, EndpointsInv, Before
<1>15. FilesInv'
  <2>1. u > 0 => file'[u] = Control
    <3> SUFFICES ASSUME u > 0 PROVE file'[u] = Control
      OBVIOUS
    <3>1. k # 4 /\ u = main.usb /\ u # -1
      BY <1>2
    <3>2. u \in Fds /\ file[u] = Control
      BY <3>1, EpNumbers, NumbersNat DEF Sound, FilesInv
    <3>3. k \in Eps /\ Ep(k) # Control
      BY <1>12, <3>1, Kinds
    <3>4. c # u
      BY <1>10, <3>1, <3>2, <3>3
    <3> QED BY <1>4, <3>2, <3>4
  <2>2. ASSUME NEW e \in DOMAIN db, db[e].fd > 0
        PROVE  file'[db[e].fd] = file[db[e].fd]
    <3>1. db[e].fd # -1 /\ db[e].fd \in Numbers
      BY <2>2, EpNumbers
    <3>2. db[e].fd \in Fds /\ file[db[e].fd].kind = "object"
      BY <2>2, <3>1, NumbersNat DEF Sound, FilesInv
    <3>3. c # db[e].fd
      <4>1. CASE k \in Eps
        BY <1>10, <3>1, <3>2, <4>1, Kinds
      <4>2. CASE k = 4
        BY <1>11, <2>2, <3>2, <4>2, Kinds
      <4> QED BY <1>12, <4>1, <4>2
    <3> QED BY <1>4, <3>2, <3>3
  <2>3. main'.usb = u /\ db' = db
    <3>1. db' = db
      BY <1>1
    <3> QED BY <1>3, <3>1
  <2> QED BY <2>1, <2>2, <2>3 DEF Sound, FilesInv
<1> QED BY <1>5, <1>14, <1>15 DEF Sound

\* The other steps of main_thread keep Sound.
LEMMA MainSound ==
  ASSUME Typed, Sound, Disable \/ Disconnect \/ LeaveEp0 \/ CancelThread \/ DropDb
  PROVE  Sound'
<1>1. CASE Disable
  <2>1. main' = main /\ main.pc = "up" /\ io' = NoThread /\ deinit_fs_db
    BY <1>1 DEF Disable
  <2>2. io'.pc = "none" /\ db' = NULL /\ DOMAIN db' = {}
    BY <2>1, NoThreadTyped, DropSound
  <2>3. EndpointsInv'
    BY <2>1, <2>2, DropSound, EndpointsKept DEF Sound
  <2>4. FilesInv'
    BY <2>1, <2>2, DropSound DEF Sound, FilesInv
  <2>5. FirstInv'
    BY <2>1, <2>2, DropSound DEF Sound, FirstInv
  <2> QED BY <2>3, <2>4, <2>5 DEF Sound
<1>2. CASE Disconnect
  <2>1. main' = main /\ io'.pc = "none" /\ file' = file /\ db' = db
    BY <1>2, NoThreadTyped DEF Disconnect
  <2>2. EndpointsInv'
    BY <2>1, EndpointsKept DEF Sound
  <2> QED BY <2>1, <2>2 DEF Sound, FirstInv, FilesInv
<1>3. CASE LeaveEp0
  <2>1. /\ main.pc = "up" /\ main' = [main EXCEPT !.pc = "close_in"]
        /\ file' = file /\ io' = io /\ db' = db
    BY <1>3 DEF LeaveEp0
  <2>2. main'.pc = "close_in" /\ main'.usb = main.usb /\ main'.ep = main.ep
    BY <2>1 DEF Typed, MainTyped
  <2>3. \A i \in Eps : main.pc \in Before(i) /\ "close_in" \in Before(i)
    BY <2>1, Befores DEF Eps
  <2>4. EndpointsInv'
    BY <2>1, <2>2, <2>3 DEF Sound, EndpointsInv, Before, Eps, In
  <2> QED BY <2>1, <2>2, <2>4 DEF Sound, FirstInv, FilesInv
<1>4. CASE CancelThread
  <2>1. main' = [NoUsb EXCEPT !.pc = "drop"] /\ file' = file /\ db' = db
    BY <1>4 DEF CancelThread
  <2>2. main'.pc = "drop" /\ main'.usb = -1 /\ \A i \in Eps : main'.ep[i] = -1
    BY <2>1 DEF NoUsb
  <2>3. EndpointsInv'
    BY <2>2 DEF EndpointsInv, Eps, In
  <2> QED BY <2>1, <2>2, <2>3 DEF Sound, FirstInv, FilesInv
<1>5. CASE DropDb
  <2>1. PICK p \in {"start", "ended"} : main' = [main EXCEPT !.pc = p]
    BY <1>5 DEF DropDb
  <2>2. main'.pc = p /\ main'.usb = main.usb /\ main'.ep = main.ep
    BY <2>1 DEF Typed, MainTyped
  <2>3. main.pc = "drop" /\ main.usb = -1 /\ io.pc = "none" /\ io' = io /\ deinit_fs_db
    BY <1>5 DEF DropDb, Typed, MainTyped
  <2>4. db' = NULL /\ DOMAIN db' = {}
    BY <2>3, DropSound
  <2>5. \A i \in Eps : p \notin Before(i)
    BY Befores DEF Eps
  <2>6. \A i \in Eps : main.ep[i] # -1 =>
              \/ file'[main.ep[i]] = file[main.ep[i]]
              \/ file'[main.ep[i]] = Closed /\ file[main.ep[i]] # Ep(i)
    BY <2>3, DropSound
  <2>7. EndpointsInv'
    BY <2>2, <2>3, <2>5, <2>6 DEF Sound, EndpointsInv, Before, Eps, In
  <2> QED BY <2>2, <2>3, <2>4, <2>7 DEF Sound, FirstInv, FilesInv
<1> QED BY <1>1, <1>2, <1>3, <1>4, <1>5

\* Every step keeps Sound where an endpoint that is opened can be configured.
LEMMA SoundNext == ASSUME Typed, Sound, "config" \notin conf.faults, Next PROVE Sound'
BY InitUsbSound, EnableSound, CloseUsbSound, MainSound, IoSound, OpenFileSound, AddEntrySound
   DEF Next

\* The settings do not change.
LEMMA ConfKept == [Next]_vars => conf' = conf
BY DEF Next, vars, InitUsb, Enable, Disable, Disconnect, LeaveEp0, CloseUsb, CancelThread, DropDb,
       ReadRequestFails, OpenSession, CloseSession, AddEntry, Request, OpenFile, EndTransfer,
       ReadFails, EndEditObject

\* Every step keeps NumbersInv.
LEMMA NumbersStep == Typed /\ NumbersInv /\ [Next]_vars => NumbersInv'
<1>1. Sound /\ UNCHANGED vars => Sound'
  BY DEF vars, Sound, FirstInv, EndpointsInv, FilesInv, Before
<1> QED BY <1>1, SoundNext, ConfKept DEF NumbersInv

\* NumbersInv holds at the start.
LEMMA NumbersInit == Init => NumbersInv
<1> SUFFICES ASSUME Init PROVE Sound
  BY DEF NumbersInv
<1>1. main.pc = "start" /\ main.usb = -1 /\ \A i \in Eps : main.ep[i] = -1
  BY DEF Init, NoUsb
<1>2. db = NULL /\ DOMAIN db = {}
  BY DEF Init, NULL
<1> QED BY <1>1, <1>2 DEF Sound, FirstInv, EndpointsInv, FilesInv, Eps, In

\* NumbersInv holds in every state.
LEMMA NumbersCorrect == Spec => []NumbersInv
<1> QED BY NumbersInit, NumbersStep, TypedCorrect, PTL DEF Spec

\* While a gadget is up its numbers are those of its endpoints, in every round and
\* after every DISABLE that leaves them open (usb_gadget.c:847), and a SendObject
\* never reads from a file that took the number of OUT (usb_gadget.c:1175).
THEOREM EndpointsOwnCorrect == Spec => []EndpointsOwn
<1>1. Sound => OwnEndpoints
  <2>1. \A i \in Eps : "up" \in Before(i)
    BY Befores DEF Eps
  <2>2. Out \in Eps \ {In}
    BY DEF Out, In, Eps
  <2> QED BY <2>1, <2>2 DEF Sound, EndpointsInv, OwnEndpoints
<1> QED BY <1>1, NumbersCorrect, PTL DEF NumbersInv, EndpointsOwn

-----------------------------------------------------------------------------
(* A transfer is on the object's own file.                                  *)

\* A step that leaves the open files of the entries alone, and the transfer.
LEMMA DirectedKept ==
  ASSUME Directed,
         \A e \in DOMAIN db' : db'[e].fd > 0 =>
           e \in DOMAIN db /\ db'[e].fd = db[e].fd /\ file'[db[e].fd] = file[db[e].fd],
         io.pc = "moving" => io' = io
  PROVE  Directed'
BY DEF Directed

\* While a transfer goes on, the entries are those there were; so are the files,
\* until the handler has left.
LEMMA OwnFileKept ==
  ASSUME OwnFile,
         main'.pc = "up" /\ io'.pc = "moving" =>
           /\ main.pc = "up" /\ io' = io /\ file' = file
           /\ db'[io.e] = db[io.e]
  PROVE  OwnFile'
BY DEF OwnFile

Quiet == conf.faults \subseteq {"endpoint"}

\* The steps of main_thread keep the files of the entries and of the transfer.
LEMMA MainDirected ==
  ASSUME Typed, Sound, Sound', Quiet, Directed, OwnFile,
         \/ InitUsb \/ Enable \/ Disable \/ Disconnect
         \/ LeaveEp0 \/ CloseUsb \/ CancelThread \/ DropDb
  PROVE  Directed' /\ OwnFile'
<1>0. NULL = <<>> /\ DOMAIN NULL = {}
  BY DEF NULL
<1>1. CASE InitUsb
  <2>1. io.pc = "none" /\ io' = io /\ db' = NULL
    BY <1>1 DEF InitUsb, Typed, Sound, FirstInv
  <2> QED BY <1>0, <2>1, DirectedKept, OwnFileKept
<1>2. CASE Enable
  <2>1. main.pc = "up" /\ db' = db
    BY <1>2 DEF Enable
  <2>2. PICK r : /\ main.ep[In] <= 0 \/ r.file = file
                 /\ file' = r.file
                 /\ io' = io \/ (io.pc = "none" /\ io' = [NoThread EXCEPT !.pc = "idle"])
    BY <1>2, Enabled
  <2>3. io' = io \/ (io.pc = "none" /\ io'.pc = "idle")
    BY <2>2 DEF NoThread
  <2>4. CASE file' = file
    BY <2>1, <2>3, <2>4, DirectedKept, OwnFileKept
  <2>5. CASE main.ep[In] <= 0
    <3>1. main.ep[In] \in Numbers /\ main.ep[In] # 0
      BY EpNumbers DEF Eps, In, Sound, EndpointsInv
    <3>2. main.ep[In] \in Nat \/ main.ep[In] = -1
      BY <3>1, NumbersNat
    <3>3. main.ep[In] = -1
      BY <2>5, <3>1, <3>2
    <3>4. db = NULL /\ io.pc = "none"
      BY <2>1, <3>3 DEF Sound, FirstInv
    <3> QED BY <1>0, <2>1, <2>3, <3>4, DirectedKept, OwnFileKept
  <2> QED BY <2>2, <2>4, <2>5
<1>3. CASE Disable
  <2>1. io.pc # "moving" /\ io'.pc # "moving" /\ DOMAIN db' = {}
    BY <1>3, NoThreadTyped, DropSound DEF Disable
  <2> QED BY <2>1, DirectedKept, OwnFileKept
<1>4. CASE Disconnect \/ CancelThread
  <2>1. io.pc # "moving" /\ io'.pc # "moving" /\ file' = file /\ db' = db
    BY <1>4, NoThreadTyped DEF Disconnect, CancelThread, Quiet
  <2> QED BY <2>1, DirectedKept, OwnFileKept
<1>5. CASE LeaveEp0
  <2>1. main' = [main EXCEPT !.pc = "close_in"] /\ file' = file /\ io' = io /\ db' = db
    BY <1>5 DEF LeaveEp0
  <2>2. main'.pc # "up"
    BY <2>1 DEF Typed, MainTyped
  <2> QED BY <2>1, <2>2, DirectedKept, OwnFileKept
<1>6. CASE CloseUsb
  <2>1. io' = io /\ db' = db
    BY <1>6 DEF CloseUsb
  <2>2. main'.pc # "up"
    <3>1. PICK k \in 1..4 : main.pc = Closing[k]
      BY <1>6 DEF CloseUsb
    <3>2. PICK p, u : main' = [main EXCEPT !.pc = p, !.usb = u] /\ p \in ToSet(Closing) \ {"up"}
      <4>1. \A j \in 1..4 : Closing[j + 1] \in ToSet(Closing) \ {"up"}
        BY DEF Closing, ToSet
      <4> QED BY <1>6, <4>1 DEF CloseUsb
    <3>3. main' = [pc |-> p, usb |-> u, ep |-> main.ep]
      BY <3>2 DEF Typed, MainTyped
    <3> QED BY <3>2, <3>3
  <2>3. PICK c : Closes(c)
    <3>1. PICK c : file' = Close(file, {c})
      BY <1>6 DEF CloseUsb
    <3>2. file \in [Fds -> Things]
      BY DEF Typed
    <3>3. Closes(c)
      BY <3>1, <3>2, ClosedOne DEF Closes
    <3> QED BY <3>3
  <2>4. ASSUME NEW e \in DOMAIN db, db[e].fd > 0
        PROVE  file'[db[e].fd] = file[db[e].fd]
    <3>1. file'[db[e].fd].kind = "object"
      BY <2>1, <2>4 DEF Sound, FilesInv
    <3>2. db[e].fd \in Numbers /\ db[e].fd # -1
      BY <2>4, EpNumbers
    <3>3. db[e].fd \in Fds /\ Closed.kind # "object"
      BY <3>2, NumbersNat, Kinds
    <3> QED BY <2>3, <3>1, <3>3 DEF Closes
  <2> QED BY <2>1, <2>2, <2>4, DirectedKept, OwnFileKept
<1>7. CASE DropDb
  <2>1. io.pc = "none" /\ io' = io /\ DOMAIN db' = {}
    BY <1>7, DropSound DEF DropDb, Typed
  <2> QED BY <2>1, DirectedKept, OwnFileKept
<1> QED BY <1>1, <1>2, <1>3, <1>4, <1>5, <1>6, <1>7

\* The number that is used again is that of a file open both ways.
LEMMA OpenDirected ==
  ASSUME Typed, Sound, Quiet, Directed, OwnFile, OpenFile
  PROVE  Directed' /\ OwnFile'
<1>1. /\ main' = main /\ io.pc = "asked" /\ io.e \in DOMAIN db /\ db[io.e].obj \in Objs
      /\ io.use \in {"get", "send", "edit"} /\ "path" \notin conf.faults
  BY FileOpened DEF OpenFile, Quiet
<1>2. \A e \in DOMAIN db : db[e].fd > 0 => file[db[e].fd].how = "rw"
  BY <1>1 DEF Directed
<1>3. \/ db'[io.e].fd = -1 /\ io'.pc # "moving"
      \/ db'[io.e].fd # -1 /\ io'.pc = "moving" /\ io'.e = io.e /\ io'.use = io.use
  BY DEF OpenFile, Answered, NoThread, Typed, IoTyped
<1>4. CASE db[io.e].fd > 0 /\ UNCHANGED <<file, db>>
  <2>1. Directed'
    BY <1>2, <1>4 DEF Directed
  <2>2. /\ file[db[io.e].fd].kind = "object" /\ file[db[io.e].fd].of = db[io.e].obj
        /\ file[db[io.e].fd].how = "rw"
    BY <1>1, <1>2, <1>4 DEF Sound, FilesInv
  <2>3. OwnFile'
    BY <1>3, <1>4, <2>2 DEF OwnFile
  <2> QED BY <2>1, <2>3
<1>5. CASE SetsFd(io.e, -1) /\ file' = file
  <2>1. Directed'
    BY <1>2, <1>5 DEF Directed, SetsFd
  <2>2. OwnFile'
    BY <1>1, <1>3, <1>5 DEF OwnFile, SetsFd
  <2> QED BY <2>1, <2>2
<1>6. CASE SetsFd(io.e, Lowest(file)) /\ Opens(Lowest(file), Object(db[io.e].obj, Flags(io.use)))
  <2>1. PICK n, t : /\ SetsFd(io.e, n) /\ Opens(n, t)
                    /\ t.kind = "object" /\ t.of = db[io.e].obj /\ t.how = Flags(io.use)
    <3>1. Flags(io.use) \in {"r", "w", "rw"}
      BY <1>1 DEF Flags
    <3> QED BY <1>1, <1>6, <3>1, Kinds
  <2>2. db'[io.e].fd = n
    BY <1>1, <2>1 DEF SetsFd
  <2>3. n # -1 => file'[n] = t
    BY <2>1 DEF Opens
  <2>4. OwnFile'
    <3>1. n # -1 => db'[io.e].obj = db[io.e].obj
      BY <1>1, <2>1 DEF SetsFd
    <3> QED BY <1>3, <2>1, <2>2, <2>3, <3>1 DEF OwnFile
  <2>5. ASSUME NEW d \in DOMAIN db \ {io.e}, db[d].fd > 0
        PROVE  file'[db[d].fd].how = "rw"
    <3>1. db[d].fd \in Numbers /\ db[d].fd # -1
      BY <2>5, EpNumbers
    <3>2. file[db[d].fd].kind # Closed.kind
      BY <2>5, Kinds DEF Sound, FilesInv
    <3>3. file'[db[d].fd] = file[db[d].fd]
      BY <2>1, <3>1, <3>2, OpensFree, NumbersNat
    <3> QED BY <1>2, <2>5, <3>3
  <2>6. \A d \in DOMAIN db \ {io.e} : db'[d].fd = db[d].fd
    BY <2>1 DEF SetsFd
  <2>7. n > 0 => n # -1
    OBVIOUS
  <2>8. DOMAIN db' = DOMAIN db
    BY <2>1 DEF SetsFd
  <2>9. n # -1 => io'.pc = "moving" /\ io'.e = io.e /\ io'.use = io.use
    BY <1>3, <2>2
  <2>10. \A d \in DOMAIN db' : db'[d].fd > 0 /\ file'[db'[d].fd].how # "rw" => d = io.e
    BY <2>5, <2>6, <2>8
  <2>11. Directed'
    BY <2>1, <2>2, <2>3, <2>7, <2>9, <2>10 DEF Directed
  <2> QED BY <2>4, <2>11
<1> QED BY <1>1, <1>4, <1>5, <1>6, FileOpened

\* The end of a transfer closes its file, or leaves one that is open both ways.
LEMMA EndDirected ==
  ASSUME Typed, Sound, Quiet, Directed, OwnFile, EndTransfer \/ ReadFails
  PROVE  Directed' /\ OwnFile'
<1>1. io.pc = "moving" /\ io'.pc # "moving" /\ io.e \in DOMAIN db
  BY AnsweredTyped DEF EndTransfer, ReadFails, Typed, EntriesInv
<1>2. OwnFile'
  BY <1>1 DEF OwnFile
<1>3. CASE io.use = "edit" /\ UNCHANGED <<file, db>>
  <2>1. Flags(io.use) = "rw"
    BY <1>3 DEF Flags
  <2>2. Directed'
    BY <1>3, <2>1 DEF Directed
  <2> QED BY <1>2, <2>2
<1>4. CASE entry_close(io.e)
  <2>1. SetsFd(io.e, -1) /\ Closes(db[io.e].fd)
    BY <1>1, <1>4, EntryClosed DEF Typed
  <2>2. \A d \in DOMAIN db \ {io.e} : db[d].fd > 0 => file'[db[d].fd] = file[db[d].fd]
    BY <1>1, <2>1, EntryCloses
  <2>3. /\ DOMAIN db' = DOMAIN db /\ db'[io.e].fd = -1
        /\ \A d \in DOMAIN db \ {io.e} : db'[d].fd = db[d].fd
    BY <1>1, <2>1 DEF SetsFd
  <2>4. \A d \in DOMAIN db \ {io.e} : db[d].fd > 0 => file[db[d].fd].how = "rw"
    BY DEF Directed
  <2>5. \A d \in DOMAIN db' : db'[d].fd > 0 => file'[db'[d].fd].how = "rw"
    <3>1. ~(-1 > 0)
      OBVIOUS
    <3> QED BY <2>2, <2>3, <2>4, <3>1
  <2> QED BY <1>2, <2>5 DEF Directed
<1> QED BY <1>3, <1>4 DEF EndTransfer, ReadFails

\* So do the steps of the io thread that open nothing.
LEMMA IoDirected ==
  ASSUME Typed, Sound, Quiet, Directed, OwnFile,
         \/ ReadRequestFails \/ OpenSession \/ CloseSession
         \/ \E o \in Objs : AddEntry(o)
         \/ \E use \in {"get", "send", "edit"}, e \in DOMAIN db : Request(use, e)
         \/ \E e \in DOMAIN db : EndEditObject(e)
  PROVE  Directed' /\ OwnFile'
<1>1. CASE \/ ReadRequestFails
           \/ \E use \in {"get", "send", "edit"}, e \in DOMAIN db : Request(use, e)
  <2>1. io.pc = "idle" /\ file' = file /\ db' = db
    BY <1>1 DEF ReadRequestFails, Request
  <2>2. io'.pc # "moving"
    BY <1>1 DEF ReadRequestFails, Request, Typed, IoTyped
  <2> QED BY <2>1, <2>2, DirectedKept, OwnFileKept
<1>2. CASE OpenSession
  <2>1. io.pc = "idle" /\ io' = io /\ DOMAIN db' = {1} /\ db'[1].fd = 0
    BY <1>2 DEF OpenSession, Root
  <2>2. Directed'
    BY <2>1 DEF Directed
  <2> QED BY <2>1, <2>2 DEF OwnFile
<1>3. CASE CloseSession
  <2>1. io.pc = "idle" /\ io' = io /\ DOMAIN db' = {}
    BY <1>3, DropSound DEF CloseSession
  <2> QED BY <2>1, DirectedKept, OwnFileKept
<1>4. CASE \E o \in Objs : AddEntry(o)
  <2>1. PICK o \in Objs : AddEntry(o)
    BY <1>4
  <2>2. PICK x : x = [obj |-> o, fd |-> 0]
    OBVIOUS
  <2>3. /\ file' = file /\ main' = main /\ io' = io /\ db' = Append(db, x)
        /\ x \in Entry /\ x.fd = 0
    BY <2>1, <2>2, NumbersNat DEF AddEntry, Entry
  <2>4. /\ Len(db) \in Nat /\ DOMAIN db = 1..Len(db) /\ DOMAIN db' = 1..Len(db) + 1
        /\ db'[Len(db) + 1] = x
        /\ \A d \in DOMAIN db : db'[d] = db[d]
    BY <2>3, EntryAdded DEF Typed
  <2>5. \A d \in DOMAIN db' : d \in DOMAIN db \/ d = Len(db) + 1
    BY <2>4
  <2>6. Directed'
    BY <2>3, <2>4, <2>5, DirectedKept
  <2>7. io.pc = "moving" => io.e \in DOMAIN db
    BY DEF Typed, EntriesInv
  <2> QED BY <2>3, <2>4, <2>6, <2>7, OwnFileKept
<1>5. CASE \E e \in DOMAIN db : EndEditObject(e)
  <2>1. PICK e \in DOMAIN db : EndEditObject(e)
    BY <1>5
  <2>2. io.pc = "idle" /\ io' = io /\ SetsFd(e, -1) /\ Closes(db[e].fd)
    BY <2>1, EntryClosed DEF EndEditObject, Typed
  <2>3. \A d \in DOMAIN db \ {e} : db[d].fd > 0 => file'[db[d].fd] = file[db[d].fd]
    BY <2>1, <2>2, EntryCloses
  <2>4. ~(-1 > 0)
    OBVIOUS
  <2>5. Directed'
    BY <2>2, <2>3, <2>4, DirectedKept DEF SetsFd
  <2> QED BY <2>2, <2>5 DEF OwnFile
<1> QED BY <1>1, <1>2, <1>3, <1>4, <1>5

\* Every step keeps DirectionInv.
LEMMA DirectionStep ==
  Typed /\ NumbersInv /\ NumbersInv' /\ DirectionInv /\ [Next]_vars => DirectionInv'
<1> SUFFICES ASSUME Typed, NumbersInv, NumbersInv', DirectionInv, [Next]_vars, Quiet
             PROVE  Directed' /\ OwnFile'
  BY ConfKept DEF DirectionInv, Quiet
<1>1. conf' = conf /\ "config" \notin conf.faults
  BY ConfKept DEF Quiet
<1>2. Sound /\ Sound' /\ Directed /\ OwnFile
  BY <1>1 DEF NumbersInv, DirectionInv, Quiet
<1>3. CASE UNCHANGED vars
  BY <1>2, <1>3 DEF vars, Directed, OwnFile
<1> QED BY <1>2, <1>3, MainDirected, OpenDirected, EndDirected, IoDirected DEF Next

\* The data of a transfer comes from or goes to the object's own file, opened for
\* that direction, when only the opening of endpoints fails: entry_open uses a
\* number again only where it is still the object's (fs_handles_db.c:727).
THEOREM TransferOnOwnFileCorrect == Spec => []TransferOnOwnFile
<1>1. Init => DirectionInv
  BY DEF Init, NULL, NoUsb, DirectionInv, Directed, OwnFile
<1>2. DirectionInv => TransferOnOwnFile
  BY DEF DirectionInv, TransferOnOwnFile
<1> QED BY <1>1, <1>2, DirectionStep, TypedCorrect, NumbersCorrect, PTL DEF Spec

=============================================================================
