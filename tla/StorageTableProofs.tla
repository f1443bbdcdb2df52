-------------------------- MODULE StorageTableProofs --------------------------
(***************************************************************************)
(* Theorems about module StorageTable, for any number of slots, stores and *)
(* commands: its type invariant, and, where no command waits in the queue  *)
(* when the process starts, so that the table has one writer at a time,    *)
(* its four safety invariants.                                             *)
(***************************************************************************)
EXTENDS StorageTable, TLAPS, WellFoundedInduction

Flags == {"lockable", "locked", "notmounted"}
Slot  == [root : Stores \cup {NoStore}, flags : SUBSET Flags, id : Slots \cup {0},
          uid : Stores \cup {Nobody}, gid : Stores \cup {Nobody}]

\* What the writers hold: a store while they work, and a slot once they found one.
Busy(w) == writer[w].pc \in {"place", "flags", "id", "clear"}

WritersTyped ==
  /\ writer \in [Writers -> [pc : {"idle", "guard", "find", "place", "flags", "id",
                                   "remove", "clear"},
                             store : Stores \cup {NoStore}, slot : Slots \cup {0}]]
  /\ \A w \in Writers : /\ Busy(w) => writer[w].slot \in Slots
                        /\ writer[w].pc \notin {"idle", "clear"} => writer[w].store \in Stores
  /\ writer["main"].pc \notin {"remove", "clear"}

TableTyped ==
  /\ slots \in [Slots -> Slot] /\ \A i \in Slots : slots[i].id \in {0, i}
  /\ WritersTyped
  /\ toLoad \subseteq Stores /\ cmds \in 0..MaxCmds
  /\ sweep \in [cmd : {"lock", "unlock"}, todo : SUBSET Slots]

\* What the MTP thread holds between two steps, and what a session leaves.
MtpTyped ==
  /\ mtp \in [op : {"idle", "open", "ids", "reply", "scan"}, slot : 0..NbSlots + 1,
              ids : SUBSET (Slots \cup {0}), store : Stores \cup {NoStore}, lost : BOOLEAN]
  /\ mtp.op = "idle" => mtp = MtpIdle
  /\ mtp.op \in {"open", "ids", "reply"} => mtp.slot # 0 /\ ~mtp.lost
  /\ mtp.op = "scan" => mtp.slot \in Slots /\ mtp.ids = {mtp.slot} /\ mtp.store \in Stores

SessionTyped ==
  /\ session \in BOOLEAN /\ knows \in BOOLEAN
  /\ roots \subseteq Slots \cup {0} /\ host \subseteq Slots \cup {0} /\ emptied \subseteq Slots
  /\ objects \subseteq [id : Slots, of : Stores]
  /\ mtp.op # "idle" => session
  /\ ~session => roots = {} /\ objects = {} /\ ~knows

Typed == TableTyped /\ MtpTyped /\ SessionTyped

\* The table has one writer at a time: the message queue thread executes no
\* command before the configuration is loaded, and one at a time.
OneWriter ==
  /\ ~Loaded => writer["mq"] = AtRest /\ sweep.todo = {} /\ mtp = MtpIdle
  /\ sweep.todo # {} => writer["mq"] = AtRest

\* What a writer of store s has made of its slot by now.
Placed(s, flags) ==
  [root |-> s, flags |-> flags, id |-> 0,
   uid |-> IF s \in WithUid THEN s ELSE Nobody, gid |-> IF s \in WithGid THEN s ELSE Nobody]

SlotOf(w) ==
  LET i == writer[w].slot
      s == writer[w].store
  IN  /\ writer[w].pc = "place" => slots[i] = Empty
      /\ writer[w].pc = "flags" => slots[i] = Placed(s, {})
      /\ writer[w].pc = "id"    => slots[i] = Placed(s, Options(s))
      /\ writer[w].pc = "clear" => slots[i].root = NoStore

\* Every slot is whole or empty but the one that is being written; a store that
\* is being added is in no slot.
TableInv ==
  /\ \A i \in Slots : (\A w \in Writers : Busy(w) => writer[w].slot # i) =>
       (i \in Used => Whole(i)) /\ (i \notin Used => slots[i] = Empty)
  /\ \A w \in Writers : SlotOf(w)
  /\ \A i, j \in Used : slots[i].root = slots[j].root => i = j
  /\ \A w \in Writers : writer[w].pc \in {"find", "place"} =>
       \A i \in Used : slots[i].root # writer[w].store

\* The slot of a scan keeps its store unless the store was removed; so do the
\* slots of the objects. Every operation gives back the user it took.
ServeInv ==
  /\ mtp.op = "scan" =>
       IF mtp.lost THEN mtp.slot \in emptied
       ELSE slots[mtp.slot].root = mtp.store /\ slots[mtp.slot].id = mtp.slot
  /\ \A o \in objects : o.id \in emptied \/ slots[o.id].root = o.of
  /\ creds = [uid |-> Daemon, gid |-> Daemon]
  /\ RunsAsOwner

MayBeUsed(i) == i \in Used /\ {"notmounted", "locked"} \cap slots[i].flags = {}
Counted(n)   == {slots[i].id : i \in {k \in 1..n : MayBeUsed(k)}}

\* An answer that nothing disturbed counts the slots before the one it is at;
\* from the answer on the host is kept right.
HostInv ==
  /\ knows => mtp.op # "open"
  /\ knows /\ mtp.op \in {"ids", "reply"} =>
       1..mtp.slot - 1 \subseteq Used /\ mtp.ids = Counted(mtp.slot - 1)
  /\ mtp.op = "reply" /\ knows => WalkOver
  /\ knows /\ mtp.op \in {"idle", "scan"} /\ Contiguous =>
       /\ Available \subseteq host
       /\ host \subseteq Available \cup {i \in Slots : "lockable" \in slots[i].flags}

-----------------------------------------------------------------------------
(* The look-ups.                                                            *)

\* Slots are positive numbers.
LEMMA SlotsNat == Slots \subseteq Nat \ {0} /\ 0 \notin Slots
BY StorageTableAssumption DEF Slots

\* Min, which the library defines with CHOOSE.
LEMMA MinFound ==
  ASSUME NEW S, S \subseteq Nat, S # {}
  PROVE  Min(S) \in S
<1>1. PICK x \in S : \A y \in S : ~(<<y, x>> \in OpToRel(<, Nat))
  BY NatLessThanWellFounded, WFMin
<1>2. \A y \in S : x <= y
  <2> TAKE y \in S
  <2>1. <<y, x>> \in Nat \X Nat
    OBVIOUS
  <2>2. ~(y < x)
    BY <1>1, <2>1 DEF OpToRel
  <2> QED BY <2>2
<1> QED BY <1>2 DEF Min

\* A name is found at a slot of that name, or is nowhere.
LEMMA NameFound ==
  ASSUME NEW s
  PROVE  \/ index_by_name(s) = 0 /\ \A i \in Used : slots[i].root # s
         \/ index_by_name(s) \in Used /\ slots[index_by_name(s)].root = s
<1> DEFINE found == {i \in Used : slots[i].root = s}
<1>1. found \subseteq Nat
  BY SlotsNat DEF Used
<1>2. CASE found = {}
  BY <1>2 DEF index_by_name
<1>3. CASE found # {}
  <2>1. Min(found) \in found
    BY <1>1, <1>3, MinFound
  <2> QED BY <2>1, <1>3 DEF index_by_name
<1> QED BY <1>2, <1>3

\* So is a storage id.
LEMMA IdFound ==
  ASSUME NEW id
  PROVE  \/ index_by_id(id) = 0 /\ \A i \in Used : slots[i].id # id
         \/ index_by_id(id) \in Used /\ slots[index_by_id(id)].id = id
<1> DEFINE found == {i \in Used : slots[i].id = id}
<1>1. found \subseteq Nat
  BY SlotsNat DEF Used
<1>2. CASE found = {}
  BY <1>2 DEF index_by_id
<1>3. CASE found # {}
  <2>1. Min(found) \in found
    BY <1>1, <1>3, MinFound
  <2> QED BY <2>1, <1>3 DEF index_by_id
<1> QED BY <1>2, <1>3

\* A store is placed where there is none.
LEMMA EmptyFound == FirstEmpty = 0 \/ FirstEmpty \in Slots \ Used
<1>1. CASE Used = Slots
  BY <1>1 DEF FirstEmpty
<1>2. CASE Used # Slots
  <2>1. Slots \ Used # {} /\ Slots \ Used \subseteq Nat
    BY <1>2, SlotsNat DEF Used
  <2> QED BY <1>2, <2>1, MinFound DEF FirstEmpty
<1> QED BY <1>1, <1>2

-----------------------------------------------------------------------------
(* Types.                                                                   *)

\* Typed holds at the start.
LEMMA InitTyped == Init => Typed
<1> SUFFICES ASSUME Init PROVE Typed
  OBVIOUS
<1> USE StorageTableAssumption, SlotsNat DEF Init
<1>1. TableTyped
  BY DEF TableTyped, Slot, Empty, WritersTyped, Busy, AtRest, Writers
<1>2. MtpTyped
  BY DEF MtpTyped, MtpIdle
<1>3. SessionTyped
  BY DEF SessionTyped, MtpIdle
<1> QED BY <1>1, <1>2, <1>3 DEF Typed

\* What a writer may go on with.
GoesOn(w, next) ==
  /\ next \in [pc : {"idle", "guard", "find", "place", "flags", "id", "remove", "clear"},
              store : Stores \cup {NoStore}, slot : Slots \cup {0}]
  /\ next.pc \in {"place", "flags", "id", "clear"} => next.slot \in Slots
  /\ next.pc \notin {"idle", "clear"} => next.store \in Stores
  /\ w = "main" => next.pc \notin {"remove", "clear"}

SlotsTyped == slots \in [Slots -> Slot] /\ \A i \in Slots : slots[i].id \in {0, i}

\* A writer that goes on to a place of its code stays typed.
LEMMA WriterTyped ==
  ASSUME WritersTyped, NEW w \in Writers, NEW next, GoesOn(w, next),
         writer' = [writer EXCEPT ![w] = next]
  PROVE  WritersTyped'
BY DEF WritersTyped, GoesOn, Busy, Writers

\* Every writer may come to rest.
LEMMA AtRestGoesOn == \A w : GoesOn(w, AtRest)
BY DEF GoesOn, AtRest

\* A writer step that leaves the slots typed leaves everything typed.
LEMMA WritesTyped ==
  ASSUME Typed, NEW w \in Writers, NEW next, GoesOn(w, next), Writes(w, next),
         SlotsTyped', knows' = knows \/ knows' = FALSE
  PROVE  Typed'
<1>1. WritersTyped'
  BY WriterTyped DEF Writes, Typed, TableTyped
<1>2. TableTyped'
  BY <1>1 DEF Writes, Typed, TableTyped, SlotsTyped
<1>3. MtpTyped'
  <2>1. mtp' = mtp /\ MtpTyped
    BY DEF Writes, sessionVars, Typed
  <2> QED BY <2>1 DEF MtpTyped, MtpIdle
<1>4. knows' \in BOOLEAN /\ (~session' => ~knows')
  <2>1. session' = session /\ knows \in BOOLEAN /\ (~session => ~knows)
    BY DEF Writes, Typed, SessionTyped, sessionVars
  <2>2. CASE knows' = knows
    BY <2>1, <2>2
  <2>3. CASE knows' = FALSE
    BY <2>3
  <2> QED BY <2>2, <2>3
<1>5. SessionTyped'
  BY <1>4 DEF Writes, Typed, SessionTyped, sessionVars
<1> QED BY <1>2, <1>3, <1>5 DEF Typed

\* A step of a writer within mtp_add_storage or mtp_remove_storage.
LEMMA WritingTyped ==
  ASSUME Typed, Writing PROVE Typed'
<1> USE StorageTableAssumption, SlotsNat
<1>1. SlotsTyped /\ WritersTyped
  BY DEF Typed, TableTyped, SlotsTyped
<1>2. ASSUME NEW w \in Writers, AddGuard(w) PROVE Typed'
  <2>1. GoesOn(w, [writer[w] EXCEPT !.pc = "find"])
    BY <1>1, <1>2 DEF AddGuard, WritersTyped, GoesOn
  <2> QED BY <1>1, <1>2, <2>1, AtRestGoesOn, WritesTyped DEF AddGuard, SlotsTyped
<1>3. ASSUME NEW w \in Writers, AddFind(w) PROVE Typed'
  <2> DEFINE next == [writer[w] EXCEPT !.pc = "place", !.slot = FirstEmpty]
  <2>1. ASSUME FirstEmpty # 0 PROVE GoesOn(w, next)
    <3>1. FirstEmpty \in Slots
      BY <2>1, EmptyFound
    <3>2. /\ writer[w] \in [pc : {"idle", "guard", "find", "place", "flags", "id",
                                  "remove", "clear"},
                            store : Stores \cup {NoStore}, slot : Slots \cup {0}]
          /\ writer[w].store \in Stores
      BY <1>1, <1>3 DEF AddFind, WritersTyped
    <3> QED BY <3>1, <3>2 DEF GoesOn
  <2>2. PICK r : GoesOn(w, r) /\ Writes(w, r)
    <3>1. CASE FirstEmpty = 0
      BY <1>3, <3>1, AtRestGoesOn DEF AddFind
    <3>2. CASE FirstEmpty # 0
      BY <1>3, <2>1, <3>2 DEF AddFind
    <3> QED BY <3>1, <3>2
  <2> QED BY <1>1, <1>3, <2>2, WritesTyped DEF AddFind, SlotsTyped
<1>4. ASSUME NEW w \in Writers, AddPlace(w) PROVE Typed'
  <2>1. GoesOn(w, [writer[w] EXCEPT !.pc = "flags"])
    BY <1>1, <1>4 DEF AddPlace, WritersTyped, GoesOn, Busy
  <2> DEFINE k == writer[w].slot
              s == writer[w].store
              u == IF s \in WithUid THEN s ELSE Nobody
              g == IF s \in WithGid THEN s ELSE Nobody
              placed == [slots[k] EXCEPT !.root = s, !.uid = u, !.gid = g]
  <2>2. slots' = [slots EXCEPT ![k] = placed]
    BY <1>4 DEF AddPlace
  <2>3. k \in Slots /\ s \in Stores
    BY <1>1, <1>4 DEF AddPlace, WritersTyped, Busy
  <2>4. placed \in Slot /\ placed.id = slots[k].id
    <3>1. s \in Stores /\ u \in Stores \cup {Nobody} /\ g \in Stores \cup {Nobody}
      BY <2>3
    <3>2. slots[k] \in Slot
      BY <1>1, <2>3 DEF SlotsTyped
    <3> HIDE DEF s, u, g, k
    <3> QED BY <3>1, <3>2 DEF Slot
  <2>5. SlotsTyped'
    BY <1>1, <2>2, <2>3, <2>4 DEF SlotsTyped
  <2> QED BY <1>4, <2>1, <2>5, WritesTyped DEF AddPlace
<1>5. ASSUME NEW w \in Writers, AddFails(w) PROVE Typed'
  <2>1. SlotsTyped'
    BY <1>1, <1>5 DEF AddFails, WritersTyped, SlotsTyped, Slot, Empty, Busy
  <2> QED BY <1>5, <2>1, AtRestGoesOn, WritesTyped DEF AddFails
<1>6. ASSUME NEW w \in Writers, AddFlags(w) PROVE Typed'
  <2>1. GoesOn(w, [writer[w] EXCEPT !.pc = "id"])
    BY <1>1, <1>6 DEF AddFlags, WritersTyped, GoesOn, Busy
  <2>2. Options(writer[w].store) \subseteq Flags
    BY DEF Options, Flags
  <2>3. PICK k, o : k \in Slots /\ k = writer[w].slot /\ o = Options(writer[w].store)
    BY <1>1, <1>6 DEF AddFlags, WritersTyped, Busy
  <2>4. slots' = [slots EXCEPT ![k] = [slots[k] EXCEPT !.flags = o]]
    BY <1>6, <2>3 DEF AddFlags
  <2>5. slots[k] \in Slot /\ o \subseteq Flags
    BY <1>1, <2>2, <2>3 DEF SlotsTyped
  <2>6. /\ [slots[k] EXCEPT !.flags = o] \in Slot
        /\ [slots[k] EXCEPT !.flags = o].id = slots[k].id
    BY <2>5 DEF Slot
  <2>7. SlotsTyped'
    BY <1>1, <2>3, <2>4, <2>6 DEF SlotsTyped
  <2> QED BY <1>6, <2>1, <2>7, WritesTyped DEF AddFlags
<1>7. ASSUME NEW w \in Writers, AddId(w) PROVE Typed'
  <2>1. SlotsTyped'
    BY <1>1, <1>7 DEF AddId, WritersTyped, SlotsTyped, Slot, Busy
  <2> QED BY <1>7, <2>1, AtRestGoesOn, WritesTyped DEF AddId
<1>8. CASE Remove
  <2> DEFINE i == index_by_name(writer["mq"].store)
  <2>1. i = 0 \/ i \in Slots
    BY NameFound DEF Used
  <2>2. SlotsTyped'
    BY <1>1, <1>8, <2>1 DEF Remove, SlotsTyped, Slot
  <2>3. PICK next : GoesOn("mq", next) /\ writer' = [writer EXCEPT !["mq"] = next]
    <3>1. CASE i = 0
      BY <1>8, <3>1, AtRestGoesOn DEF Remove
    <3>2. CASE i # 0
      <4>1. writer' = [writer EXCEPT !["mq"] = [writer["mq"] EXCEPT !.pc = "clear", !.slot = i]]
        BY <1>1, <1>8, <3>2 DEF Remove, WritersTyped, Writers
      <4>2. GoesOn("mq", [writer["mq"] EXCEPT !.pc = "clear", !.slot = i])
        BY <1>1, <2>1, <3>2 DEF GoesOn, WritersTyped, Writers
      <4> QED BY <4>1, <4>2
    <3> QED BY <3>1, <3>2
  <2>4. WritersTyped'
    BY <1>1, <2>3, WriterTyped DEF Writers
  <2>5. TableTyped'
    BY <1>8, <2>2, <2>4 DEF Remove, Typed, TableTyped, SlotsTyped
  <2>6. MtpTyped'
    BY <1>8 DEF Remove, Typed, MtpTyped, MtpIdle
  <2>7. knows' \in BOOLEAN /\ (~session' => ~knows')
    BY <1>8, Zenon DEF Remove, Typed, SessionTyped
  <2>8. SessionTyped'
    BY <1>8, <2>1, <2>7 DEF Remove, Typed, SessionTyped, MtpTyped
  <2> QED BY <2>5, <2>6, <2>8 DEF Typed
<1>9. CASE RemoveClear
  <2>1. SlotsTyped'
    BY <1>1, <1>9 DEF RemoveClear, WritersTyped, SlotsTyped, Slot, Empty, Busy, Writers
  <2>2. "mq" \in Writers
    BY DEF Writers
  <2> QED BY <1>9, <2>1, <2>2, AtRestGoesOn, WritesTyped DEF RemoveClear
<1> QED BY <1>2, <1>3, <1>4, <1>5, <1>6, <1>7, <1>8, <1>9 DEF Writing

\* A store of the configuration is read.
LEMMA LoadTyped ==
  ASSUME Typed, NEW s \in Stores, LoadStore(s) PROVE Typed'
<1> DEFINE next == [pc |-> "guard", store |-> s, slot |-> 0]
<1>1. "main" \in Writers /\ GoesOn("main", next)
  BY DEF Writers, GoesOn
<1>2. WritersTyped'
  BY <1>1, WriterTyped DEF LoadStore, Typed, TableTyped
<1>3. TableTyped'
  BY <1>2 DEF LoadStore, Typed, TableTyped
<1>4. mtp' = mtp /\ MtpTyped
  BY DEF LoadStore, Typed, sessionVars
<1>5. MtpTyped'
  BY <1>4 DEF MtpTyped, MtpIdle
<1>6. SessionTyped'
  BY DEF LoadStore, Typed, SessionTyped, sessionVars
<1> QED BY <1>3, <1>5, <1>6 DEF Typed

\* What a command leaves of the table and of the session.
Kept ==
  /\ SlotsTyped'
  /\ roots' \subseteq Slots \cup {0} /\ host' \subseteq Slots \cup {0}
  /\ objects' \subseteq objects /\ (~session => roots' = roots)
  /\ knows' \in BOOLEAN /\ (knows' => knows)

\* A step that does nothing to the table and the host keeps both typed.
LEMMA NothingKept == ASSUME Typed, NothingHappens PROVE Kept
<1>1. SlotsTyped' /\ roots' = roots /\ host' = host /\ objects' = objects
  BY DEF Typed, TableTyped, SlotsTyped, NothingHappens
<1>2. knows' = knows /\ knows \in BOOLEAN
  BY DEF Typed, SessionTyped, NothingHappens
<1>3. knows' \in BOOLEAN /\ (knows' => knows)
  BY <1>2
<1> QED BY <1>1, <1>3 DEF Kept, Typed, SessionTyped

\* Events leave what the host knows typed, and never make it know more.
LEMMA AnnouncesKept ==
  ASSUME Typed, NEW ids, Announces(ids)
  PROVE  knows' \in BOOLEAN /\ (knows' => knows)
BY Zenon DEF Typed, SessionTyped, Announces

\* mount_store keeps the table typed.
LEMMA MountKept ==
  ASSUME Typed, NEW i \in Slots, NEW fs, mount_store(i, fs) PROVE Kept
<1>1. slots[i].id \in Slots \cup {0}
  BY DEF Typed, TableTyped, Slot
<1>2. SlotsTyped'
  BY DEF Typed, TableTyped, SlotsTyped, Slot, mount_store
<1>3. roots' \subseteq Slots \cup {0} /\ host' \subseteq Slots \cup {0}
  BY <1>1 DEF Typed, SessionTyped, mount_store, Announces
<1>4. objects' \subseteq objects /\ (~session => roots' = roots)
  BY DEF mount_store
<1>5. knows' \in BOOLEAN /\ (knows' => knows)
  BY AnnouncesKept DEF mount_store
<1> QED BY <1>2, <1>3, <1>4, <1>5 DEF Kept

\* umount_store keeps the table typed.
LEMMA UmountKept ==
  ASSUME Typed, NEW i \in Slots, NEW fs \in SUBSET Flags, umount_store(i, fs) PROVE Kept
<1>1. SlotsTyped'
  BY DEF Typed, TableTyped, SlotsTyped, Slot, umount_store
<1>2. roots' \subseteq Slots \cup {0} /\ host' \subseteq Slots \cup {0}
  BY DEF Typed, SessionTyped, umount_store, Announces
<1>3. objects' \subseteq objects /\ (~session => roots' = roots)
  BY DEF umount_store, Typed, SessionTyped
<1>4. knows' \in BOOLEAN /\ (knows' => knows)
  BY AnnouncesKept DEF umount_store
<1> QED BY <1>1, <1>2, <1>3, <1>4 DEF Kept

\* A step that keeps table and host typed, and what else it may change, is typed.
LEMMA KeptTyped ==
  ASSUME Typed, Kept, WritersTyped', toLoad' = toLoad, cmds' \in 0..MaxCmds,
         sweep' \in [cmd : {"lock", "unlock"}, todo : SUBSET Slots],
         mtp' = mtp, session' = session, emptied' = emptied
  PROVE  Typed'
<1>1. TableTyped'
  BY DEF Typed, TableTyped, Kept, SlotsTyped
<1>2. MtpTyped'
  BY DEF Typed, MtpTyped, MtpIdle
<1>3. (~session' => ~knows') /\ session' \in BOOLEAN /\ knows' \in BOOLEAN
  BY Zenon DEF Typed, SessionTyped, Kept
<1>4. SessionTyped'
  BY <1>3 DEF Typed, SessionTyped, Kept
<1> QED BY <1>1, <1>2, <1>4 DEF Typed

\* A command, or a step of one.
LEMMA MsgQueueTyped ==
  ASSUME Typed, MsgQueue PROVE Typed'
<1> USE StorageTableAssumption, SlotsNat
<1>1. WritersTyped /\ SlotsTyped /\ "mq" \in Writers
  BY DEF Typed, TableTyped, SlotsTyped, Writers
<1>2. ASSUME NEW kind, NewCommand(kind)
      PROVE  /\ toLoad' = toLoad /\ cmds' \in 0..MaxCmds /\ mtp' = mtp
             /\ session' = session /\ emptied' = emptied
  BY <1>2 DEF NewCommand, Typed, TableTyped
<1>3. ASSUME writer' = writer PROVE WritersTyped'
  BY <1>1, <1>3 DEF WritersTyped, Busy
<1>4. ASSUME NEW s \in Stores, AddCommand(s) \/ RmCommand(s) PROVE Typed'
  <2>1. PICK next : GoesOn("mq", next) /\ writer' = [writer EXCEPT !["mq"] = next]
    BY <1>4 DEF AddCommand, RmCommand, GoesOn
  <2>2. WritersTyped'
    BY <1>1, <2>1, WriterTyped
  <2>3. Kept
    BY <1>4, NothingKept DEF AddCommand, RmCommand, NothingHappens
  <2> QED BY <1>2, <1>4, <2>2, <2>3, KeptTyped DEF AddCommand, RmCommand, Typed, TableTyped
<1>5. ASSUME NEW s \in Stores, NEW form \in {"mount", "quoted"}, Mount(form, s) PROVE Typed'
  <2>1. Kept
    BY <1>5, NameFound, MountKept, NothingKept DEF Mount, Used
  <2> QED BY <1>2, <1>3, <1>5, <2>1, KeptTyped DEF Mount, Typed, TableTyped
<1>6. ASSUME NEW s \in Stores, Unmount(s) PROVE Typed'
  <2>1. {"notmounted"} \in SUBSET Flags
    BY DEF Flags
  <2>2. Kept
    BY <1>6, <2>1, NameFound, UmountKept, NothingKept DEF Unmount, Used
  <2> QED BY <1>2, <1>3, <1>6, <2>2, KeptTyped DEF Unmount, Typed, TableTyped
<1>7. ASSUME NEW cmd \in {"lock", "unlock"}, LockCommand(cmd) PROVE Typed'
  <2>1. Kept
    BY <1>7, NothingKept DEF LockCommand, NothingHappens
  <2> QED BY <1>2, <1>3, <1>7, <2>1, KeptTyped DEF LockCommand
<1>8. CASE LockStep
  <2>1. Min(sweep.todo) \in Slots /\ {"locked"} \in SUBSET Flags
    BY <1>8, MinFound DEF LockStep, Typed, TableTyped, Flags
  <2>2. Kept
    BY <1>8, <2>1, MountKept, UmountKept, NothingKept DEF LockStep
  <2> QED BY <1>3, <1>8, <2>2, KeptTyped DEF LockStep, Typed, TableTyped
<1> QED BY <1>4, <1>5, <1>6, <1>7, <1>8 DEF MsgQueue

\* A step of the MTP thread.
LEMMA MtpThreadTyped ==
  ASSUME Typed, MtpThread PROVE Typed'
<1> USE StorageTableAssumption, SlotsNat
<1>1. MtpThread => UNCHANGED tableVars
  BY DEF MtpThread, Mtp, OpenSession, OpenRoot, CloseSession, GetStorageIDs,
         GetStorageIDsSlot, GetStorageIDsReply, GetObjectHandles, ScanFolder
<1>2. TableTyped'
  BY <1>1 DEF tableVars, Typed, TableTyped, WritersTyped, Busy
<1>3. \A i \in Slots : slots[i].id \in Slots \cup {0}
  BY DEF Typed, TableTyped, Slot
<1> USE <1>3 DEF Typed, MtpTyped, SessionTyped, MtpIdle, MtpStarts
<1>4. CASE OpenSession
  <2>1. MtpTyped'
    <3>1. mtp' = [op |-> "open", slot |-> 1, ids |-> {}, store |-> NoStore, lost |-> FALSE]
      BY <1>4 DEF OpenSession
    <3> QED BY <3>1
  <2>2. SessionTyped'
    BY <1>4 DEF OpenSession
  <2> QED BY <1>2, <2>1, <2>2
<1>5. CASE OpenRoot
  <2>1. ~WalkOver => mtp.slot \in Slots
    BY <1>5 DEF OpenRoot, WalkOver, Slots
  <2>2. MtpTyped'
    <3>1. CASE mtp' = MtpIdle
      BY <3>1
    <3>2. CASE mtp' = [mtp EXCEPT !.slot = mtp.slot + 1] /\ mtp.slot \in Slots
      BY <1>5, <3>2 DEF OpenRoot, Slots
    <3> QED BY <1>5, <2>1, <3>1, <3>2 DEF OpenRoot
  <2>3. knows' = knows /\ session' = session /\ session
    BY <1>5 DEF OpenRoot
  <2>4. SessionTyped'
    BY <1>5, <2>1, <2>3 DEF OpenRoot
  <2> QED BY <1>2, <2>2, <2>4
<1>6. CASE CloseSession
  <2>1. MtpTyped'
    BY <1>6 DEF CloseSession
  <2>2. SessionTyped'
    BY <1>6 DEF CloseSession
  <2> QED BY <1>2, <2>1, <2>2
<1>7. CASE GetStorageIDs
  <2>1. MtpTyped'
    <3>1. mtp' = [op |-> "ids", slot |-> 1, ids |-> {}, store |-> NoStore, lost |-> FALSE]
      BY <1>7 DEF GetStorageIDs
    <3> QED BY <3>1
  <2>2. SessionTyped'
    BY <1>7 DEF GetStorageIDs
  <2> QED BY <1>2, <2>1, <2>2
<1>8. CASE GetStorageIDsSlot
  <2>1. ~WalkOver => mtp.slot \in Slots
    BY <1>8 DEF GetStorageIDsSlot, WalkOver, Slots
  <2>2. MtpTyped'
    <3>1. CASE WalkOver
      BY <1>8, <3>1 DEF GetStorageIDsSlot
    <3>2. CASE ~WalkOver
      <4> DEFINE ids == IF {"notmounted", "locked"} \cap slots[mtp.slot].flags = {}
                        THEN mtp.ids \cup {slots[mtp.slot].id} ELSE mtp.ids
      <4>1. mtp' = [mtp EXCEPT !.slot = mtp.slot + 1, !.ids = ids] /\ ids \subseteq Slots \cup {0}
        BY <1>8, <2>1, <3>2 DEF GetStorageIDsSlot
      <4> HIDE DEF ids
      <4>2. mtp.slot + 1 \in 0..NbSlots + 1 /\ mtp.slot + 1 # 0 /\ mtp.op = "ids"
        BY <1>8, <2>1, <3>2 DEF GetStorageIDsSlot, Slots
      <4> QED BY <4>1, <4>2
    <3> QED BY <3>1, <3>2
  <2>3. SessionTyped'
    BY <1>8 DEF GetStorageIDsSlot
  <2> QED BY <1>2, <2>2, <2>3
<1>9. CASE GetStorageIDsReply
  <2>1. MtpTyped'
    BY <1>9 DEF GetStorageIDsReply
  <2>2. SessionTyped'
    BY <1>9 DEF GetStorageIDsReply
  <2> QED BY <1>2, <2>1, <2>2
<1>10. ASSUME NEW id \in Slots, GetObjectHandles(id) PROVE Typed'
  <2>1. /\ index_by_id(id) \in Used /\ slots[index_by_id(id)].id = id
        /\ index_by_id(id) = id
    BY <1>10, IdFound DEF GetObjectHandles, TableTyped, Used
  <2>2. slots[id].root \in Stores
    BY <2>1 DEF Used, TableTyped, Slot
  <2>3. MtpTyped'
    <3>1. mtp' = [op |-> "scan", slot |-> id, ids |-> {id}, store |-> slots[id].root,
                  lost |-> FALSE]
      BY <1>10, <2>1 DEF GetObjectHandles
    <3> QED BY <2>2, <3>1 DEF Slots
  <2>4. SessionTyped'
    BY <1>10 DEF GetObjectHandles
  <2> QED BY <1>2, <2>3, <2>4
<1>11. CASE ScanFolder
  <2>1. MtpTyped'
    BY <1>11 DEF ScanFolder
  <2>2. (CHOOSE k \in mtp.ids : TRUE) = mtp.slot /\ mtp.slot \in Slots /\ mtp.store \in Stores
    BY <1>11 DEF ScanFolder
  <2>3. objects' \subseteq [id : Slots, of : Stores]
    BY <1>11, <2>2 DEF ScanFolder
  <2>4. session /\ session' = session /\ knows' = knows
    BY <1>11 DEF ScanFolder
  <2>5. SessionTyped'
    BY <1>11, <2>3, <2>4 DEF ScanFolder
  <2> QED BY <1>2, <2>1, <2>5
<1> QED BY <1>4, <1>5, <1>6, <1>7, <1>8, <1>9, <1>10, <1>11 DEF MtpThread

\* A stutter keeps the types.
LEMMA StutterTyped == ASSUME Typed, UNCHANGED vars PROVE Typed'
BY DEF Typed, TableTyped, WritersTyped, Busy, MtpTyped, MtpIdle, SessionTyped, vars,
       tableVars, sessionVars

\* Typed holds in every state.
LEMMA TypedCorrect == Spec => []Typed
<1>1. Typed /\ [Next]_vars => Typed'
  BY WritingTyped, LoadTyped, MsgQueueTyped, MtpThreadTyped, StutterTyped DEF Next
<1> QED BY InitTyped, <1>1, PTL DEF Spec

\* The slots, what the writers and the MTP thread hold of them and what the host
\* was told keep their types, and an operation that is over has left nothing,
\* for any number of writers' steps between any two of the MTP thread.
THEOREM TypeCorrect == Spec => []TypeOK
<1>1. Typed => TypeOK
  <2> SUFFICES ASSUME Typed PROVE TypeOK
    OBVIOUS
  <2> USE DEF Typed
  <2>1. \A i \in Slots : /\ slots[i].root \in Stores \cup {NoStore}
                         /\ slots[i].flags \subseteq {"lockable", "locked", "notmounted"}
                         /\ slots[i].id \in {0, i}
                         /\ {slots[i].uid, slots[i].gid} \subseteq Stores \cup {Nobody}
    BY DEF TableTyped, Slot, Flags
  <2>2. \A w \in Writers :
          /\ writer[w].store \in Stores \cup {NoStore} /\ writer[w].slot \in Slots \cup {0}
          /\ writer[w].pc \in {"place", "flags", "id", "clear"} => writer[w].slot # 0
    BY SlotsNat DEF TableTyped, WritersTyped, Busy
  <2> QED BY <2>1, <2>2 DEF TypeOK, TableTyped, WritersTyped, MtpTyped, SessionTyped
<1> QED BY TypedCorrect, <1>1, PTL

-----------------------------------------------------------------------------
(* One writer at a time.                                                    *)

\* One writer stays one: the command thread starts when the configuration is read.
LEMMA OneWriterStep ==
  ASSUME ~Early, Typed, OneWriter, [Next]_vars PROVE OneWriter'
<1> USE DEF OneWriter, Loaded
<1>1. "main" \in Writers /\ "mq" \in Writers /\ Writers = {"main", "mq"}
  BY DEF Writers
<1>2. WritersTyped
  BY DEF Typed, TableTyped
<1>3. ASSUME NEW w \in Writers, NEW next, Writes(w, next), writer[w].pc # "idle"
      PROVE  OneWriter'
  <2>1. writer[w] # AtRest
    BY <1>3 DEF AtRest
  <2> QED BY <1>1, <1>2, <1>3, <2>1 DEF Writes, sessionVars, WritersTyped, MtpIdle, AtRest
<1>4. CASE Writing
  <2>1. ASSUME NEW w \in Writers, \/ AddGuard(w) \/ AddFind(w) \/ AddPlace(w) \/ AddFails(w)
                                  \/ AddFlags(w) \/ AddId(w)
        PROVE  OneWriter'
    <3>1. PICK next : Writes(w, next) /\ writer[w].pc # "idle"
      BY <2>1 DEF AddGuard, AddFind, AddPlace, AddFails, AddFlags, AddId
    <3> QED BY <1>3, <3>1
  <2>2. CASE RemoveClear
    BY <1>1, <1>3, <2>2 DEF RemoveClear
  <2>3. CASE Remove
    <3>1. writer["mq"] # AtRest
      BY <2>3 DEF Remove, AtRest
    <3>2. Loaded /\ sweep.todo = {}
      BY <3>1
    <3>3. writer'["main"] = writer["main"] /\ toLoad' = toLoad /\ sweep' = sweep
      BY <1>1, <1>2, <2>3 DEF Remove, WritersTyped
    <3> QED BY <3>2, <3>3
  <2> QED BY <1>4, <2>1, <2>2, <2>3 DEF Writing
<1>5. ASSUME NEW s \in Stores, LoadStore(s) PROVE OneWriter'
  BY <1>1, <1>2, <1>5 DEF LoadStore, WritersTyped, sessionVars, MtpIdle, AtRest
<1>6. ASSUME NEW kind, NewCommand(kind), UNCHANGED writer \/ UNCHANGED sweep,
             writer'["main"] = writer["main"]
      PROVE  OneWriter'
  BY <1>6 DEF NewCommand, AtRest
<1>7. CASE MsgQueue
  <2>1. ASSUME NEW next, writer' = [writer EXCEPT !["mq"] = next]
        PROVE  writer'["main"] = writer["main"]
    BY <1>1, <1>2, <2>1 DEF WritersTyped
  <2>2. CASE LockStep
    BY <2>2 DEF LockStep, MtpIdle, AtRest
  <2>3. ASSUME NEW s \in Stores, \/ AddCommand(s) \/ RmCommand(s) \/ Unmount(s)
                                 \/ \E form \in {"mount", "quoted"} : Mount(form, s)
        PROVE  OneWriter'
    <3>1. PICK kind : NewCommand(kind)
      BY <2>3 DEF AddCommand, RmCommand, Unmount, Mount
    <3>2. UNCHANGED sweep /\ writer'["main"] = writer["main"]
      <4>1. ASSUME AddCommand(s) \/ RmCommand(s)
            PROVE  UNCHANGED sweep /\ writer'["main"] = writer["main"]
        BY <2>1, <4>1 DEF AddCommand, RmCommand
      <4>2. ASSUME Unmount(s) \/ \E form \in {"mount", "quoted"} : Mount(form, s)
            PROVE  UNCHANGED <<writer, sweep>>
        <5>1. CASE Unmount(s)
          BY <5>1 DEF Unmount
        <5>2. ASSUME NEW form \in {"mount", "quoted"}, Mount(form, s)
              PROVE  UNCHANGED <<writer, sweep>>
          BY <5>2 DEF Mount
        <5> QED BY <4>2, <5>1, <5>2
      <4> QED BY <2>3, <4>1, <4>2
    <3> QED BY <1>6, <3>1, <3>2
  <2>4. ASSUME NEW cmd \in {"lock", "unlock"}, LockCommand(cmd) PROVE OneWriter'
    BY <1>6, <2>4 DEF LockCommand
  <2> QED BY <1>7, <2>2, <2>3, <2>4 DEF MsgQueue
<1>8. CASE MtpThread
  <2>1. MtpThread => UNCHANGED tableVars
    BY DEF MtpThread, Mtp, OpenSession, OpenRoot, CloseSession, GetStorageIDs,
           GetStorageIDsSlot, GetStorageIDsReply, GetObjectHandles, ScanFolder
  <2>2. MtpStarts \/ mtp.op # "idle"
    <3>1. ASSUME NEW id \in Slots, GetObjectHandles(id) PROVE MtpStarts
      BY <3>1 DEF GetObjectHandles
    <3>2. OpenSession \/ CloseSession \/ GetStorageIDs => MtpStarts
      BY DEF OpenSession, CloseSession, GetStorageIDs
    <3>3. OpenRoot \/ GetStorageIDsSlot \/ GetStorageIDsReply \/ ScanFolder => mtp.op # "idle"
      BY DEF OpenRoot, GetStorageIDsSlot, GetStorageIDsReply, ScanFolder
    <3> QED BY <1>8, <3>1, <3>2, <3>3 DEF MtpThread
  <2>3. Loaded
    BY <2>2 DEF MtpStarts, MtpIdle
  <2> QED BY <1>8, <2>1, <2>3 DEF tableVars, AtRest
<1>9. CASE UNCHANGED vars
  BY <1>9 DEF vars, tableVars, sessionVars, MtpIdle, AtRest
<1> QED BY <1>4, <1>5, <1>7, <1>8, <1>9 DEF Next

-----------------------------------------------------------------------------
(* The table.                                                               *)

\* A writer that is at work is the only one.
LEMMA Alone ==
  ASSUME OneWriter, NEW w \in Writers, writer[w].pc # "idle"
  PROVE  \A v \in Writers \ {w} : writer[v] = AtRest
BY DEF OneWriter, Loaded, Writers, AtRest

\* A writer w goes on with next, and its slot k becomes r.
SlotStep(w, k, next, r) ==
  /\ k = writer[w].slot /\ Busy(w)
  /\ writer' = [writer EXCEPT ![w] = next] /\ slots' = [slots EXCEPT ![k] = r]
  /\ \/ next = AtRest /\ (r.root # NoStore => Whole(k)') /\ (r.root = NoStore => r = Empty)
     \/ next # AtRest /\ next.slot = k /\ next.pc \in {"flags", "id"} /\ SlotOf(w)'
  /\ \A i \in Used \ {k} : slots[i].root # r.root

\* One step of one writer on its slot keeps the table whole.
LEMMA SlotWritten ==
  ASSUME Typed, OneWriter, TableInv, NEW w \in Writers, NEW k, NEW next, NEW r,
         SlotStep(w, k, next, r)
  PROVE  TableInv'
<1> USE DEF SlotStep
<1>0. \A v \in Writers \ {w} : writer[v] = AtRest
  BY Alone DEF Busy
<1>1. SlotsTyped /\ WritersTyped /\ k \in Slots
  BY DEF Typed, TableTyped, SlotsTyped, WritersTyped
<1>2. /\ \A i \in Slots \ {k} : slots'[i] = slots[i] /\ (i \in Used' <=> i \in Used)
      /\ slots'[k] = r /\ (k \in Used' <=> r.root # NoStore)
      /\ Used' \subseteq Slots
  BY <1>1 DEF SlotsTyped, Used
<1>3. writer'[w] = next /\ \A v \in Writers \ {w} : writer'[v] = AtRest
  BY <1>0, <1>1 DEF WritersTyped
<1>4. ASSUME NEW i \in Slots, \A v \in Writers : Busy(v)' => writer'[v].slot # i
      PROVE  (i \in Used' => Whole(i)') /\ (i \notin Used' => slots'[i] = Empty)
  <2>1. CASE i = k
    <3>1. next = AtRest
      BY <1>3, <1>4, <2>1 DEF Busy
    <3> QED BY <1>2, <2>1, <3>1
  <2>2. CASE i # k
    <3>1. \A v \in Writers : Busy(v) => writer[v].slot # i
      BY <1>0, <2>2 DEF Busy, AtRest
    <3>2. (i \in Used => Whole(i)) /\ (i \notin Used => slots[i] = Empty)
      BY <3>1 DEF TableInv
    <3>3. Whole(i)' <=> Whole(i)
      BY <1>2, <2>2 DEF Whole
    <3> QED BY <1>2, <2>2, <3>2, <3>3
  <2> QED BY <2>1, <2>2
<1>5. ASSUME NEW v \in Writers PROVE SlotOf(v)'
  BY <1>3 DEF SlotOf, AtRest
<1>6. \A i, j \in Used' : slots'[i].root = slots'[j].root => i = j
  BY <1>2 DEF TableInv
<1>7. \A v \in Writers : writer'[v].pc \notin {"find", "place"}
  BY <1>3 DEF AtRest
<1> QED BY <1>4, <1>5, <1>6, <1>7 DEF TableInv

\* An empty slot, once its path, user and group are written.
LEMMA PlacedInEmpty ==
  ASSUME NEW s
  PROVE  [Empty EXCEPT !.root = s, !.uid = IF s \in WithUid THEN s ELSE Nobody,
                       !.gid = IF s \in WithGid THEN s ELSE Nobody] = Placed(s, {})
<1>1. PICK u : u = IF s \in WithUid THEN s ELSE Nobody
  OBVIOUS
<1>2. PICK g : g = IF s \in WithGid THEN s ELSE Nobody
  OBVIOUS
<1>3. PICK e : e = Empty
  OBVIOUS
<1>4. PICK p : p = [e EXCEPT !.root = s, !.uid = u, !.gid = g]
  OBVIOUS
<1>5. PICK q : q = [root |-> s, flags |-> {}, id |-> 0, uid |-> u, gid |-> g]
  OBVIOUS
<1>6. q = p
  BY <1>3, <1>4, <1>5 DEF Empty
<1>7. Placed(s, {}) = q
  BY <1>1, <1>2, <1>5 DEF Placed
<1> QED BY <1>1, <1>2, <1>3, <1>4, <1>6, <1>7, Zenon

\* The steps of mtp_add_storage.
LEMMA AddTable ==
  ASSUME Typed, OneWriter, TableInv, NEW w \in Writers,
         \/ AddGuard(w) \/ AddFind(w) \/ AddPlace(w) \/ AddFails(w) \/ AddFlags(w) \/ AddId(w)
  PROVE  TableInv'
<1> DEFINE s == writer[w].store
<1>0. PICK k : k = writer[w].slot
  OBVIOUS
<1>1. SlotsTyped /\ WritersTyped
  BY DEF Typed, TableTyped, SlotsTyped
<1>2. writer[w].pc # "idle"
  BY DEF AddGuard, AddFind, AddPlace, AddFails, AddFlags, AddId
<1>3. \A v \in Writers \ {w} : writer[v] = AtRest
  BY <1>2, Alone
<1>4. writer[w].pc \in {"guard", "find", "place", "flags", "id"} => s \in Stores
  BY <1>1 DEF WritersTyped
<1>5. Busy(w) => k \in Slots
  BY <1>0, <1>1 DEF WritersTyped
<1>6. ASSUME slots' = slots, NEW next, writer' = [writer EXCEPT ![w] = next], ~Busy(w),
             next.pc \in {"idle", "find", "place"},
             next.pc = "place" => next.slot \in Slots \ Used,
             next.pc \in {"find", "place"} => \A i \in Used : slots[i].root # next.store
      PROVE  TableInv'
  <2>1. writer'[w] = next /\ \A v \in Writers \ {w} : writer'[v] = AtRest
    BY <1>1, <1>3, <1>6 DEF WritersTyped
  <2>2. \A i \in Slots : (i \in Used => Whole(i)) /\ (i \notin Used => slots[i] = Empty)
    BY <1>3, <1>6 DEF TableInv, Busy, AtRest
  <2>3. Used' = Used /\ \A i \in Slots : Whole(i)' <=> Whole(i)
    BY <1>6 DEF Used, Whole
  <2>4. \A v \in Writers : SlotOf(v)'
    BY <1>6, <2>1, <2>2 DEF SlotOf, AtRest
  <2>5. \A v \in Writers : writer'[v].pc \in {"find", "place"} =>
          \A i \in Used' : slots'[i].root # writer'[v].store
    BY <1>6, <2>1, <2>3 DEF AtRest
  <2> QED BY <1>6, <2>2, <2>3, <2>4, <2>5 DEF TableInv
<1>7. CASE AddGuard(w)
  <2>1. CASE index_by_name(s) # 0
    BY <1>6, <1>7, <2>1 DEF AddGuard, Writes, Busy, AtRest
  <2>2. CASE index_by_name(s) = 0
    <3>1. \A i \in Used : slots[i].root # s
      BY <2>2, NameFound DEF Used, Slots
    <3>2. writer' = [writer EXCEPT ![w] = [writer[w] EXCEPT !.pc = "find"]]
      BY <1>7, <2>2 DEF AddGuard, Writes
    <3>3. [writer[w] EXCEPT !.pc = "find"].pc = "find" /\ [writer[w] EXCEPT !.pc = "find"].store = s
      BY <1>1 DEF WritersTyped
    <3>4. slots' = slots /\ ~Busy(w)
      BY <1>7 DEF AddGuard, Busy
    <3> QED BY <1>6, <3>1, <3>2, <3>3, <3>4
  <2> QED BY <2>1, <2>2
<1>8. CASE AddFind(w)
  <2>1. CASE FirstEmpty = 0
    <3>1. writer' = [writer EXCEPT ![w] = AtRest] /\ slots' = slots /\ ~Busy(w)
      BY <1>8, <2>1 DEF AddFind, Writes, Busy
    <3> QED BY <1>6, <3>1 DEF AtRest
  <2>2. CASE FirstEmpty # 0
    <3> DEFINE next == [writer[w] EXCEPT !.pc = "place", !.slot = FirstEmpty]
    <3>1. \A i \in Used : slots[i].root # s
      BY <1>8 DEF AddFind, TableInv
    <3>2. writer' = [writer EXCEPT ![w] = next]
      BY <1>8, <2>2 DEF AddFind, Writes
    <3>3. next.pc = "place" /\ next.store = s /\ next.slot = FirstEmpty
      BY <1>1 DEF WritersTyped
    <3>4. slots' = slots /\ ~Busy(w) /\ FirstEmpty \in Slots \ Used
      BY <1>8, <2>2, EmptyFound DEF AddFind, Busy
    <3> HIDE DEF next
    <3> QED BY <1>6, <3>1, <3>2, <3>3, <3>4
  <2> QED BY <2>1, <2>2
<1>9. CASE AddPlace(w)
  <2>1. Busy(w) /\ slots[k] = Empty /\ s \in Stores
    BY <1>0, <1>4, <1>9 DEF AddPlace, Busy, TableInv, SlotOf
  <2>2. [Empty EXCEPT !.root = s, !.uid = IF s \in WithUid THEN s ELSE Nobody,
                      !.gid = IF s \in WithGid THEN s ELSE Nobody] = Placed(s, {})
    BY PlacedInEmpty
  <2>3. slots' = [slots EXCEPT ![k] = Placed(s, {})]
    <3> DEFINE placed(e) == [e EXCEPT !.root = s, !.uid = IF s \in WithUid THEN s ELSE Nobody,
                                      !.gid = IF s \in WithGid THEN s ELSE Nobody]
    <3>1. slots' = [slots EXCEPT ![k] = placed(slots[k])]
      BY <1>0, <1>9 DEF AddPlace
    <3>2. placed(slots[k]) = Placed(s, {})
      BY <2>1, <2>2
    <3> HIDE DEF placed, s
    <3> QED BY <3>1, <3>2
  <2> DEFINE next == [writer[w] EXCEPT !.pc = "flags"]
  <2>4. writer' = [writer EXCEPT ![w] = next]
    BY <1>9 DEF AddPlace, Writes
  <2>5. next.pc = "flags" /\ next.store = s /\ next.slot = k /\ next # AtRest
    BY <1>0, <1>1, <1>9 DEF WritersTyped, AtRest
  <2>6. writer'[w] = next /\ slots'[k] = Placed(s, {})
    BY <1>1, <1>5, <2>1, <2>3, <2>4 DEF WritersTyped, SlotsTyped
  <2>7. SlotOf(w)'
    BY <2>5, <2>6 DEF SlotOf
  <2>8. \A i \in Used \ {k} : slots[i].root # Placed(s, {}).root
    BY <1>9 DEF AddPlace, TableInv, Placed
  <2> HIDE DEF next, s
  <2>9. SlotStep(w, k, next, Placed(s, {}))
    BY <1>0, <2>1, <2>3, <2>4, <2>5, <2>7, <2>8 DEF SlotStep
  <2> QED BY <2>9, SlotWritten
<1>10. CASE AddFails(w)
  <2>1. Busy(w) /\ slots' = [slots EXCEPT ![k] = Empty] /\ writer' = [writer EXCEPT ![w] = AtRest]
    BY <1>0, <1>10 DEF AddFails, Busy, Writes
  <2>2. Empty.root = NoStore /\ \A i \in Used \ {k} : slots[i].root # Empty.root
    BY DEF Empty, Used
  <2>3. SlotStep(w, k, AtRest, Empty)
    BY <1>0, <2>1, <2>2 DEF SlotStep
  <2> QED BY <2>3, SlotWritten
<1>11. CASE AddFlags(w)
  <2>1. Busy(w) /\ slots[k] = Placed(s, {}) /\ s \in Stores
    BY <1>0, <1>4, <1>11 DEF AddFlags, Busy, TableInv, SlotOf
  <2>2. [Placed(s, {}) EXCEPT !.flags = Options(s)] = Placed(s, Options(s))
    BY DEF Placed
  <2>3. slots' = [slots EXCEPT ![k] = Placed(s, Options(s))]
    BY <1>0, <1>11, <2>1, <2>2 DEF AddFlags
  <2> DEFINE next == [writer[w] EXCEPT !.pc = "id"]
  <2>4. writer' = [writer EXCEPT ![w] = next]
    BY <1>11 DEF AddFlags, Writes
  <2>5. next.pc = "id" /\ next.store = s /\ next.slot = k /\ next # AtRest
    BY <1>0, <1>1, <1>11 DEF WritersTyped, AtRest
  <2>6. writer'[w] = next /\ slots'[k] = Placed(s, Options(s))
    BY <1>1, <1>5, <2>1, <2>3, <2>4 DEF WritersTyped, SlotsTyped
  <2>7. SlotOf(w)'
    BY <2>5, <2>6 DEF SlotOf
  <2>8. k \in Used
    BY <1>5, <2>1, StorageTableAssumption DEF Used, Placed
  <2>9. \A i \in Used \ {k} : slots[i].root # Placed(s, Options(s)).root
    BY <2>1, <2>8 DEF TableInv, Placed
  <2> HIDE DEF next, s
  <2>10. SlotStep(w, k, next, Placed(s, Options(s)))
    BY <1>0, <2>1, <2>3, <2>4, <2>5, <2>7, <2>9 DEF SlotStep
  <2> QED BY <2>10, SlotWritten
<1>12. CASE AddId(w)
  <2> DEFINE r == [Placed(s, Options(s)) EXCEPT !.id = k]
  <2>1. Busy(w) /\ slots[k] = Placed(s, Options(s)) /\ s \in Stores
    BY <1>0, <1>4, <1>12 DEF AddId, Busy, TableInv, SlotOf
  <2>2. slots' = [slots EXCEPT ![k] = r] /\ writer' = [writer EXCEPT ![w] = AtRest]
    BY <1>0, <1>12, <2>1 DEF AddId, Writes
  <2>3. k \in Used /\ r.root = s /\ s # NoStore
    BY <1>5, <2>1, StorageTableAssumption DEF Used, Placed
  <2>4. \A i \in Used \ {k} : slots[i].root # r.root
    BY <2>1, <2>3 DEF TableInv, Placed
  <2>5. slots'[k] = r
    BY <1>1, <1>5, <2>1, <2>2 DEF SlotsTyped
  <2>6. Whole(k)'
    BY <2>5, <2>3 DEF Whole, Placed, Options
  <2> HIDE DEF r, s
  <2>7. SlotStep(w, k, AtRest, r)
    BY <1>0, <2>1, <2>2, <2>3, <2>4, <2>6 DEF SlotStep
  <2> QED BY <2>7, SlotWritten
<1> QED BY <1>7, <1>8, <1>9, <1>10, <1>11, <1>12

\* mtp_remove_storage.
LEMMA RemoveTable ==
  ASSUME Typed, OneWriter, TableInv, Remove \/ RemoveClear PROVE TableInv'
<1>1. SlotsTyped /\ WritersTyped /\ "mq" \in Writers
  BY DEF Typed, TableTyped, SlotsTyped, Writers
<1>2. writer["mq"].pc # "idle"
  BY DEF Remove, RemoveClear
<1>3. \A v \in Writers \ {"mq"} : writer[v] = AtRest
  BY <1>1, <1>2, Alone
<1>4. CASE Remove
  <2>1. PICK k : k = index_by_name(writer["mq"].store)
    OBVIOUS
  <2>2. \A v \in Writers : ~Busy(v)
    BY <1>3, <1>4 DEF Remove, Busy, AtRest
  <2>3. \A i \in Slots : (i \in Used => Whole(i)) /\ (i \notin Used => slots[i] = Empty)
    BY <2>2 DEF TableInv
  <2>4. CASE k = 0
    <3>1. slots' = slots /\ \A v \in Writers : writer'[v] = AtRest
      BY <1>1, <1>3, <1>4, <2>1, <2>4 DEF Remove, WritersTyped
    <3>2. Used' = Used /\ \A i \in Slots : Whole(i)' <=> Whole(i)
      BY <3>1 DEF Used, Whole
    <3>3. \A v \in Writers : SlotOf(v)'
      BY <3>1 DEF SlotOf, AtRest
    <3> QED BY <2>3, <3>1, <3>2, <3>3 DEF TableInv, AtRest
  <2>5. CASE k # 0
    <3> DEFINE next == [writer["mq"] EXCEPT !.pc = "clear", !.slot = k]
    <3>1. k \in Used /\ k \in Slots
      BY <2>1, <2>5, NameFound DEF Used
    <3>2. slots' = [slots EXCEPT ![k].root = NoStore]
          /\ writer' = [writer EXCEPT !["mq"] = next]
      BY <1>1, <1>4, <2>1, <2>5 DEF Remove, WritersTyped
    <3>3. next.pc = "clear" /\ next.slot = k
      BY <1>1 DEF WritersTyped
    <3> HIDE DEF next
    <3>4. writer'["mq"] = next /\ \A v \in Writers \ {"mq"} : writer'[v] = AtRest
      BY <1>1, <1>3, <3>2 DEF WritersTyped
    <3>5. slots'[k].root = NoStore /\ \A i \in Slots \ {k} : slots'[i] = slots[i]
      BY <1>1, <3>1, <3>2 DEF SlotsTyped, Slot
    <3>6. Used' = Used \ {k} /\ \A i \in Slots \ {k} : Whole(i)' <=> Whole(i)
      BY <3>5 DEF Used, Whole
    <3>7. \A i \in Slots : (\A v \in Writers : Busy(v)' => writer'[v].slot # i) =>
            (i \in Used' => Whole(i)') /\ (i \notin Used' => slots'[i] = Empty)
      BY <1>1, <2>3, <3>3, <3>4, <3>5, <3>6 DEF Busy
    <3>8. \A v \in Writers : SlotOf(v)'
      BY <3>3, <3>4, <3>5 DEF SlotOf, AtRest
    <3>9. \A i, j \in Used' : slots'[i].root = slots'[j].root => i = j
      BY <3>5, <3>6 DEF TableInv, Used
    <3>10. \A v \in Writers : writer'[v].pc \notin {"find", "place"}
      BY <3>3, <3>4 DEF AtRest
    <3> QED BY <3>7, <3>8, <3>9, <3>10 DEF TableInv
  <2> QED BY <2>4, <2>5
<1>5. CASE RemoveClear
  <2>1. PICK k : k = writer["mq"].slot
    OBVIOUS
  <2>2. Busy("mq") /\ writer["mq"].pc = "clear" /\ k \in Slots
    BY <1>1, <1>5, <2>1 DEF RemoveClear, Busy, WritersTyped
  <2>3. slots[k].root = NoStore
    BY <1>1, <2>1, <2>2 DEF TableInv, SlotOf
  <2>4. PICK e : e = Empty
    OBVIOUS
  <2>5. PICK p : p = [e EXCEPT !.root = NoStore]
    OBVIOUS
  <2>6. e = p
    BY <2>4, <2>5 DEF Empty
  <2>7. slots' = [slots EXCEPT ![k] = Empty] /\ writer' = [writer EXCEPT !["mq"] = AtRest]
    BY <1>5, <2>1, <2>3, <2>4, <2>5, <2>6 DEF RemoveClear, Writes
  <2>8. Empty.root = NoStore /\ \A i \in Used \ {k} : slots[i].root # Empty.root
    BY DEF Empty, Used
  <2>9. SlotStep("mq", k, AtRest, Empty)
    BY <2>1, <2>2, <2>7, <2>8 DEF SlotStep
  <2> QED BY <1>1, <2>9, SlotWritten
<1> QED BY <1>4, <1>5

\* Flags a command sets or clears leave a slot whole: "locked" is only set on a
\* lockable store, and "lockable" never changes.
LEMMA FlagsTable ==
  ASSUME Typed, TableInv, NEW i \in Used, NEW fs, slots' = [slots EXCEPT ![i].flags = fs],
         ("lockable" \in fs) = ("lockable" \in slots[i].flags),
         "locked" \in fs => "lockable" \in slots[i].flags \/ "locked" \in slots[i].flags,
         writer' = writer, writer["main"] = AtRest, writer["mq"] = AtRest
  PROVE  TableInv'
<1>1. SlotsTyped /\ i \in Slots
  BY DEF Typed, TableTyped, SlotsTyped, Used
<1>2. \A v \in Writers : writer[v] = AtRest
  BY DEF Writers
<1>3. \A k \in Slots : (k \in Used => Whole(k)) /\ (k \notin Used => slots[k] = Empty)
  BY <1>2 DEF TableInv, Busy, AtRest
<1>4. /\ \A k \in Slots \ {i} : slots'[k] = slots[k]
      /\ \A k \in Slots : slots'[k].root = slots[k].root
      /\ slots'[i].flags = fs /\ slots'[i].id = slots[i].id
      /\ slots'[i].uid = slots[i].uid /\ slots'[i].gid = slots[i].gid
  BY <1>1 DEF SlotsTyped, Slot
<1>5. Used' = Used
  BY <1>4 DEF Used
<1>6. \A k \in Used : Whole(k)'
  <2>1. ASSUME NEW k \in Used, k # i PROVE Whole(k)'
    BY <1>3, <1>4, <2>1 DEF Whole, Used
  <2>2. Whole(i)'
    BY <1>1, <1>3, <1>4 DEF Whole
  <2> QED BY <2>1, <2>2
<1>7. \A v \in Writers : SlotOf(v)'
  BY <1>2 DEF SlotOf, AtRest
<1>8. \A j, k \in Used' : slots'[j].root = slots'[k].root => j = k
  BY <1>4, <1>5 DEF TableInv, Used
<1> QED BY <1>1, <1>2, <1>3, <1>4, <1>5, <1>6, <1>7, <1>8 DEF TableInv, AtRest

\* A step that leaves slots and writers, or gives a command its store.
LEMMA SameTable ==
  ASSUME Typed, TableInv, slots' = slots, NEW w \in Writers, writer[w] = AtRest,
         NEW next, writer' = writer \/ writer' = [writer EXCEPT ![w] = next],
         next.pc \in {"idle", "guard", "remove"}
  PROVE  TableInv'
<1>1. Used' = Used /\ \A i \in Slots : Whole(i)' <=> Whole(i)
  BY DEF Used, Whole
<1>2. CASE writer' = writer
  <2>1. \A v \in Writers : SlotOf(v)' <=> SlotOf(v)
    BY <1>2 DEF SlotOf
  <2>2. \A v \in Writers : Busy(v)' <=> Busy(v)
    BY <1>2 DEF Busy
  <2> QED BY <1>1, <1>2, <2>1, <2>2 DEF TableInv
<1>3. CASE writer' = [writer EXCEPT ![w] = next]
  <2>1. writer'[w] = next /\ \A v \in Writers \ {w} : writer'[v] = writer[v]
    BY <1>3 DEF Typed, TableTyped, WritersTyped
  <2>2. \A v \in Writers : SlotOf(v)'
    BY <2>1 DEF SlotOf, TableInv
  <2>3. \A v \in Writers : Busy(v) <=> Busy(v)'
    BY <2>1 DEF Busy, AtRest
  <2>4. \A v \in Writers : Busy(v) => writer'[v].slot = writer[v].slot
    BY <2>1 DEF Busy, AtRest
  <2>5. \A i \in Slots : (\A v \in Writers : Busy(v)' => writer'[v].slot # i) =>
            (i \in Used' => Whole(i)') /\ (i \notin Used' => slots'[i] = Empty)
    BY <1>1, <2>3, <2>4 DEF TableInv
  <2>6. \A v \in Writers : writer'[v].pc \in {"find", "place"} =>
          \A i \in Used' : slots'[i].root # writer'[v].store
    BY <1>1, <2>1 DEF TableInv
  <2> QED BY <1>1, <2>2, <2>5, <2>6 DEF TableInv
<1> QED BY <1>2, <1>3

\* The commands keep the table whole.
LEMMA CommandTable ==
  ASSUME ~Early, Typed, OneWriter, TableInv, MsgQueue PROVE TableInv'
<1> USE DEF OneWriter, Loaded
<1>0. "mq" \in Writers /\ AtRest.pc = "idle"
  BY DEF Writers, AtRest
<1>1. ASSUME NEW kind, NewCommand(kind) PROVE writer["main"] = AtRest /\ writer["mq"] = AtRest
  BY <1>1 DEF NewCommand
<1>2. ASSUME NothingHappens, writer' = writer, writer["mq"] = AtRest PROVE TableInv'
  BY <1>0, <1>2, SameTable DEF NothingHappens
<1>3. ASSUME NEW i \in Used, mount_store(i, {"notmounted"}), writer' = writer,
             writer["main"] = AtRest, writer["mq"] = AtRest
      PROVE  TableInv'
  <2>1. PICK fs : fs = slots[i].flags \ {"notmounted"}
    OBVIOUS
  <2>2. slots' = [slots EXCEPT ![i].flags = fs]
    BY <1>3, <2>1 DEF mount_store
  <2>3. /\ ("lockable" \in fs) = ("lockable" \in slots[i].flags)
        /\ "locked" \in fs => "locked" \in slots[i].flags
    BY <2>1
  <2> QED BY <1>3, <2>2, <2>3, FlagsTable
<1>4. ASSUME NEW i \in Used, umount_store(i, {"notmounted"}), writer' = writer,
             writer["main"] = AtRest, writer["mq"] = AtRest
      PROVE  TableInv'
  <2>1. PICK fs : fs = slots[i].flags \cup {"notmounted"}
    OBVIOUS
  <2>2. slots' = [slots EXCEPT ![i].flags = fs]
    BY <1>4, <2>1 DEF umount_store
  <2>3. /\ ("lockable" \in fs) = ("lockable" \in slots[i].flags)
        /\ "locked" \in fs => "locked" \in slots[i].flags
    BY <2>1
  <2> QED BY <1>4, <2>2, <2>3, FlagsTable
<1>5. ASSUME NEW s \in Stores, AddCommand(s) \/ RmCommand(s) PROVE TableInv'
  <2>1. PICK next : next.pc \in {"guard", "remove"} /\ writer' = [writer EXCEPT !["mq"] = next]
                    /\ slots' = slots
    BY <1>5 DEF AddCommand, RmCommand
  <2>2. writer["mq"] = AtRest
    BY <1>1, <1>5 DEF AddCommand, RmCommand
  <2> QED BY <1>0, <2>1, <2>2, SameTable
<1>6. ASSUME NEW s \in Stores, NEW form \in {"mount", "quoted"}, Mount(form, s) PROVE TableInv'
  <2>1. writer["main"] = AtRest /\ writer["mq"] = AtRest /\ writer' = writer
    BY <1>1, <1>6 DEF Mount
  <2>2. NothingHappens \/ \E i \in Used : mount_store(i, {"notmounted"})
    BY <1>6, NameFound DEF Mount
  <2> QED BY <1>2, <1>3, <2>1, <2>2
<1>7. ASSUME NEW s \in Stores, Unmount(s) PROVE TableInv'
  <2>1. writer["main"] = AtRest /\ writer["mq"] = AtRest /\ writer' = writer
    BY <1>1, <1>7 DEF Unmount
  <2>2. NothingHappens \/ \E i \in Used : umount_store(i, {"notmounted"})
    BY <1>7, NameFound DEF Unmount
  <2> QED BY <1>2, <1>4, <2>1, <2>2
<1>8. ASSUME NEW cmd \in {"lock", "unlock"}, LockCommand(cmd) PROVE TableInv'
  BY <1>1, <1>2, <1>8 DEF LockCommand, NothingHappens
<1>9. CASE LockStep
  <2>1. PICK i : i = Min(sweep.todo)
    OBVIOUS
  <2>2. writer["main"] = AtRest /\ writer["mq"] = AtRest /\ writer' = writer
    BY <1>9 DEF LockStep
  <2>3. \/ NothingHappens
        \/ i \in Used /\ "lockable" \in slots[i].flags /\ umount_store(i, {"locked"})
        \/ i \in Used /\ "lockable" \in slots[i].flags /\ mount_store(i, {"locked"})
    BY <1>9, <2>1 DEF LockStep
  <2>4. CASE i \in Used /\ "lockable" \in slots[i].flags /\ umount_store(i, {"locked"})
    <3>0. PICK fs : fs = slots[i].flags \cup {"locked"}
      OBVIOUS
    <3>1. slots' = [slots EXCEPT ![i].flags = fs]
      BY <2>4, <3>0 DEF umount_store
    <3>2. ("lockable" \in fs) = ("lockable" \in slots[i].flags)
      BY <2>4, <3>0
    <3>3. "locked" \in fs => "lockable" \in slots[i].flags \/ "locked" \in slots[i].flags
      BY <2>4
    <3>4. i \in Used
      BY <2>4
    <3> QED BY <2>2, <3>1, <3>2, <3>3, <3>4, FlagsTable
  <2>5. CASE i \in Used /\ "lockable" \in slots[i].flags /\ mount_store(i, {"locked"})
    <3>0. PICK fs : fs = slots[i].flags \ {"locked"}
      OBVIOUS
    <3>1. slots' = [slots EXCEPT ![i].flags = fs]
      BY <2>5, <3>0 DEF mount_store
    <3>2. ("lockable" \in fs) = ("lockable" \in slots[i].flags)
      BY <2>5, <3>0
    <3>3. "locked" \in fs => "lockable" \in slots[i].flags \/ "locked" \in slots[i].flags
      BY <2>5
    <3>4. i \in Used
      BY <2>5
    <3> QED BY <2>2, <3>1, <3>2, <3>3, <3>4, FlagsTable
  <2> QED BY <1>2, <2>2, <2>3, <2>4, <2>5
<1> QED BY <1>5, <1>6, <1>7, <1>8, <1>9 DEF MsgQueue

\* The MTP thread only reads the table.
LEMMA MtpThreadKeepsTable == MtpThread => UNCHANGED tableVars
BY DEF MtpThread, Mtp, OpenSession, OpenRoot, CloseSession, GetStorageIDs,
       GetStorageIDsSlot, GetStorageIDsReply, GetObjectHandles, ScanFolder

\* Every step keeps TableInv.
LEMMA TableStep ==
  ASSUME ~Early, Typed, OneWriter, TableInv, [Next]_vars PROVE TableInv'
<1>1. CASE Writing
  BY <1>1, AddTable, RemoveTable DEF Writing
<1>2. ASSUME NEW s \in Stores, LoadStore(s) PROVE TableInv'
  <2>1. "main" \in Writers
    BY DEF Writers
  <2>2. PICK next : next.pc = "guard" /\ writer' = [writer EXCEPT !["main"] = next]
    BY <1>2 DEF LoadStore
  <2>3. slots' = slots /\ writer["main"] = AtRest
    BY <1>2 DEF LoadStore
  <2> QED BY <2>1, <2>2, <2>3, SameTable
<1>3. ASSUME slots' = slots, writer' = writer PROVE TableInv'
  <2>1. Used' = Used /\ \A i \in Slots : Whole(i)' <=> Whole(i)
    BY <1>3 DEF Used, Whole
  <2>2. \A v \in Writers : (SlotOf(v)' <=> SlotOf(v)) /\ (Busy(v)' <=> Busy(v))
    BY <1>3 DEF SlotOf, Busy
  <2> QED BY <1>3, <2>1, <2>2 DEF TableInv
<1>4. CASE MtpThread \/ UNCHANGED vars
  BY <1>3, <1>4, MtpThreadKeepsTable DEF vars, tableVars
<1> QED BY <1>1, <1>2, <1>4, CommandTable DEF Next

\* OneWriter and TableInv hold at the start.
LEMMA InitTable == Init => OneWriter /\ TableInv
<1> SUFFICES ASSUME Init PROVE OneWriter /\ TableInv
  OBVIOUS
<1>1. Used = {}
  BY DEF Init, Used, Empty
<1> QED BY <1>1 DEF Init, OneWriter, TableInv, SlotOf, AtRest, Writers, MtpIdle

\* OneWriter and TableInv hold in every state.
LEMMA TableCorrect == ASSUME ~Early PROVE Spec => [](OneWriter /\ TableInv)
<1>1. Typed /\ (OneWriter /\ TableInv) /\ [Next]_vars => (OneWriter /\ TableInv)'
  BY OneWriterStep, TableStep
<1> QED BY InitTable, TypedCorrect, <1>1, PTL DEF Spec

\* Where the commands wait until the configuration is read, no store is ever in
\* two slots and no slot is left half written or half cleared once the writers
\* are at rest, whatever is added, fails, is removed and added again.
THEOREM TableWholeCorrect == ASSUME ~Early PROVE Spec => []TableWhole
<1>1. TableInv => TableWhole
  BY DEF TableInv, TableWhole, Busy
<1> QED BY TableCorrect, <1>1, PTL

-----------------------------------------------------------------------------
(* The objects, the scans and the host.                                     *)

\* What mount, unmount, lock and unlock do to a store.
StoreStep(i) ==
  /\ i \in Used
  /\ \/ mount_store(i, {"notmounted"}) \/ umount_store(i, {"notmounted"})
     \/ /\ "lockable" \in slots[i].flags
        /\ mount_store(i, {"locked"}) \/ umount_store(i, {"locked"})

\* A command of the queue leaves the MTP thread alone, and changes one store at
\* most, while every slot in use is whole.
LEMMA CommandSteps ==
  ASSUME ~Early, Typed, OneWriter, TableInv, MsgQueue
  PROVE  /\ UNCHANGED <<mtp, session, creds, last, emptied>>
         /\ \/ NothingHappens
            \/ (\A k \in Used : Whole(k)) /\ \E i \in Used : StoreStep(i)
<1> USE DEF OneWriter, Loaded
<1>0. (\A w \in Writers : writer[w] = AtRest) => \A k \in Used : Whole(k)
  BY DEF TableInv, Busy, AtRest, Used
<1>1. ASSUME NEW kind, NewCommand(kind)
      PROVE  UNCHANGED <<mtp, session, creds, last, emptied>> /\ \A k \in Used : Whole(k)
  <2>1. writer["mq"] = AtRest /\ writer["main"] = AtRest
    BY <1>1 DEF NewCommand
  <2>2. \A w \in Writers : writer[w] = AtRest
    BY <2>1 DEF Writers
  <2> QED BY <1>0, <1>1, <2>2 DEF NewCommand
<1>2. ASSUME NEW s \in Stores, AddCommand(s) \/ RmCommand(s) PROVE NothingHappens
  BY <1>2 DEF AddCommand, RmCommand, NothingHappens
<1>3. ASSUME NEW s \in Stores, NEW form \in {"mount", "quoted"}, Mount(form, s)
      PROVE  NothingHappens \/ \E i \in Used : StoreStep(i)
  BY <1>3, NameFound DEF Mount, StoreStep
<1>4. ASSUME NEW s \in Stores, Unmount(s) PROVE NothingHappens \/ \E i \in Used : StoreStep(i)
  BY <1>4, NameFound DEF Unmount, StoreStep
<1>5. ASSUME NEW cmd \in {"lock", "unlock"}, LockCommand(cmd) PROVE NothingHappens
  BY <1>5 DEF LockCommand, NothingHappens
<1>6. ASSUME LockStep
      PROVE  /\ UNCHANGED <<mtp, session, creds, last, emptied>>
             /\ NothingHappens \/ \E i \in Used : StoreStep(i)
             /\ \A k \in Used : Whole(k)
  <2>1. PICK i : i = Min(sweep.todo)
    OBVIOUS
  <2>2. writer["main"] = AtRest /\ writer["mq"] = AtRest
    BY <1>6 DEF LockStep
  <2>3. \A w \in Writers : writer[w] = AtRest
    BY <2>2 DEF Writers
  <2>4. NothingHappens \/ StoreStep(i)
    BY <1>6, <2>1 DEF LockStep, StoreStep
  <2>5. StoreStep(i) => i \in Used
    BY DEF StoreStep
  <2>6. UNCHANGED <<mtp, session, creds, last, emptied>>
    BY <1>6 DEF LockStep
  <2> QED BY <1>0, <2>3, <2>4, <2>5, <2>6
<1>7. ASSUME NEW s \in Stores, AddCommand(s) \/ RmCommand(s) \/ Unmount(s)
      PROVE  \E kind : NewCommand(kind)
  BY <1>7 DEF AddCommand, RmCommand, Unmount
<1>8. ASSUME NEW s \in Stores, NEW form \in {"mount", "quoted"}, Mount(form, s)
      PROVE  \E kind : NewCommand(kind)
  BY <1>8 DEF Mount
<1>9. ASSUME NEW cmd \in {"lock", "unlock"}, LockCommand(cmd) PROVE \E kind : NewCommand(kind)
  BY <1>9 DEF LockCommand
<1>10. CASE \E s \in Stores : AddCommand(s) \/ RmCommand(s)
  BY <1>1, <1>2, <1>7, <1>10
<1>11. CASE \E s \in Stores : Unmount(s)
  BY <1>1, <1>4, <1>7, <1>11
<1>12. CASE \E s \in Stores : \E form \in {"mount", "quoted"} : Mount(form, s)
  BY <1>1, <1>3, <1>8, <1>12
<1>13. CASE \E cmd \in {"lock", "unlock"} : LockCommand(cmd)
  BY <1>1, <1>5, <1>9, <1>13
<1> QED BY <1>6, <1>10, <1>11, <1>12, <1>13 DEF MsgQueue

\* The slots gone lose their store, the others keep store and id where they have
\* one, and a scan learns of it.
Serves(gone) ==
  /\ gone \subseteq Slots /\ emptied' = emptied \cup gone
  /\ \A i \in Slots \ gone : i \in Used => /\ slots'[i].root = slots[i].root
                                           /\ slots[i].id = i => slots'[i].id = i
  /\ mtp'.op = mtp.op /\ mtp'.slot = mtp.slot /\ mtp'.store = mtp.store
  /\ mtp'.lost = (mtp.lost \/ (mtp.op = "scan" /\ mtp.slot \in gone))
  /\ objects' \subseteq objects /\ creds' = creds /\ last' = last

\* A step that serves nothing new, and forgets what it may, keeps ServeInv.
LEMMA ServeKept ==
  ASSUME Typed, ServeInv, NEW gone, Serves(gone) PROVE ServeInv'
<1>1. \A i \in Slots : slots[i].root \in Stores => i \in Used
  BY StorageTableAssumption DEF Used
<1>2. ASSUME mtp.op = "scan"
      PROVE  IF mtp'.lost THEN mtp.slot \in emptied'
             ELSE slots'[mtp.slot].root = mtp.store /\ slots'[mtp.slot].id = mtp.slot
  <2>1. mtp.slot \in Slots /\ mtp.store \in Stores /\ mtp.lost \in BOOLEAN
    BY <1>2 DEF Typed, MtpTyped
  <2>2. IF mtp.lost THEN mtp.slot \in emptied
        ELSE slots[mtp.slot].root = mtp.store /\ slots[mtp.slot].id = mtp.slot
    BY <1>2 DEF ServeInv
  <2>3. CASE mtp.lost \/ mtp.slot \in gone
    BY <1>2, <2>2, <2>3 DEF Serves
  <2>4. CASE ~mtp.lost /\ mtp.slot \notin gone
    <3>1. mtp.slot \in Used /\ mtp.slot \in Slots \ gone
      BY <1>1, <2>1, <2>2, <2>4
    <3> QED BY <1>2, <2>2, <2>4, <3>1 DEF Serves
  <2> QED BY <2>3, <2>4
<1>3. ASSUME NEW o \in objects' PROVE o.id \in emptied' \/ slots'[o.id].root = o.of
  <2>1. o \in objects /\ o.id \in Slots /\ o.of \in Stores
    BY DEF Serves, Typed, SessionTyped
  <2>2. o.id \in emptied \/ slots[o.id].root = o.of
    BY <2>1 DEF ServeInv
  <2> QED BY <1>1, <2>1, <2>2 DEF Serves
<1>4. RunsAsOwner'
  BY DEF Serves, ServeInv, RunsAsOwner
<1> QED BY <1>2, <1>3, <1>4 DEF ServeInv, Serves

\* A slot that has an id is whole: no writer is at it.
LEMMA WholeWithId ==
  ASSUME Typed, TableInv, NEW i \in Used, slots[i].id = i PROVE Whole(i)
<1>1. i \in Slots /\ i # 0 /\ slots[i].root # NoStore
  BY SlotsNat DEF Used
<1>2. ASSUME NEW w \in Writers, Busy(w) PROVE writer[w].slot # i
  <2>1. SlotOf(w)
    BY DEF TableInv
  <2> QED BY <1>1, <1>2, <2>1 DEF SlotOf, Busy, Placed, Empty
<1> QED BY <1>1, <1>2 DEF TableInv

\* The writers serve the objects and the scans: a slot with a store keeps it and
\* its id, unless rmstorage empties it.
LEMMA WritingServes ==
  ASSUME Typed, TableInv, Writing PROVE \E gone : Serves(gone)
<1>1. SlotsTyped /\ WritersTyped
  BY DEF Typed, TableTyped, SlotsTyped
<1>2. \A w \in Writers : SlotOf(w)
  BY DEF TableInv
<1>3. ASSUME NEW w \in Writers, NEW k, k = writer[w].slot, Busy(w), NEW r,
             slots' = [slots EXCEPT ![k] = r],
             k \in Used => r.root = slots[k].root /\ (slots[k].id = k => r.id = k),
             UNCHANGED <<sessionVars, emptied>>
      PROVE  Serves({})
  <2>1. k \in Slots /\ slots'[k] = r /\ \A i \in Slots \ {k} : slots'[i] = slots[i]
    BY <1>1, <1>3 DEF SlotsTyped, WritersTyped
  <2>2. mtp.lost \in BOOLEAN
    BY DEF Typed, MtpTyped
  <2> QED BY <1>3, <2>1, <2>2 DEF Serves, sessionVars
<1>4. ASSUME slots' = slots, UNCHANGED <<sessionVars, emptied>> PROVE Serves({})
  <2>1. mtp.lost \in BOOLEAN
    BY DEF Typed, MtpTyped
  <2> QED BY <1>4, <2>1 DEF Serves, sessionVars
<1>5. ASSUME NEW w \in Writers, AddGuard(w) \/ AddFind(w) PROVE Serves({})
  BY <1>4, <1>5 DEF AddGuard, AddFind, Writes
<1>6. ASSUME NEW w \in Writers, AddPlace(w) \/ AddFails(w) PROVE Serves({})
  <2>1. PICK k : k = writer[w].slot
    OBVIOUS
  <2>2. PICK r : slots' = [slots EXCEPT ![k] = r]
    <3>1. CASE AddPlace(w)
      BY <2>1, <3>1 DEF AddPlace
    <3>2. CASE AddFails(w)
      BY <2>1, <3>2 DEF AddFails
    <3> QED BY <1>6, <3>1, <3>2
  <2>3. Busy(w) /\ k \notin Used
    BY <1>2, <1>6, <2>1 DEF AddPlace, AddFails, Busy, SlotOf, Empty, Used
  <2>4. UNCHANGED <<sessionVars, emptied>>
    BY <1>6 DEF AddPlace, AddFails, Writes
  <2> QED BY <1>3, <2>1, <2>2, <2>3, <2>4
<1>7. ASSUME NEW w \in Writers, AddFlags(w) \/ AddId(w) PROVE Serves({})
  <2>1. PICK k : k = writer[w].slot
    OBVIOUS
  <2>2. k \in Slots /\ Busy(w)
    BY <1>1, <1>7, <2>1 DEF AddFlags, AddId, WritersTyped, Busy
  <2>3. PICK r : slots' = [slots EXCEPT ![k] = r] /\ r.root = slots[k].root
                 /\ (slots[k].id = k => r.id = k)
    <3>0. slots[k] \in Slot
      BY <1>1, <2>2 DEF SlotsTyped
    <3>1. CASE AddFlags(w)
      <4>1. PICK fs : fs = Options(writer[w].store)
        OBVIOUS
      <4>2. slots' = [slots EXCEPT ![k] = [slots[k] EXCEPT !.flags = fs]]
        BY <2>1, <3>1, <4>1 DEF AddFlags
      <4>3. PICK r : r = [slots[k] EXCEPT !.flags = fs]
        OBVIOUS
      <4>4. r.root = slots[k].root /\ r.id = slots[k].id
        BY <3>0, <4>3 DEF Slot
      <4> QED BY <4>2, <4>3, <4>4
    <3>2. CASE AddId(w)
      <4>1. slots' = [slots EXCEPT ![k] = [slots[k] EXCEPT !.id = k]]
        BY <2>1, <3>2 DEF AddId
      <4> QED BY <3>0, <4>1 DEF Slot
    <3> QED BY <1>7, <3>1, <3>2
  <2>4. UNCHANGED <<sessionVars, emptied>>
    BY <1>7 DEF AddFlags, AddId, Writes
  <2> QED BY <1>3, <2>1, <2>2, <2>3, <2>4
<1>8. CASE RemoveClear
  <2>1. PICK k : k = writer["mq"].slot
    OBVIOUS
  <2>2. "mq" \in Writers /\ Busy("mq") /\ k \notin Used
    BY <1>2, <1>8, <2>1 DEF RemoveClear, Writers, Busy, SlotOf, Used
  <2>3. PICK r : slots' = [slots EXCEPT ![k] = r]
    BY <1>8, <2>1 DEF RemoveClear
  <2>4. UNCHANGED <<sessionVars, emptied>>
    BY <1>8 DEF RemoveClear, Writes
  <2> QED BY <1>3, <2>1, <2>2, <2>3, <2>4
<1>9. CASE Remove
  <2>1. PICK i : i = index_by_name(writer["mq"].store)
    OBVIOUS
  <2>2. /\ mtp' = [mtp EXCEPT !.lost = @ \/ (mtp.op = "scan" /\ mtp.slot = i)]
        /\ UNCHANGED <<session, roots, objects, creds, last>>
    BY <1>9, <2>1 DEF Remove
  <2>3. /\ mtp'.op = mtp.op /\ mtp'.slot = mtp.slot /\ mtp'.store = mtp.store
        /\ mtp'.lost = (mtp.lost \/ (mtp.op = "scan" /\ mtp.slot = i))
    BY <2>2 DEF Typed, MtpTyped
  <2>4. mtp.lost \in BOOLEAN /\ (mtp.op = "scan" => mtp.slot # 0)
    BY SlotsNat DEF Typed, MtpTyped
  <2>5. CASE i = 0
    <3>1. slots' = slots /\ emptied' = emptied
      BY <1>9, <2>1, <2>5 DEF Remove
    <3>2. mtp'.lost = (mtp.lost \/ (mtp.op = "scan" /\ mtp.slot \in {}))
      BY <2>3, <2>4, <2>5
    <3>3. Serves({})
      BY <2>2, <2>3, <3>1, <3>2 DEF Serves
    <3> QED BY <3>3
  <2>6. CASE i # 0
    <3>1. i \in Slots
      BY <2>1, <2>6, NameFound DEF Used
    <3>2. slots' = [slots EXCEPT ![i].root = NoStore] /\ emptied' = emptied \cup {i}
      BY <1>9, <2>1, <2>6, SMTT(30) DEF Remove
    <3>3. \A j \in Slots \ {i} : slots'[j] = slots[j]
      BY <1>1, <3>2 DEF SlotsTyped
    <3>4. Serves({i})
      BY <2>2, <2>3, <3>1, <3>2, <3>3 DEF Serves
    <3> QED BY <3>4
  <2> QED BY <2>5, <2>6
<1> QED BY <1>5, <1>6, <1>7, <1>8, <1>9 DEF Writing

\* So does a command: mounting and locking are flags.
LEMMA CommandServes ==
  ASSUME ~Early, Typed, OneWriter, TableInv, MsgQueue PROVE Serves({})
<1>1. SlotsTyped /\ mtp.lost \in BOOLEAN
  BY DEF Typed, TableTyped, SlotsTyped, MtpTyped
<1>2. UNCHANGED <<mtp, creds, last, emptied>>
  BY CommandSteps
<1>3. CASE NothingHappens
  BY <1>1, <1>2, <1>3 DEF NothingHappens, Serves
<1>4. ASSUME NEW i \in Used, NEW fs, slots' = [slots EXCEPT ![i].flags = fs],
             objects' \subseteq objects
      PROVE  Serves({})
  <2>1. \A k \in Slots : slots'[k].root = slots[k].root /\ slots'[k].id = slots[k].id
    BY <1>1, <1>4 DEF SlotsTyped, Slot, Used
  <2> QED BY <1>1, <1>2, <1>4, <2>1 DEF Serves
<1>5. ASSUME NEW i \in Used, StoreStep(i) PROVE Serves({})
  <2>1. PICK c : mount_store(i, c) \/ umount_store(i, c)
    BY <1>5 DEF StoreStep
  <2>2. objects' \subseteq objects
    BY <2>1 DEF mount_store, umount_store
  <2>3. PICK fs : slots' = [slots EXCEPT ![i].flags = fs]
    <3>1. CASE mount_store(i, c)
      BY <3>1 DEF mount_store
    <3>2. CASE umount_store(i, c)
      BY <3>2 DEF umount_store
    <3> QED BY <2>1, <3>1, <3>2
  <2> QED BY <1>4, <2>2, <2>3
<1> QED BY <1>3, <1>5, CommandSteps

\* The MTP thread takes the path of the slot that has the id, reads it as the
\* user of that slot, and gives back the user it took.
LEMMA MtpServes ==
  ASSUME Typed, TableInv, ServeInv, MtpThread PROVE ServeInv'
<1>1. slots' = slots
  BY MtpThreadKeepsTable DEF tableVars
<1>2. mtp.lost \in BOOLEAN /\ (mtp.op = "idle" => ~mtp.lost)
  BY DEF Typed, MtpTyped, MtpIdle
<1>3. ASSUME UNCHANGED <<creds, last>>, objects' = {}, mtp'.op # "scan" PROVE ServeInv'
  BY <1>3 DEF ServeInv, RunsAsOwner
<1>4. ASSUME UNCHANGED <<creds, last, objects, emptied>>, mtp'.op # "scan" PROVE ServeInv'
  BY <1>1, <1>4 DEF ServeInv, RunsAsOwner
<1>5. CASE OpenSession
  <2>1. objects = {}
    BY <1>5 DEF OpenSession, Typed, SessionTyped
  <2> QED BY <1>3, <1>5, <2>1 DEF OpenSession, Typed, MtpTyped
<1>6. CASE CloseSession
  BY <1>3, <1>6 DEF CloseSession, MtpStarts, MtpIdle
<1>7. CASE OpenRoot
  BY <1>4, <1>7 DEF OpenRoot, Typed, MtpTyped, MtpIdle
<1>8. CASE GetStorageIDs
  BY <1>4, <1>8 DEF GetStorageIDs, Typed, MtpTyped
<1>9. CASE GetStorageIDsSlot
  <2>1. mtp'.op \in {"reply", "ids"}
    BY <1>9 DEF GetStorageIDsSlot, Typed, MtpTyped
  <2> QED BY <1>4, <1>9, <2>1 DEF GetStorageIDsSlot
<1>10. CASE GetStorageIDsReply
  BY <1>4, <1>10 DEF GetStorageIDsReply, MtpIdle
<1>11. ASSUME NEW id \in Slots, GetObjectHandles(id) PROVE ServeInv'
  <2>1. PICK i : i = index_by_id(id)
    OBVIOUS
  <2>2. i \in Used /\ slots[i].id = id /\ i = id
    BY <1>11, <2>1, IdFound, SlotsNat DEF GetObjectHandles, Typed, TableTyped, Used
  <2>3. mtp' = [mtp EXCEPT !.op = "scan", !.slot = i, !.ids = {id}, !.store = slots[i].root]
    BY <1>11, <2>1 DEF GetObjectHandles
  <2>4. mtp'.op = "scan" /\ mtp'.slot = i /\ mtp'.store = slots[i].root /\ mtp'.lost = mtp.lost
    BY <2>3 DEF Typed, MtpTyped
  <2>5. ~mtp.lost
    BY <1>2, <1>11 DEF GetObjectHandles, MtpStarts, MtpIdle
  <2>6. UNCHANGED <<creds, last, objects, emptied>>
    BY <1>11 DEF GetObjectHandles
  <2> QED BY <1>1, <2>2, <2>4, <2>5, <2>6 DEF ServeInv, RunsAsOwner
<1>12. CASE ScanFolder
  <2>0. mtp.op = "scan"
    BY <1>12 DEF ScanFolder
  <2>1. PICK id : id = mtp.slot
    OBVIOUS
  <2>2. mtp.ids = {id} /\ id \in Slots /\ mtp.store \in Stores
    BY <2>0, <2>1 DEF Typed, MtpTyped
  <2>3. (CHOOSE k \in mtp.ids : TRUE) = id
    BY <2>2
  <2>4. PICK set : set = set_storage_giduid(id)
    OBVIOUS
  <2>5. /\ IF set.ok
           THEN \E s \in IF mtp.lost THEN Stores ELSE {mtp.store} :
                  objects' = objects \cup {[id |-> id, of |-> s]}
           ELSE UNCHANGED objects
        /\ last' = IF mtp.lost THEN NoScan
                   ELSE [store |-> mtp.store, ok |-> set.ok, as |-> set.now]
        /\ creds' = restore_giduid(set.now)
        /\ mtp' = MtpIdle /\ emptied' = emptied
    BY <1>12, <2>3, <2>4 DEF ScanFolder
  <2>6. IF mtp.lost THEN id \in emptied
        ELSE slots[id].root = mtp.store /\ slots[id].id = id
    BY <2>0, <2>1 DEF ServeInv
  <2>7. creds' = [uid |-> Daemon, gid |-> Daemon]
    BY <2>5, StorageTableAssumption DEF restore_giduid, set_giduid
  <2>8. \A o \in objects' : o.id \in emptied' \/ slots'[o.id].root = o.of
    BY <1>1, <2>5, <2>6 DEF ServeInv
  <2>9. RunsAsOwner'
    <3>1. CASE mtp.lost
      BY <2>5, <3>1 DEF NoScan, RunsAsOwner
    <3>2. CASE ~mtp.lost
      <4>1. id \in Used /\ slots[id].id = id /\ slots[id].root = mtp.store
        BY <2>2, <2>6, <3>2, StorageTableAssumption DEF Used
      <4>2. Whole(id)
        BY <4>1, WholeWithId
      <4>3. PICK u : u = IF slots[id].uid # Nobody THEN slots[id].uid ELSE Default
        OBVIOUS
      <4>4. PICK g : g = IF slots[id].gid # Nobody THEN slots[id].uid ELSE Default
        OBVIOUS
      <4>5. index_by_id(id) = id
        <5>1. \A i \in Used : i # 0 /\ slots[i].id \in {0, i}
          BY SlotsNat DEF Typed, TableTyped, Used
        <5>2. PICK j : j = index_by_id(id)
          OBVIOUS
        <5>3. \/ j = 0 /\ \A i \in Used : slots[i].id # id
              \/ j \in Used /\ slots[j].id = id
          BY <5>2, IdFound
        <5> QED BY <4>1, <5>1, <5>2, <5>3
      <4>6. set = set_giduid(creds, u, g)
        BY <2>2, <2>4, <4>3, <4>4, <4>5, SlotsNat DEF set_storage_giduid
      <4>7. set.ok /\ set.now.uid = IF u = Nobody THEN Daemon ELSE u
        <5>1. creds.uid = Daemon /\ creds.gid = Daemon
          BY DEF ServeInv
        <5> QED BY <4>6, <5>1 DEF set_giduid
      <4>8. u = IF mtp.store \in WithUid THEN mtp.store ELSE Default
        BY <2>2, <4>1, <4>2, <4>3, StorageTableAssumption DEF Whole
      <4>9. last'.ok /\ last'.store = mtp.store /\ last'.as.uid = set.now.uid
        BY <2>5, <3>2, <4>7
      <4> QED BY <2>2, <4>7, <4>8, <4>9, StorageTableAssumption DEF RunsAsOwner
    <3> QED BY <1>2, <3>1, <3>2
  <2> QED BY <2>5, <2>7, <2>8, <2>9 DEF ServeInv, MtpIdle
<1> QED BY <1>5, <1>6, <1>7, <1>8, <1>9, <1>10, <1>11, <1>12 DEF MtpThread

\* Every step keeps ServeInv.
LEMMA ServeStep ==
  ASSUME ~Early, Typed, OneWriter, TableInv, ServeInv, [Next]_vars PROVE ServeInv'
<1>1. ASSUME slots' = slots, UNCHANGED <<sessionVars, emptied>> PROVE Serves({})
  <2>1. mtp.lost \in BOOLEAN
    BY DEF Typed, MtpTyped
  <2> QED BY <1>1, <2>1 DEF Serves, sessionVars
<1>2. ASSUME NEW s \in Stores, LoadStore(s) PROVE Serves({})
  BY <1>1, <1>2 DEF LoadStore
<1>3. CASE UNCHANGED vars
  BY <1>1, <1>3, ServeKept DEF vars, tableVars
<1> QED BY <1>2, <1>3, WritingServes, CommandServes, ServeKept, MtpServes DEF Next

\* ServeInv holds in every state.
LEMMA ServeCorrect == ASSUME ~Early PROVE Spec => []ServeInv
<1>1. Init => ServeInv
  BY DEF Init, ServeInv, MtpIdle, NoScan, RunsAsOwner
<1>2. Typed /\ (OneWriter /\ TableInv) /\ ServeInv /\ [Next]_vars => ServeInv'
  BY ServeStep
<1> QED BY TypedCorrect, TableCorrect, <1>1, <1>2, PTL DEF Spec

\* Where the commands wait until the configuration is read, no object found in
\* one store is ever looked for in another, though mounts, removals and additions
\* come between the scans and hand the storage ids out again, unless rmstorage
\* emptied its slot in this session.
THEOREM ServedFromOwnCorrect == ASSUME ~Early PROVE Spec => []ServedFromOwn
<1>1. Typed /\ ServeInv => ServedFromOwn
  <2> SUFFICES ASSUME Typed, ServeInv, NEW o \in objects, index_by_id(o.id) # 0
               PROVE  slots[index_by_id(o.id)].root = o.of \/ o.id \in emptied
    BY DEF ServedFromOwn
  <2>1. PICK i : i = index_by_id(o.id)
    OBVIOUS
  <2>2. i \in Used /\ slots[i].id = o.id
    BY <2>1, IdFound
  <2>3. o.id \in Slots /\ slots[i].id \in {0, i}
    BY <2>2 DEF Typed, TableTyped, SessionTyped, Used
  <2>4. i = o.id
    BY <2>2, <2>3, SlotsNat
  <2> QED BY <2>1, <2>4 DEF ServeInv
<1> QED BY TypedCorrect, ServeCorrect, <1>1, PTL

\* A folder is always read as the user of its own store, and never refused for
\* credentials an earlier operation left behind.
THEOREM RunsAsOwnerCorrect == ASSUME ~Early PROVE Spec => []RunsAsOwner
<1>1. ServeInv => RunsAsOwner
  BY DEF ServeInv
<1> QED BY ServeCorrect, <1>1, PTL

-----------------------------------------------------------------------------
(* What the host takes for available.                                       *)

\* One more slot of the walk of GetStorageIDs.
LEMMA CountedNext ==
  ASSUME NEW n \in Nat
  PROVE  Counted(n + 1) = Counted(n) \cup (IF MayBeUsed(n + 1) THEN {slots[n + 1].id} ELSE {})
<1>1. 1..n + 1 = (1..n) \cup {n + 1}
  OBVIOUS
<1> QED BY <1>1 DEF Counted

\* A walk that ended counted all the stores there are, where they have no holes.
LEMMA CountedAll ==
  ASSUME NEW n \in Slots \cup {NbSlots + 1}, n > NbSlots \/ n \notin Used,
         1..n - 1 \subseteq Used, Contiguous
  PROVE  Counted(n - 1) = Available
<1>1. n \in Nat /\ n >= 1 /\ Used \subseteq Slots
  BY StorageTableAssumption DEF Slots, Used
<1>2. ASSUME NEW i \in Used PROVE i \in 1..n - 1
  <2>1. 1..i \subseteq Used /\ i \in 1..NbSlots
    BY DEF Contiguous, Used, Slots
  <2>2. CASE i >= n
    <3>1. n \in 1..i
      BY <1>1, <2>1, <2>2
    <3>2. n <= NbSlots
      BY <1>1, <2>1, <2>2, StorageTableAssumption
    <3> QED BY <2>1, <3>1, <3>2, <1>1, StorageTableAssumption
  <2> QED BY <1>1, <2>1, <2>2
<1>3. 1..n - 1 = Used
  BY <1>2
<1>4. {k \in 1..n - 1 : MayBeUsed(k)} = {k \in Used : {"notmounted", "locked"} \cap slots[k].flags = {}}
  BY <1>3 DEF MayBeUsed
<1> QED BY <1>4 DEF Counted, Available

\* Nothing the host could have noticed happened, or it knows nothing any more.
LEMMA HostKept ==
  ASSUME HostInv, mtp'.op = mtp.op, mtp'.slot = mtp.slot, mtp'.ids = mtp.ids, host' = host,
         (slots' = slots /\ knows' = knows) \/ knows' = FALSE
  PROVE  HostInv'
<1>1. CASE knows' = FALSE
  BY <1>1 DEF HostInv
<1>2. CASE slots' = slots /\ knows' = knows
  <2>1. Used' = Used
    BY <1>2 DEF Used
  <2>2. Available' = Available /\ (Contiguous' <=> Contiguous)
    BY <1>2, <2>1 DEF Available, Contiguous
  <2>3. Counted(mtp.slot - 1)' = Counted(mtp.slot - 1)
    BY <1>2, <2>1 DEF Counted, MayBeUsed
  <2>4. WalkOver' <=> WalkOver
    BY <2>1 DEF WalkOver
  <2> QED BY <1>2, <2>1, <2>2, <2>3, <2>4 DEF HostInv
<1> QED BY <1>1, <1>2

\* A writer of the table keeps HostInv: the event tells what it did.
LEMMA WritingHost ==
  ASSUME Typed, HostInv, Writing PROVE HostInv'
<1>1. CASE Remove
  <2>1. PICK i : i = index_by_name(writer["mq"].store)
    OBVIOUS
  <2>2. mtp'.op = mtp.op /\ mtp'.slot = mtp.slot /\ mtp'.ids = mtp.ids /\ host' = host
    BY <1>1 DEF Remove, Typed, MtpTyped
  <2>3. CASE i = 0
    BY <1>1, <2>1, <2>2, <2>3, HostKept DEF Remove
  <2>4. CASE i # 0
    <3>1. knows' = FALSE
      BY <1>1, <2>1, <2>4 DEF Remove
    <3> QED BY <2>2, <3>1, HostKept
  <2> QED BY <2>3, <2>4
<1>2. ASSUME NEW w, NEW next, Writes(w, next), (slots' = slots /\ knows' = knows) \/ knows' = FALSE
      PROVE  HostInv'
  BY <1>2, HostKept DEF Writes, sessionVars
<1>3. ASSUME NEW w \in Writers, AddGuard(w) \/ AddFind(w) PROVE HostInv'
  BY <1>2, <1>3 DEF AddGuard, AddFind
<1>4. ASSUME NEW w \in Writers, AddPlace(w) \/ AddFails(w) \/ AddFlags(w) \/ AddId(w)
      PROVE HostInv'
  BY <1>2, <1>4 DEF AddPlace, AddFails, AddFlags, AddId
<1>5. CASE RemoveClear
  BY <1>2, <1>5 DEF RemoveClear
<1> QED BY <1>1, <1>3, <1>4, <1>5 DEF Writing

\* The event of a command leaves the host right: a store that is unmounted or
\* locked is available no more, one that is mounted or unlocked is available or
\* lockable.
LEMMA StoreStepHost ==
  ASSUME Typed, HostInv, \A k \in Used : Whole(k), NEW i \in Used, StoreStep(i), mtp' = mtp,
         session' = session
  PROVE  HostInv'
<1>1. SlotsTyped /\ i \in Slots /\ Used \subseteq Slots
  BY DEF Typed, TableTyped, SlotsTyped, Used
<1>2. \A k \in Used : slots[k].id = k
  BY DEF Whole
<1>3. PICK c : c \in {{"notmounted"}, {"locked"}} /\ (mount_store(i, c) \/ umount_store(i, c))
               /\ (c = {"locked"} => "lockable" \in slots[i].flags)
  BY DEF StoreStep
<1>4. mtp.op # "scan" /\ knows' = (knows /\ mtp.op \notin {"ids", "reply"})
  BY <1>3 DEF mount_store, umount_store, MutexFree, Announces
<1>5. ASSUME ~knows' PROVE HostInv'
  BY <1>5 DEF HostInv
<1>6. ASSUME knows' PROVE HostInv'
  <2>1. mtp.op = "idle" /\ knows /\ session
    BY <1>4, <1>6 DEF HostInv, Typed, MtpTyped, SessionTyped
  <2>2. PICK fs : slots' = [slots EXCEPT ![i].flags = fs]
                  /\ fs = IF mount_store(i, c) THEN slots[i].flags \ c ELSE slots[i].flags \cup c
    <3>1. CASE mount_store(i, c)
      BY <3>1 DEF mount_store
    <3>2. CASE ~mount_store(i, c)
      BY <1>3, <3>2 DEF umount_store
    <3> QED BY <3>1, <3>2
  <2>3. /\ \A k \in Slots \ {i} : slots'[k] = slots[k]
        /\ slots'[i].flags = fs /\ slots'[i].id = slots[i].id /\ slots'[i].root = slots[i].root
    BY <1>1, <2>2 DEF SlotsTyped, Slot
  <2>4. Used' = Used
    BY <2>3 DEF Used
  <2>5. \A x : x \in Available <=> x \in Used /\ {"notmounted", "locked"} \cap slots[x].flags = {}
    BY <1>2 DEF Available
  <2>6. \A x : x \in Available' <=> x \in Used /\ {"notmounted", "locked"} \cap slots'[x].flags = {}
    BY <1>1, <1>2, <2>3, <2>4 DEF Available
  <2>7. \A k \in Slots : "lockable" \in slots'[k].flags <=> "lockable" \in slots[k].flags
    BY <1>1, <1>3, <2>2, <2>3
  <2>8. ASSUME Contiguous'
        PROVE  /\ Available' \subseteq host'
               /\ host' \subseteq Available' \cup {k \in Slots : "lockable" \in slots'[k].flags}
    <3>1. Contiguous
      BY <2>4, <2>8 DEF Contiguous
    <3>2. Available \subseteq host /\ host \subseteq Available \cup {k \in Slots : "lockable" \in slots[k].flags}
      BY <2>1, <3>1 DEF HostInv
    <3>3. CASE mount_store(i, c)
      <4>1. host' = host \cup {i} /\ fs = slots[i].flags \ c
        BY <1>2, <2>1, <2>2, <3>3 DEF mount_store, Announces
      <4>2. i \in Available' \/ "lockable" \in slots[i].flags
        BY <1>1, <1>3, <2>3, <2>6, <4>1 DEF Whole
      <4>3. Available \subseteq Available' /\ Available' \subseteq Available \cup {i}
        BY <1>1, <2>3, <2>5, <2>6, <4>1
      <4> QED BY <1>1, <2>7, <3>2, <4>1, <4>2, <4>3
    <3>4. CASE ~mount_store(i, c)
      <4>1. host' = host \ {i} /\ fs = slots[i].flags \cup c
        BY <1>2, <1>3, <2>1, <2>2, <3>4 DEF umount_store, Announces
      <4>2. Available' = Available \ {i}
        BY <1>1, <1>3, <2>3, <2>5, <2>6, <4>1
      <4> QED BY <2>7, <3>2, <4>1, <4>2
    <3> QED BY <3>3, <3>4
  <2> QED BY <2>1, <2>8 DEF HostInv
<1> QED BY <1>5, <1>6

\* The walk of GetStorageIDs counts slot after slot, and its answer is all there
\* is; the other operations tell the host nothing, or make it forget.
LEMMA MtpHost ==
  ASSUME Typed, HostInv, MtpThread PROVE HostInv'
<1>1. slots' = slots /\ Used' = Used
  BY MtpThreadKeepsTable DEF tableVars, Used
<1>2. Available' = Available /\ (Contiguous' <=> Contiguous)
  BY <1>1 DEF Available, Contiguous
<1>3. \A n : Counted(n)' = Counted(n) /\ (MayBeUsed(n)' <=> MayBeUsed(n))
  BY <1>1 DEF Counted, MayBeUsed
<1>4. ASSUME knows' = FALSE PROVE HostInv'
  BY <1>4 DEF HostInv
<1>5. ASSUME mtp.op \in {"idle", "scan"}, mtp'.op \in {"idle", "scan"}, host' = host, knows' = knows
      PROVE  HostInv'
  BY <1>1, <1>2, <1>5 DEF HostInv
<1>6. CASE OpenSession \/ CloseSession
  BY <1>4, <1>6 DEF OpenSession, CloseSession
<1>7. CASE OpenRoot
  <2>1. ~knows /\ knows' = knows
    BY <1>7 DEF OpenRoot, HostInv
  <2> QED BY <2>1 DEF HostInv
<1>8. CASE GetStorageIDs
  <2>1. mtp'.op = "ids" /\ mtp'.slot = 1 /\ mtp'.ids = {}
    BY <1>8 DEF GetStorageIDs, MtpStarts, MtpIdle
  <2>2. 1..0 = {} /\ Counted(0) = {}
    BY DEF Counted
  <2>3. mtp'.slot - 1 = 0
    BY <2>1
  <2> QED BY <1>3, <2>1, <2>2, <2>3 DEF HostInv
<1>9. CASE GetStorageIDsSlot
  <2>1. PICK n : n = mtp.slot
    OBVIOUS
  <2>2. n \in Nat /\ n # 0 /\ mtp.op = "ids"
    BY <1>9, <2>1, StorageTableAssumption DEF GetStorageIDsSlot, Typed, MtpTyped
  <2>3. knows => 1..n - 1 \subseteq Used /\ mtp.ids = Counted(n - 1)
    BY <2>1, <2>2 DEF HostInv
  <2>4. CASE WalkOver
    <3>1. mtp'.op = "reply" /\ mtp'.slot = n /\ mtp'.ids = mtp.ids
      BY <1>9, <2>1, <2>4 DEF GetStorageIDsSlot, Typed, MtpTyped
    <3>2. WalkOver'
      BY <1>1, <2>1, <2>4, <3>1 DEF WalkOver
    <3> QED BY <1>1, <1>3, <1>9, <2>3, <3>1, <3>2 DEF GetStorageIDsSlot, HostInv
  <2>5. CASE ~WalkOver
    <3>1. PICK new : new = IF {"notmounted", "locked"} \cap slots[n].flags = {}
                           THEN mtp.ids \cup {slots[n].id} ELSE mtp.ids
      OBVIOUS
    <3>2. mtp' = [mtp EXCEPT !.slot = n + 1, !.ids = new]
      BY <1>9, <2>1, <2>5, <3>1 DEF GetStorageIDsSlot, Typed, MtpTyped
    <3>3. mtp'.op = "ids" /\ mtp'.slot = n + 1 /\ mtp'.ids = new
      BY <2>2, <3>2 DEF Typed, MtpTyped
    <3>4. n \in Used
      BY <2>1, <2>5, <2>2, StorageTableAssumption DEF WalkOver, Typed, MtpTyped
    <3>5. mtp'.slot - 1 = n /\ (n - 1) + 1 = n /\ n - 1 \in Nat
      BY <2>2, <3>3
    <3>6. Counted(n) = Counted(n - 1) \cup (IF MayBeUsed(n) THEN {slots[n].id} ELSE {})
      BY <3>5, CountedNext
    <3>7. knows => new = Counted(n)
      BY <2>3, <3>1, <3>4, <3>6 DEF MayBeUsed
    <3>8. knows => 1..n \subseteq Used
      BY <2>2, <2>3, <3>4
    <3>9. knows' = knows
      BY <1>9 DEF GetStorageIDsSlot
    <3> QED BY <1>1, <1>3, <3>3, <3>5, <3>7, <3>8, <3>9 DEF HostInv
  <2> QED BY <2>4, <2>5
<1>10. CASE GetStorageIDsReply
  <2>1. mtp'.op = "idle" /\ host' = mtp.ids /\ knows' = knows /\ mtp.op = "reply"
    BY <1>10 DEF GetStorageIDsReply, MtpIdle
  <2>2. ASSUME knows, Contiguous PROVE mtp.ids = Available
    <3>1. mtp.slot \in Slots \cup {NbSlots + 1}
      BY <2>1, StorageTableAssumption DEF Typed, MtpTyped, Slots
    <3>2. mtp.slot > NbSlots \/ mtp.slot \notin Used
      BY <2>1, <2>2 DEF HostInv, WalkOver
    <3>3. 1..mtp.slot - 1 \subseteq Used /\ mtp.ids = Counted(mtp.slot - 1)
      BY <2>1, <2>2 DEF HostInv
    <3> QED BY <2>2, <3>1, <3>2, <3>3, CountedAll
  <2> QED BY <1>1, <1>2, <2>1, <2>2 DEF HostInv
<1>11. ASSUME NEW id \in Slots, GetObjectHandles(id) PROVE HostInv'
  <2>1. mtp.op = "idle" /\ mtp'.op = "scan"
    BY <1>11 DEF GetObjectHandles, MtpStarts, MtpIdle
  <2> QED BY <1>5, <1>11, <2>1 DEF GetObjectHandles
<1>12. CASE ScanFolder
  <2>1. mtp.op = "scan" /\ mtp'.op = "idle" /\ host' = host /\ knows' = knows
    BY <1>12 DEF ScanFolder, MtpIdle
  <2> QED BY <1>5, <2>1
<1> QED BY <1>6, <1>7, <1>8, <1>9, <1>10, <1>11, <1>12 DEF MtpThread

\* Every step keeps HostInv.
LEMMA HostStep ==
  ASSUME ~Early, Typed, OneWriter, TableInv, HostInv, [Next]_vars PROVE HostInv'
<1>1. ASSUME mtp' = mtp, host' = host, slots' = slots, knows' = knows PROVE HostInv'
  BY <1>1, HostKept
<1>2. ASSUME NEW s \in Stores, LoadStore(s) PROVE HostInv'
  BY <1>1, <1>2 DEF LoadStore, sessionVars
<1>3. CASE MsgQueue
  <2>1. mtp' = mtp /\ session' = session
    BY <1>3, CommandSteps
  <2>2. CASE NothingHappens
    BY <1>1, <2>1, <2>2 DEF NothingHappens
  <2> QED BY <1>3, <2>1, <2>2, CommandSteps, StoreStepHost
<1>4. CASE UNCHANGED vars
  BY <1>1, <1>4 DEF vars, tableVars, sessionVars
<1> QED BY <1>2, <1>3, <1>4, WritingHost, MtpHost DEF Next

\* HostInv holds in every state.
LEMMA HostCorrect == ASSUME ~Early PROVE Spec => []HostInv
<1>1. Init => HostInv
  BY DEF Init, HostInv, MtpIdle
<1>2. Typed /\ (OneWriter /\ TableInv) /\ HostInv /\ [Next]_vars => HostInv'
  BY HostStep
<1> QED BY TypedCorrect, TableCorrect, <1>1, <1>2, PTL DEF Spec

\* Where the commands wait until the configuration is read, a host that asked
\* for the storages once is kept right by the events, whatever is mounted,
\* unmounted, locked and unlocked, and whenever that falls between two of its
\* requests, for any number of slots without a hole.
THEOREM HostViewExactCorrect == ASSUME ~Early PROVE Spec => []HostViewExact
<1>1. HostInv => HostViewExact
  BY DEF HostInv, HostViewExact, MtpIdle
<1> QED BY HostCorrect, <1>1, PTL

=============================================================================
