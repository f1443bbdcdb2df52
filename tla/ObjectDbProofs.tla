--------------------------- MODULE ObjectDbProofs ---------------------------
(* Proofs about ObjectDb, for every number of storages, every finite set of *)
(* names and every value of the bounds.  The first part is about handles    *)
(* and watches; the second about the file systems: the disks stay trees,    *)
(* paths built from entries stay on the storage of the entry, and what each *)
(* actor does to the disks, the watches and the event queue.                *)
EXTENDS ObjectDb, TLAPS, FiniteSetTheorems, WellFoundedInduction, SequenceTheorems

-----------------------------------------------------------------------------
(* Least and greatest elements: what the CHOOSE of the lookups picks.       *)

\* A non-empty set of naturals has a least element.
LEMMA LeastNatural ==
  ASSUME NEW S, S \subseteq Nat, S # {}
  PROVE  \E x \in S : \A y \in S : x <= y
<1>1. PICK x \in S : \A y \in S : ~(<<y, x>> \in OpToRel(<, Nat))
  BY NatLessThanWellFounded, WFMin
<1>2. \A y \in S : x <= y
  <2> TAKE y \in S
  <2>1. <<y, x>> \in Nat \X Nat
    OBVIOUS
  <2>2. ~(y < x)
    BY <1>1, <2>1 DEF OpToRel
  <2> QED BY <2>2
<1> QED BY <1>2

\* The list lookups (entry_list from its head) find an element of the set.
LEMMA FirstInListFinds ==
  ASSUME NEW n \in Nat, NEW S, S \subseteq 1..n
  PROVE  /\ S # {} => FirstInList(S) \in S
         /\ FirstInList(S) = 0 <=> S = {}
<1>1. CASE S = {}
  BY <1>1 DEF FirstInList
<1>2. CASE S # {}
  <2> DEFINE T == {n - x : x \in S}
  <2>1. T \subseteq Nat
    OBVIOUS
  <2>9. T # {}
    <3>1. PICK x : x \in S
      BY <1>2
    <3>2. n - x \in T
      BY <3>1
    <3> QED BY <3>2
  <2>2. PICK t \in T : \A u \in T : t <= u
    BY <2>1, <2>9, LeastNatural
  <2>3. PICK x \in S : t = n - x
    BY <2>2
  <2>4. \A y \in S : x >= y
    BY <2>2, <2>3
  <2>5. Max(S) \in S
    BY <2>4 DEF Max
  <2> QED BY <1>2, <2>5 DEF FirstInList
<1> QED BY <1>1, <1>2

\* The hash lookups find an element of the set: one that no other precedes.
LEMMA FirstInHashFinds ==
  ASSUME entries \in Seq(Entry), NEW S, S \subseteq DOMAIN entries
  PROVE  /\ S # {} => FirstInHash(S) \in S
         /\ FirstInHash(S) = 0 <=> S = {}
<1>1. CASE S = {}
  BY <1>1 DEF FirstInHash
<1>2. CASE S # {}
  <2>1. S \subseteq Nat \ {0} /\ \A i \in S : entries[i].gen \in Nat
    <3>1. DOMAIN entries = 1..Len(entries) /\ Len(entries) \in Nat
      OBVIOUS
    <3>2. \A i \in S : entries[i] \in Entry
      BY <3>1
    <3>3. \A i \in S : entries[i].gen \in Nat
      BY <3>2 DEF Entry
    <3> QED BY <3>1, <3>3
  <2> DEFINE G == {entries[i].gen : i \in S}
  <2>2. G \subseteq Nat /\ G # {}
    BY <1>2, <2>1
  <2>3. PICK g \in G : \A u \in G : g <= u
    BY <2>2, LeastNatural
  <2> DEFINE T == {i \in S : entries[i].gen = g}
  <2>4. T \subseteq Nat /\ T # {}
    BY <2>1, <2>3
  <2>5. PICK x \in T : \A u \in T : x <= u
    BY <2>4, LeastNatural
  <2>6. \A j \in S : EarlierInHash(x, j)
    <3> TAKE j \in S
    <3>1. CASE j \in T
      BY <3>1, <2>5 DEF EarlierInHash
    <3>2. CASE j \notin T
      <4>1. g <= entries[j].gen /\ entries[j].gen # g
        BY <3>2, <2>3
      <4> QED BY <4>1, <2>1, <2>3, <2>5 DEF EarlierInHash
    <3> QED BY <3>1, <3>2
  <2>7. FirstInHash(S) \in S
    BY <1>2, <2>5, <2>6 DEF FirstInHash
  <2> QED BY <1>2, <2>1, <2>7
<1> QED BY <1>1, <1>2

\* find_entry in the inotify thread returns NULL or a live entry of the folder,
\* and what the MTP thread would find unless a rename is half done.
LEMMA InotifyFinds ==
  ASSUME entries \in Seq(Entry), NEW n, NEW h, NEW s
  PROVE  /\ FoundByInotify(n, h, s) # 0 =>
              /\ FoundByInotify(n, h, s) \in LiveEntries
              /\ NameNow(FoundByInotify(n, h, s)) = n
              /\ entries[FoundByInotify(n, h, s)].parent = h
              /\ entries[FoundByInotify(n, h, s)].storage = s
         /\ io.op \notin RenameOps => FoundByInotify(n, h, s) = find_entry(n, h, s)
<1> DEFINE S == {i \in Hashed : /\ NameNow(i) = n
                                /\ hash_function_name[entries[i].name] = hash_function_name[n]
                                /\ entries[i].parent = h
                                /\ entries[i].storage = s}
<1>1. S \subseteq LiveEntries /\ LiveEntries \subseteq DOMAIN entries
  BY DEF Hashed, LiveEntries
<1>2. FoundByInotify(n, h, s) = FirstInHash(S)
  BY DEF FoundByInotify
<1>3. (S # {} => FirstInHash(S) \in S) /\ (FirstInHash(S) = 0 <=> S = {})
  BY <1>1, FirstInHashFinds
<1>4. ASSUME io.op \notin RenameOps PROVE FoundByInotify(n, h, s) = find_entry(n, h, s)
  <2>1. /\ Hashed = LiveEntries
        /\ \A i : NameNow(i) = entries[i].name
    BY <1>4 DEF Hashed, NameNow, RenameOps
  <2>2. S = {i \in LiveEntries : /\ entries[i].name = n
                                 /\ entries[i].parent = h
                                 /\ entries[i].storage = s}
    BY <2>1
  <2> QED BY <1>2, <2>2 DEF find_entry
<1> QED BY <1>1, <1>2, <1>3, <1>4

\* find_entry returns NULL exactly when no live entry has the name in the folder,
\* get_entry_by_handle a live entry with the handle.
LEMMA LookupsFind ==
  ASSUME entries \in Seq(Entry)
  PROVE  /\ \A n, h, s : find_entry(n, h, s) = 0 =>
              \A i \in LiveEntries : ~(/\ entries[i].name = n
                                       /\ entries[i].parent = h
                                       /\ entries[i].storage = s)
         /\ \A n, h, s : find_entry(n, h, s) # 0 =>
              /\ find_entry(n, h, s) \in LiveEntries
              /\ entries[find_entry(n, h, s)].name = n
              /\ entries[find_entry(n, h, s)].parent = h
              /\ entries[find_entry(n, h, s)].storage = s
         /\ \A h : get_entry_by_handle(h) # 0 =>
              get_entry_by_handle(h) \in LiveEntries /\ entries[get_entry_by_handle(h)].handle = h
         /\ \A h, s : get_entry_by_handle_and_storageid(h, s) # 0 =>
              get_entry_by_handle_and_storageid(h, s) \in LiveEntries
         /\ \A wd, pos : get_entry_by_wd(wd, pos) # 0 =>
              get_entry_by_wd(wd, pos) \in LiveEntries
<1>1. LiveEntries \subseteq DOMAIN entries /\ DOMAIN entries = 1..Len(entries) /\ Len(entries) \in Nat
  BY DEF LiveEntries
<1>2. ASSUME NEW n, NEW h, NEW s
      PROVE  /\ find_entry(n, h, s) = 0 =>
                  \A i \in LiveEntries : ~(/\ entries[i].name = n
                                           /\ entries[i].parent = h
                                           /\ entries[i].storage = s)
             /\ find_entry(n, h, s) # 0 =>
                  /\ find_entry(n, h, s) \in LiveEntries
                  /\ entries[find_entry(n, h, s)].name = n
                  /\ entries[find_entry(n, h, s)].parent = h
                  /\ entries[find_entry(n, h, s)].storage = s
  <2> DEFINE S == {i \in LiveEntries : /\ entries[i].name = n
                                       /\ entries[i].parent = h
                                       /\ entries[i].storage = s}
  <2>1. S \subseteq DOMAIN entries
    BY <1>1
  <2>2. find_entry(n, h, s) = FirstInHash(S)
    BY DEF find_entry
  <2>3. (S # {} => FirstInHash(S) \in S) /\ (FirstInHash(S) = 0 <=> S = {})
    BY <2>1, FirstInHashFinds
  <2> QED BY <2>2, <2>3
<1>3. ASSUME NEW h
      PROVE  get_entry_by_handle(h) # 0 =>
               get_entry_by_handle(h) \in LiveEntries /\ entries[get_entry_by_handle(h)].handle = h
  <2> DEFINE S == {i \in LiveEntries : entries[i].handle = h}
  <2>1. S \subseteq DOMAIN entries
    BY <1>1
  <2>2. get_entry_by_handle(h) = FirstInHash(S)
    BY DEF get_entry_by_handle
  <2>3. (S # {} => FirstInHash(S) \in S) /\ (FirstInHash(S) = 0 <=> S = {})
    BY <2>1, FirstInHashFinds
  <2> QED BY <2>2, <2>3
<1>4. ASSUME NEW h, NEW s
      PROVE  get_entry_by_handle_and_storageid(h, s) # 0 =>
               get_entry_by_handle_and_storageid(h, s) \in LiveEntries
  <2> DEFINE S == {i \in LiveEntries : entries[i].handle = h /\ entries[i].storage = s}
  <2>1. S \subseteq 1..Len(entries)
    BY <1>1
  <2>2. get_entry_by_handle_and_storageid(h, s) = FirstInList(S)
    BY DEF get_entry_by_handle_and_storageid
  <2>3. (S # {} => FirstInList(S) \in S) /\ (FirstInList(S) = 0 <=> S = {})
    BY <1>1, <2>1, FirstInListFinds
  <2> QED BY <2>2, <2>3
<1>5. ASSUME NEW wd, NEW pos
      PROVE  get_entry_by_wd(wd, pos) # 0 => get_entry_by_wd(wd, pos) \in LiveEntries
  <2> DEFINE S == {i \in LiveEntries : entries[i].wd = wd /\ i <= pos}
  <2>1. S \subseteq 1..Len(entries)
    BY <1>1
  <2>2. get_entry_by_wd(wd, pos) = FirstInList(S)
    BY DEF get_entry_by_wd
  <2>3. (S # {} => FirstInList(S) \in S) /\ (FirstInList(S) = 0 <=> S = {})
    BY <1>1, <2>1, FirstInListFinds
  <2> QED BY <2>2, <2>3
<1> QED BY <1>2, <1>3, <1>4, <1>5

-----------------------------------------------------------------------------
(* Every step within a session leaves the old entries in place and appends  *)
(* well-formed ones; the lemmas below are the ways in which it does.        *)

\* Entry i was added by the step: a root, or an object with a handle never
\* given before in a folder that was there before.
Added(i) ==
  \/ entries'[i].handle = 0 /\ entries'[i].parent = 0
  \/ /\ entries'[i].handle = next_handle + (i - Len(entries)) - 1
     /\ entries'[i].handle < next_handle'
     /\ \/ entries'[i].parent = 0
        \/ \E j \in DOMAIN entries : /\ entries[j].handle = entries'[i].parent
                                     /\ entries[j].storage = entries'[i].storage

Kept(i) ==
  /\ entries'[i].handle = entries[i].handle
  /\ entries'[i].parent = entries[i].parent
  /\ entries'[i].storage = entries[i].storage
  /\ entries[i].deleted => entries'[i].deleted

DbStep ==
  /\ entries' \in Seq(Entry)
  /\ next_handle' \in Nat \ {0}
  /\ next_handle <= next_handle'
  /\ Len(entries) <= Len(entries')
  /\ \A i \in DOMAIN entries : Kept(i)
  /\ \A i \in Len(entries) + 1..Len(entries') : Added(i)

SameKey(a, b) == a.storage = b.storage /\ a.parent = b.parent /\ a.name = b.name

KeyOf(a) == <<a.storage, a.parent, a.name>>

\* No object is renamed, and the added ones have names new in their folder,
\* unless the look-up was crossed by a rename.
NamesStep ==
  /\ \A i \in DOMAIN entries : entries'[i].name = entries[i].name
  /\ \A i \in Len(entries) + 1..Len(entries') : entries'[i].handle # 0 =>
       /\ \A j \in LiveEntries : SameKey(entries'[i], entries[j]) =>
                                  KeyOf(entries'[i]) \in overwritten'
       /\ \A j \in Len(entries) + 1..Len(entries') :
            j # i => ~SameKey(entries'[i], entries'[j])

\* A function on 1..n is a sequence of length n.
LEMMA FunctionIsSeq ==
  ASSUME NEW S, NEW n \in Nat, NEW f \in [1..n -> S]
  PROVE  f \in Seq(S) /\ Len(f) = n /\ DOMAIN f = 1..n
OBVIOUS

\* The entries of a well typed database are Entry records.
LEMMA EntriesAreEntries ==
  ASSUME DbTypeOK
  PROVE  /\ Len(entries) \in Nat /\ DOMAIN entries = 1..Len(entries)
         /\ entries \in [1..Len(entries) -> Entry]
         /\ \A i \in DOMAIN entries : entries[i] \in Entry
BY DEF DbTypeOK

\* A step that leaves the entries alone.
LEMMA SameStep ==
  ASSUME DbTypeOK, UNCHANGED <<entries, next_handle>>
  PROVE  DbStep /\ NamesStep
<1>1. \A i \in DOMAIN entries : Kept(i)
  BY DEF Kept
<1>2. Len(entries) + 1..Len(entries') = {}
  BY EntriesAreEntries
<1>3. NamesStep
  BY <1>2 DEF NamesStep
<1> QED BY <1>1, <1>2, <1>3, EntriesAreEntries DEF DbStep, DbTypeOK

\* umount_store, delete_tree, IN_DELETE: flags are set and watches dropped.
LEMMA DeletingStep ==
  ASSUME DbTypeOK, NEW S, NEW U, entries' = Deleting(S, U), UNCHANGED next_handle
  PROVE  DbStep /\ NamesStep /\ Len(entries') = Len(entries)
<1>1. \A i \in DOMAIN entries : Deleting(S, U)[i] \in Entry
  <2> TAKE i \in DOMAIN entries
  <2>1. entries[i] \in Entry
    BY EntriesAreEntries
  <2>2. Deleting(S, U)[i] = [entries[i] EXCEPT !.deleted = @ \/ i \in S,
                                                !.wd = IF i \in U THEN NONE ELSE @]
    BY DEF Deleting
  <2>3. (entries[i].deleted \/ i \in S) \in BOOLEAN
    OBVIOUS
  <2>4. (IF i \in U THEN NONE ELSE entries[i].wd) \in Nat \cup {NONE}
    BY <2>1 DEF Entry
  <2> QED BY <2>1, <2>2, <2>3, <2>4 DEF Entry
<1>2. \A i \in DOMAIN entries : Kept(i) /\ entries'[i].name = entries[i].name
  <2> TAKE i \in DOMAIN entries
  <2>1. entries[i] \in Entry
    BY EntriesAreEntries
  <2>2. entries'[i] = [entries[i] EXCEPT !.deleted = @ \/ i \in S,
                                          !.wd = IF i \in U THEN NONE ELSE @]
    BY DEF Deleting
  <2> QED BY <2>1, <2>2 DEF Entry, Kept
<1>3. entries' \in [1..Len(entries) -> Entry]
  BY <1>1, EntriesAreEntries DEF Deleting
<1>4. entries' \in Seq(Entry) /\ Len(entries') = Len(entries)
  BY <1>3, EntriesAreEntries, FunctionIsSeq
<1>5. Len(entries) + 1..Len(entries') = {}
  BY <1>4, EntriesAreEntries
<1>6. NamesStep
  BY <1>2, <1>5 DEF NamesStep
<1> QED BY <1>2, <1>4, <1>5, <1>6, EntriesAreEntries DEF DbStep, DbTypeOK

\* One field of an entry that is neither its handle, its folder nor its
\* storage changes: a watch, or the name given by a rename.
LEMMA UpdateStep ==
  ASSUME DbTypeOK, NEW k \in DOMAIN entries, NEW e \in Entry,
         e.handle = entries[k].handle, e.parent = entries[k].parent,
         e.storage = entries[k].storage, e.deleted = entries[k].deleted,
         entries' = [entries EXCEPT ![k] = e], UNCHANGED next_handle
  PROVE  /\ DbStep /\ Len(entries') = Len(entries)
         /\ e.name = entries[k].name => NamesStep
<1>1. entries' \in [1..Len(entries) -> Entry]
  BY EntriesAreEntries
<1>2. entries' \in Seq(Entry) /\ Len(entries') = Len(entries)
  BY <1>1, EntriesAreEntries, FunctionIsSeq
<1>3. \A i \in DOMAIN entries : Kept(i)
  BY EntriesAreEntries DEF Kept
<1>4. Len(entries) + 1..Len(entries') = {}
  BY <1>2, EntriesAreEntries
<1>5. e.name = entries[k].name => NamesStep
  BY <1>4, EntriesAreEntries DEF NamesStep
<1> QED BY <1>2, <1>3, <1>4, <1>5, EntriesAreEntries DEF DbStep, DbTypeOK

\* alloc_entry at the head of entry_list.
LEMMA AppendStep ==
  ASSUME DbTypeOK, NEW h \in Nat, NEW s \in Storages, NEW n \in Names \cup {NoName},
         NEW d \in BOOLEAN,
         \/ h = 0
         \/ \E j \in DOMAIN entries : entries[j].handle = h /\ entries[j].storage = s,
         entries' = Append(entries, alloc_entry(1, h, s, n, d)),
         next_handle' = next_handle + 1
  PROVE  /\ DbStep /\ Len(entries') = Len(entries) + 1
         /\ find_entry(n, h, s) = 0 \/ <<s, h, n>> \in overwritten' => NamesStep
<1> DEFINE e == alloc_entry(1, h, s, n, d)
<1>1. e \in Entry /\ e.handle = next_handle /\ e.parent = h /\ e.storage = s /\ e.name = n
  BY DEF alloc_entry, Entry, Handles, DbTypeOK, NONE
<1>2. entries' \in Seq(Entry) /\ Len(entries') = Len(entries) + 1
  BY <1>1 DEF DbTypeOK
<1>3. \A i \in DOMAIN entries : entries'[i] = entries[i]
  BY EntriesAreEntries
<1>4. entries'[Len(entries) + 1] = e
  BY EntriesAreEntries
<1>5. \A i \in DOMAIN entries : Kept(i)
  BY <1>3 DEF Kept
<1>6. Added(Len(entries) + 1)
  BY <1>1, <1>4, EntriesAreEntries DEF Added, DbTypeOK
<1>7. \A i \in Len(entries) + 1..Len(entries') : Added(i)
  BY <1>2, <1>6, EntriesAreEntries
<1>8. find_entry(n, h, s) = 0 \/ <<s, h, n>> \in overwritten' => NamesStep
  <2> HAVE find_entry(n, h, s) = 0 \/ <<s, h, n>> \in overwritten'
  <2>1. \A j \in LiveEntries : SameKey(e, entries[j]) => KeyOf(e) \in overwritten'
    <3>1. KeyOf(e) = <<s, h, n>>
      BY <1>1 DEF KeyOf
    <3>2. find_entry(n, h, s) = 0 => \A j \in LiveEntries : ~SameKey(e, entries[j])
      BY <1>1, LookupsFind DEF SameKey, DbTypeOK
    <3> QED BY <3>1, <3>2
  <2>2. Len(entries) + 1..Len(entries') = {Len(entries) + 1}
    BY <1>2, EntriesAreEntries
  <2> QED BY <1>3, <1>4, <2>1, <2>2 DEF NamesStep
<1> QED BY <1>2, <1>5, <1>7, <1>8, EntriesAreEntries DEF DbStep, DbTypeOK

\* alloc_root_entry at the head of entry_list.
LEMMA RootStep ==
  ASSUME DbTypeOK, NEW s \in Storages,
         entries' = Append(entries, alloc_root_entry(s)), UNCHANGED next_handle
  PROVE  DbStep /\ NamesStep /\ Len(entries') = Len(entries) + 1
<1> DEFINE e == alloc_root_entry(s)
<1>1. e \in Entry /\ e.handle = 0 /\ e.parent = 0
  BY DEF alloc_root_entry, Entry, Handles, DbTypeOK, NONE
<1>2. entries' \in Seq(Entry) /\ Len(entries') = Len(entries) + 1
  BY <1>1 DEF DbTypeOK
<1>3. \A i \in DOMAIN entries : entries'[i] = entries[i]
  BY EntriesAreEntries
<1>4. entries'[Len(entries) + 1] = e
  BY EntriesAreEntries
<1>5. \A i \in DOMAIN entries : Kept(i)
  BY <1>3 DEF Kept
<1>6. \A i \in Len(entries) + 1..Len(entries') : Added(i)
  BY <1>1, <1>2, <1>4, EntriesAreEntries DEF Added
<1>7. NamesStep
  <2>1. Len(entries) + 1..Len(entries') = {Len(entries) + 1}
    BY <1>2, EntriesAreEntries
  <2> QED BY <1>1, <1>3, <1>4, <2>1 DEF NamesStep
<1> QED BY <1>2, <1>5, <1>6, <1>7, EntriesAreEntries DEF DbStep, DbTypeOK

-----------------------------------------------------------------------------
(* Each action takes a typed state to a typed state, by a DbStep and, but   *)
(* for RenameInsert, a NamesStep.                                           *)

IoTyped ==
  /\ DOMAIN io = DOMAIN IoIdle
  /\ io.op \in {"idle", "listing", "answering"} \cup RenameOps
  /\ io.op # "idle" => io.idx \in 0..Len(entries)
  /\ io.op \notin {"idle", "listing"} => io.idx # 0
  /\ io.op \in RenameOps => io.name \in Names

KernelTyped == next_wd \in Nat \ {0} /\ DOMAIN watches \subseteq Nat

\* A step of the database keeps the type invariant when the rest does.
LEMMA TypedAfterStep ==
  ASSUME DbTypeOK, DbStep, session' \in BOOLEAN, renames' \in Nat, KernelTyped', IoTyped'
  PROVE  DbTypeOK'
BY DEF DbTypeOK, DbStep, KernelTyped, IoTyped

\* An operation in progress still names an entry when entries were added.
LEMMA IoUnchanged ==
  ASSUME DbTypeOK, DbStep, UNCHANGED io
  PROVE  IoTyped'
BY EntriesAreEntries DEF DbTypeOK, DbStep, IoTyped

\* An operation that ends names no entry.
LEMMA IoBecomesIdle ==
  ASSUME io' = IoIdle
  PROVE  IoTyped'
BY DEF IoTyped, IoIdle, RenameOps

\* The environment hands out no descriptor when it changes the disk.
LEMMA DiskKeepsKernelTyped ==
  ASSUME DbTypeOK,
         \/ \E p, kind : DiskGains(p, kind)
         \/ \E gone, dropped : DiskLoses(gone, dropped)
         \/ \E p, q : DiskMoves(p, q)
         \/ UNCHANGED <<watches, next_wd>>
         \/ UNCHANGED next_wd /\ \E S : watches' = Restrict(watches, DOMAIN watches \ S)
  PROVE  KernelTyped'
<1>1. DOMAIN watches' \subseteq DOMAIN watches /\ next_wd' = next_wd
  <2>1. CASE \E p, kind : DiskGains(p, kind)
    BY <2>1 DEF DiskGains
  <2>2. CASE \E gone, dropped : DiskLoses(gone, dropped)
    BY <2>2 DEF DiskLoses, Restrict
  <2>3. CASE \E p, q : DiskMoves(p, q)
    BY <2>3 DEF DiskMoves
  <2>4. CASE UNCHANGED <<watches, next_wd>>
    BY <2>4
  <2>5. CASE UNCHANGED next_wd /\ \E S : watches' = Restrict(watches, DOMAIN watches \ S)
    BY <2>5 DEF Restrict
  <2> QED BY <2>1, <2>2, <2>3, <2>4, <2>5
<1> QED BY <1>1 DEF DbTypeOK, KernelTyped

\* A path that resolves belongs to an entry.
LEMMA ResolvedIsEntry ==
  ASSUME NEW i, build_full_path(i) # <<>>
  PROVE  i # 0
BY DEF build_full_path

\* What a scan of folder h of storage s looks at: the folder's entry and path,
\* the names that are new in it and the children that stat64 misses.
ScanIdx(h, s)  == IF h = 0 THEN get_entry_by_handle_and_storageid(0, s)
                           ELSE get_entry_by_handle(h)
ScanPath(h, s) == IF h = 0 THEN <<s>> ELSE build_full_path(ScanIdx(h, s))
Fresh(h, s)    == IF IsDir(ScanPath(h, s))
                  THEN {n \in Listing(ScanPath(h, s)) : find_entry(n, h, s) = 0} ELSE {}
Gone(h, s)     == {c \in ChildrenInDb(h, s) :
                     build_full_path(c) \notin DOMAIN disk \cup {<<>>}}

\* Entry i of a scan that found k names and deleted the entries of dead.
OldAfterScan(i, dead) ==
  /\ entries'[i] \in Entry /\ Kept(i) /\ entries'[i].name = entries[i].name
  /\ entries'[i].deleted = (entries[i].deleted \/ i \in dead)

NewAfterScan(i, h, s, order) ==
  /\ entries'[i] \in Entry /\ Added(i)
  /\ entries'[i].parent = h /\ entries'[i].storage = s
  /\ entries'[i].handle = next_handle + (i - Len(entries)) - 1
  /\ entries'[i].name = order[i - Len(entries)] /\ order[i - Len(entries)] \in Fresh(h, s)
  /\ ~entries'[i].deleted

\* The names found in a folder are finitely many.
LEMMA FreshFinite ==
  ASSUME NEW h, NEW s
  PROVE  /\ Fresh(h, s) \subseteq Names /\ IsFiniteSet(Fresh(h, s))
         /\ Cardinality(Fresh(h, s)) \in Nat
<1>1. Fresh(h, s) \subseteq Names
  BY DEF Fresh, Listing
<1>2. IsFiniteSet(Fresh(h, s))
  BY <1>1, ConstantsAssumption, FS_Subset
<1> QED BY <1>1, <1>2, FS_CardinalityType

\* A scan keeps the entries there are, the children it missed deleted, and adds
\* one entry for every new name.
LEMMA ScanParts ==
  ASSUME DbTypeOK, NEW h \in Nat, NEW s \in Storages,
         h = 0 \/ \E j \in DOMAIN entries : entries[j].handle = h /\ entries[j].storage = s,
         ScanFolder(h, s),
         NEW size, size = Len(entries), NEW news, news = Cardinality(Fresh(h, s))
  PROVE  /\ entries' \in Seq(Entry) /\ Len(entries') = size + news
         /\ next_handle' = next_handle + news
         /\ \A i \in DOMAIN entries : OldAfterScan(i, Gone(h, s))
         /\ \E order \in SetToSeqs(Fresh(h, s)) :
              \A i \in size + 1..size + news : NewAfterScan(i, h, s, order)
<1> DEFINE path  == ScanPath(h, s)
           fresh == Fresh(h, s)
           dead  == Gone(h, s)
<1>1. fresh \subseteq Names /\ news \in Nat
  BY FreshFinite
<1>2. /\ \E order \in SetToSeqs(fresh) :
           entries' = [i \in 1..(size + news) |->
                         IF i <= size THEN Deleting(dead, dead)[i]
                         ELSE alloc_entry(i - size, h, s, order[i - size],
                                          IsDir(Append(path, order[i - size])))]
      /\ next_handle' = next_handle + news
  BY DEF ScanFolder, ScanPath, ScanIdx, Fresh, Gone
<1> HIDE DEF path, fresh, dead
<1>3. PICK order \in SetToSeqs(fresh) :
        entries' = [i \in 1..(size + news) |->
                      IF i <= size THEN Deleting(dead, dead)[i]
                      ELSE alloc_entry(i - size, h, s, order[i - size],
                                       IsDir(Append(path, order[i - size])))]
  BY <1>2
<1>4. order \in [1..news -> fresh]
  BY <1>3 DEF SetToSeqs, fresh
<1>5. /\ size \in Nat /\ DOMAIN entries = 1..size /\ size + news \in Nat
      /\ next_handle \in Nat \ {0} /\ next_handle' = next_handle + news
  BY <1>1, <1>2, EntriesAreEntries DEF DbTypeOK
<1>6. ASSUME NEW i \in DOMAIN entries PROVE OldAfterScan(i, dead)
  <2>1. entries[i] \in Entry
    BY EntriesAreEntries
  <2>2. entries'[i] = [entries[i] EXCEPT !.deleted = @ \/ i \in dead,
                                          !.wd = IF i \in dead THEN NONE ELSE @]
    <3>1. i \in 1..size + news /\ i <= size
      BY <1>1, <1>5
    <3>2. entries'[i] = Deleting(dead, dead)[i]
      BY <1>3, <3>1
    <3> QED BY <3>2 DEF Deleting
  <2>3. (entries[i].deleted \/ i \in dead) \in BOOLEAN
    OBVIOUS
  <2>4. (IF i \in dead THEN NONE ELSE entries[i].wd) \in Nat \cup {NONE}
    BY <2>1 DEF Entry
  <2>5. entries'[i] \in Entry
    BY <2>1, <2>2, <2>3, <2>4 DEF Entry
  <2>6. Kept(i) /\ entries'[i].name = entries[i].name
    BY <2>1, <2>2 DEF Entry, Kept
  <2>7. entries'[i].deleted = (entries[i].deleted \/ i \in dead)
    BY <2>1, <2>2 DEF Entry
  <2> QED BY <2>5, <2>6, <2>7 DEF OldAfterScan
<1>7. ASSUME NEW i \in size + 1..size + news PROVE NewAfterScan(i, h, s, order)
  <2>1. i - size \in 1..news /\ i \in 1..size + news /\ ~(i <= size)
    BY <1>1, <1>5
  <2>2. PICK k, n, d, x : /\ k = i - size /\ n = order[k] /\ d = IsDir(Append(path, n))
                          /\ x = next_handle + k - 1
    OBVIOUS
  <2>3. entries'[i] = alloc_entry(k, h, s, n, d)
    BY <1>3, <2>1, <2>2
  <2>4. n \in fresh /\ n \in Names
    BY <1>1, <1>4, <2>1, <2>2
  <2>5. d \in BOOLEAN
    BY <2>2 DEF IsDir
  <2>6. k \in Nat /\ x \in Nat /\ x < next_handle'
    <3>1. k \in 1..news
      BY <2>1, <2>2
    <3>2. PICK y : y = next_handle'
      OBVIOUS
    <3>3. y = next_handle + news /\ next_handle \in Nat /\ news \in Nat
      BY <1>1, <1>5, <3>2
    <3>4. k \in Nat /\ x = next_handle + k - 1 /\ k >= 1 /\ k <= news
      BY <1>1, <2>2, <3>1
    <3>5. x \in Nat /\ x < y
      BY <3>3, <3>4
    <3> QED BY <3>2, <3>4, <3>5
  <2>7. renames \in Nat
    BY DEF DbTypeOK
  <2>8. entries'[i] = [handle |-> x, parent |-> h, storage |-> s, name |-> n, dir |-> d,
                       deleted |-> FALSE, wd |-> NONE, gen |-> renames]
    BY <2>2, <2>3 DEF alloc_entry
  <2>9. entries'[i] \in Entry
    BY <2>4, <2>5, <2>6, <2>7, <2>8 DEF Entry, Handles, NONE
  <2>10. Added(i)
    <3>1. entries'[i].handle = x /\ entries'[i].parent = h /\ entries'[i].storage = s
      BY <2>8
    <3>2. x = next_handle + (i - Len(entries)) - 1
      BY <2>2
    <3>3. \/ h = 0
          \/ \E j \in DOMAIN entries : entries[j].handle = h /\ entries[j].storage = s
      OBVIOUS
    <3>4. entries'[i].handle = next_handle + (i - Len(entries)) - 1
      BY <3>1, <3>2
    <3>5. entries'[i].handle < next_handle'
      BY <2>6, <3>1
    <3> QED BY <3>1, <3>3, <3>4, <3>5 DEF Added
  <2> QED BY <2>2, <2>4, <2>8, <2>9, <2>10 DEF NewAfterScan, fresh
<1>8. entries' \in Seq(Entry) /\ Len(entries') = size + news
  <2>1. \A i \in 1..size + news : i \in 1..size \/ i \in size + 1..size + news
    BY <1>5, <1>1
  <2>2. \A i \in 1..size + news : entries'[i] \in Entry
    BY <2>1, <1>5, <1>6, <1>7 DEF OldAfterScan, NewAfterScan
  <2>3. entries' \in [1..size + news -> Entry]
    BY <2>2, <1>3
  <2> QED BY <2>3, <1>5, FunctionIsSeq
<1> QED BY <1>3, <1>5, <1>6, <1>7, <1>8 DEF dead, fresh

\* scan_and_add_folder.
LEMMA ScanFolderStep ==
  ASSUME DbTypeOK, NEW h \in Nat, NEW s \in Storages,
         h = 0 \/ \E j \in DOMAIN entries : entries[j].handle = h /\ entries[j].storage = s,
         ScanFolder(h, s)
  PROVE  DbTypeOK' /\ DbStep /\ NamesStep
<1>1. PICK size, news : size = Len(entries) /\ news = Cardinality(Fresh(h, s))
  OBVIOUS
<1>2. /\ entries' \in Seq(Entry) /\ Len(entries') = size + news
      /\ next_handle' = next_handle + news
      /\ \A i \in DOMAIN entries : OldAfterScan(i, Gone(h, s))
  BY <1>1, ScanParts
<1>3. PICK order \in SetToSeqs(Fresh(h, s)) :
        \A i \in size + 1..size + news : NewAfterScan(i, h, s, order)
  BY <1>1, ScanParts
<1>4. \A a, b \in 1..news : a # b => order[a] # order[b]
  BY <1>1, <1>3 DEF SetToSeqs
<1>5. /\ size \in Nat /\ news \in Nat /\ DOMAIN entries = 1..size
      /\ next_handle \in Nat \ {0}
  BY <1>1, FreshFinite, EntriesAreEntries DEF DbTypeOK
<1>6. DbStep
  <2>1. next_handle' \in Nat \ {0} /\ next_handle <= next_handle' /\ size <= size + news
    BY <1>2, <1>5
  <2>2. \A i \in DOMAIN entries : Kept(i)
    BY <1>2 DEF OldAfterScan
  <2>3. \A i \in size + 1..size + news : Added(i)
    BY <1>3 DEF NewAfterScan
  <2> QED BY <1>1, <1>2, <2>1, <2>2, <2>3 DEF DbStep
<1>7. NamesStep
  <2>1. ASSUME NEW i \in size + 1..size + news, NEW j \in LiveEntries
        PROVE  ~SameKey(entries'[i], entries[j])
    <3>1. /\ entries'[i].name \in Fresh(h, s)
          /\ entries'[i].parent = h /\ entries'[i].storage = s
      BY <1>3 DEF NewAfterScan
    <3>2. find_entry(entries'[i].name, h, s) = 0
      BY <3>1 DEF Fresh
    <3> QED BY <3>1, <3>2, LookupsFind DEF SameKey, DbTypeOK
  <2>2. ASSUME NEW i \in size + 1..size + news, NEW j \in size + 1..size + news, j # i
        PROVE  ~SameKey(entries'[i], entries'[j])
    <3>1. i - size \in 1..news /\ j - size \in 1..news /\ i - size # j - size
      BY <1>5, <2>2
    <3>2. entries'[i].name = order[i - size] /\ entries'[j].name = order[j - size]
      BY <1>1, <1>3 DEF NewAfterScan
    <3> QED BY <3>1, <3>2, <1>4 DEF SameKey
  <2> QED BY <1>1, <1>2, <2>1, <2>2 DEF NamesStep, OldAfterScan
<1>8. IoTyped'
  <2>1. PICK idx, path : idx = ScanIdx(h, s) /\ path = ScanPath(h, s)
    OBVIOUS
  <2>2. idx \in 0..size
    BY <1>1, <1>5, <2>1, LookupsFind DEF DbTypeOK, LiveEntries, ScanIdx
  <2>3. idx \in 0..Len(entries')
    BY <1>2, <1>5, <2>2
  <2>4. io' = IoIdle \/ io' = [IoIdle EXCEPT !.op = "listing", !.idx = idx, !.parent = h,
                                             !.storage = s, !.path = path]
    BY <2>1 DEF ScanFolder, ScanIdx, ScanPath
  <2>5. CASE io' = IoIdle
    BY <2>5, IoBecomesIdle
  <2>6. CASE io' = [IoIdle EXCEPT !.op = "listing", !.idx = idx, !.parent = h,
                                  !.storage = s, !.path = path]
    <3>1. io'.op = "listing" /\ io'.idx = idx /\ DOMAIN io' = DOMAIN IoIdle
      BY <2>6 DEF IoIdle
    <3> QED BY <2>3, <3>1 DEF IoTyped, RenameOps
  <2> QED BY <2>4, <2>5, <2>6
<1>9. KernelTyped' /\ session' \in BOOLEAN /\ renames' \in Nat
  BY DiskKeepsKernelTyped DEF ScanFolder, DbTypeOK
<1> QED BY <1>6, <1>7, <1>8, <1>9, TypedAfterStep

\* The rest of GetObjectHandles.
LEMMA RegisterWatchStep ==
  ASSUME DbTypeOK, RegisterWatch
  PROVE  DbTypeOK' /\ DbStep /\ NamesStep
<1> DEFINE old == WatchersOf(io.path)
           wd  == IF old # {} THEN CHOOSE w \in old : TRUE
                  ELSE IF io.path \in DOMAIN disk /\ next_wd <= MaxWd THEN next_wd
                  ELSE NONE
           new == wd # NONE /\ old = {}
<1>1. wd \in Nat \cup {NONE}
  BY DEF WatchersOf, DbTypeOK
<1>2. new => wd = next_wd
  OBVIOUS
<1>3. CASE IsFolder(io.idx)
  <2>1. /\ entries' = [entries EXCEPT ![io.idx].wd = wd]
        /\ watches' = IF new THEN [w \in DOMAIN watches \cup {wd} |->
                                     IF w = wd THEN io.path ELSE watches[w]]
                      ELSE watches
        /\ next_wd' = IF new THEN next_wd + 1 ELSE next_wd
    BY <1>3 DEF RegisterWatch
  <2>2. io.idx \in DOMAIN entries
    BY <1>3, EntriesAreEntries DEF RegisterWatch, IsFolder, DbTypeOK
  <2>3. KernelTyped'
    BY <1>2, <2>1 DEF KernelTyped, DbTypeOK
  <2> DEFINE e == [entries[io.idx] EXCEPT !.wd = wd]
  <2>4. entries[io.idx] \in Entry
    BY <2>2, EntriesAreEntries
  <2> HIDE DEF wd
  <2>5. /\ e \in Entry /\ e.handle = entries[io.idx].handle
        /\ e.parent = entries[io.idx].parent /\ e.storage = entries[io.idx].storage
        /\ e.deleted = entries[io.idx].deleted /\ e.name = entries[io.idx].name
    BY <1>1, <2>4 DEF Entry
  <2>6. entries' = [entries EXCEPT ![io.idx] = e] /\ UNCHANGED next_handle
    BY <2>1 DEF RegisterWatch
  <2> HIDE DEF e
  <2>7. DbStep /\ NamesStep
    BY <2>2, <2>5, <2>6, UpdateStep
  <2> QED BY <2>3, <2>7, TypedAfterStep, IoBecomesIdle DEF RegisterWatch, DbTypeOK
<1>4. CASE ~IsFolder(io.idx)
  <2>1. UNCHANGED <<entries, watches, next_wd, next_handle>>
    BY <1>4 DEF RegisterWatch
  <2>2. DbStep /\ NamesStep /\ KernelTyped'
    BY <2>1, SameStep, DiskKeepsKernelTyped
  <2> QED BY <2>2, TypedAfterStep, IoBecomesIdle DEF RegisterWatch, DbTypeOK
<1> QED BY <1>3, <1>4

\* add_entry, for a name and a folder of the database.
LEMMA AddEntryStep ==
  ASSUME DbTypeOK, NEW h \in Nat, NEW s \in Storages, NEW n \in Names, NEW d \in BOOLEAN,
         \E j \in DOMAIN entries : entries[j].handle = h /\ entries[j].storage = s,
         add_entry(h, s, n, d)
  PROVE  DbStep /\ NamesStep /\ IoTyped'
<1>1. CASE find_entry(n, h, s) # 0
  <2>1. /\ UNCHANGED <<entries, next_handle>>
        /\ io' = [IoIdle EXCEPT !.op = "answering", !.idx = find_entry(n, h, s)]
    BY <1>1 DEF add_entry
  <2>2. io'.op = "answering" /\ io'.idx = find_entry(n, h, s) /\ DOMAIN io' = DOMAIN IoIdle
    BY <2>1 DEF IoIdle
  <2>3. io'.idx \in 1..Len(entries')
    BY <1>1, <2>1, <2>2, LookupsFind, EntriesAreEntries DEF LiveEntries, DbTypeOK
  <2> QED BY <2>1, <2>2, <2>3, SameStep, EntriesAreEntries DEF IoTyped, RenameOps
<1>2. CASE find_entry(n, h, s) = 0
  <2>1. DbStep /\ NamesStep /\ Len(entries') = Len(entries) + 1
    BY <1>2, AppendStep DEF add_entry
  <2>2. io' = [IoIdle EXCEPT !.op = "answering", !.idx = Len(entries) + 1]
    BY <1>2 DEF add_entry
  <2>3. io'.op = "answering" /\ io'.idx = Len(entries) + 1 /\ DOMAIN io' = DOMAIN IoIdle
    BY <2>2 DEF IoIdle
  <2> QED BY <2>1, <2>3, EntriesAreEntries DEF IoTyped, RenameOps
<1> QED BY <1>1, <1>2

\* SendObjectInfo adds at most one entry, of a folder of the database.
LEMMA SendObjectInfoStep ==
  ASSUME DbTypeOK, NEW s \in Storages, NEW h \in Nat, NEW n \in Names, NEW kind,
         \E j \in DOMAIN entries : entries[j].handle = h /\ entries[j].storage = s,
         SendObjectInfo(s, h, n, kind)
  PROVE  DbTypeOK' /\ DbStep /\ NamesStep
<1>4. DbStep /\ NamesStep /\ IoTyped'
  <2>1. CASE add_entry(h, s, n, TRUE)
    BY <2>1, AddEntryStep
  <2>2. CASE add_entry(h, s, n, FALSE)
    BY <2>2, AddEntryStep
  <2>3. CASE UNCHANGED <<entries, next_handle, io>>
    BY <2>3, SameStep, IoUnchanged
  <2> QED BY <2>1, <2>2, <2>3 DEF SendObjectInfo
<1>5. KernelTyped'
  BY DiskKeepsKernelTyped DEF SendObjectInfo, diskVars
<1>6. session' \in BOOLEAN /\ renames' \in Nat
  BY DEF SendObjectInfo, DbTypeOK
<1> QED BY <1>4, <1>5, <1>6, TypedAfterStep

\* DeleteObject only marks entries as deleted.
LEMMA DeleteObjectStep ==
  ASSUME DbTypeOK, NEW h, DeleteObject(h)
  PROVE  DbTypeOK' /\ DbStep /\ NamesStep
<1>1. DbStep /\ NamesStep
  BY DeletingStep DEF DeleteObject
<1>2. KernelTyped'
  BY DiskKeepsKernelTyped DEF DeleteObject
<1>3. IoTyped' /\ session' \in BOOLEAN /\ renames' \in Nat
  BY <1>1, IoUnchanged DEF DeleteObject, DbTypeOK
<1> QED BY <1>1, <1>2, <1>3, TypedAfterStep

\* The steps of a rename that only move the request on.
Renamer == \/ \E h \in 1..next_handle - 1 : \E n \in Names : RenameStart(h, n)
           \/ RenamePath \/ RenameRemove \/ RenameName

LEMMA RenamerKeeps ==
  ASSUME Renamer
  PROVE  UNCHANGED <<session, dbVars, cfgVars, sendHandle, diskVars, events, ino, told,
                     unmirrored, overwritten>>
BY DEF Renamer, RenameStart, RenamePath, RenameRemove, RenameName, RenameStep

\* The entry and the name a rename is about stay the same to its end.
LEMMA RenamerIo ==
  ASSUME DbTypeOK, Renamer \/ RenameOnDisk
  PROVE  /\ IoTyped'
         /\ \/ io' = IoIdle
            \/ /\ io'.op = "naming" /\ io.op = "idle" /\ io'.idx \in LiveEntries
               /\ entries[io'.idx].handle # 0
            \/ /\ io.op \in RenameOps /\ io'.op \in RenameOps
               /\ io'.idx = io.idx /\ io'.name = io.name
<1>1. UNCHANGED entries /\ Len(entries) \in Nat
  BY RenamerKeeps, EntriesAreEntries DEF RenameOnDisk, dbVars
<1>2. ASSUME NEW h \in 1..next_handle - 1, NEW n \in Names, RenameStart(h, n)
      PROVE  /\ IoTyped' /\ io'.op = "naming" /\ io.op = "idle" /\ io'.idx \in LiveEntries
             /\ entries[io'.idx].handle # 0
  <2>1. PICK i : i = get_entry_by_handle(h)
    OBVIOUS
  <2>2. i # 0 /\ io.op = "idle"
    BY <1>2, <2>1, ResolvedIsEntry DEF RenameStart, IoReady
  <2>3. i \in LiveEntries /\ entries[i].handle # 0
    BY <2>1, <2>2, LookupsFind DEF DbTypeOK
  <2>4. io'.op = "naming" /\ io'.idx = i /\ io'.name = n /\ DOMAIN io' = DOMAIN IoIdle
    BY <1>2, <2>1 DEF RenameStart, IoIdle
  <2> QED BY <1>1, <2>2, <2>3, <2>4, EntriesAreEntries DEF IoTyped, RenameOps, LiveEntries
<1>3. ASSUME io.op \in RenameOps, io'.op \in RenameOps, io'.idx = io.idx, io'.name = io.name,
             DOMAIN io' = DOMAIN IoIdle
      PROVE  IoTyped'
  BY <1>1, <1>3 DEF IoTyped, DbTypeOK, RenameOps
<1>4. CASE RenamePath \/ RenameRemove \/ RenameName \/ RenameOnDisk
  <2>1. \/ io' = IoIdle
        \/ /\ io.op \in RenameOps /\ io'.op \in RenameOps /\ DOMAIN io' = DOMAIN IoIdle
           /\ io'.idx = io.idx /\ io'.name = io.name
    <3>1. CASE RenamePath
      <4>1. CASE io' = IoIdle
        BY <4>1
      <4>2. CASE io' = [io EXCEPT !.op = "moving", !.to = PathRenamed(io.idx, io.name)]
        BY <3>1, <4>2 DEF RenamePath, RenameOps, DbTypeOK, IoIdle
      <4> QED BY <3>1, <4>1, <4>2 DEF RenamePath
    <3>2. CASE RenameRemove \/ RenameName
      BY <3>2 DEF RenameRemove, RenameName, RenameStep, RenameOps, DbTypeOK, IoIdle
    <3>3. CASE RenameOnDisk
      BY <3>3 DEF RenameOnDisk, IoIdle, RenameOps
    <3> QED BY <1>4, <3>1, <3>2, <3>3
  <2> QED BY <1>3, <2>1, IoBecomesIdle
<1> QED BY <1>2, <1>4 DEF Renamer

\* The requests that leave the database as it is.
LEMMA OtherRequestsStep ==
  ASSUME DbTypeOK, SendObject \/ SendResponse \/ Renamer \/ RenameOnDisk
                     \/ \E h : SendPartialObject(h)
  PROVE  DbTypeOK' /\ DbStep /\ NamesStep
<1>1. UNCHANGED <<session, entries, next_handle, renames>>
  BY RenamerKeeps DEF SendObject, SendPartialObject, SendResponse, RenameOnDisk, dbVars
<1>2. DbStep /\ NamesStep
  BY <1>1, SameStep
<1>3. KernelTyped'
  <2>1. CASE Renamer
    BY <2>1, RenamerKeeps, DiskKeepsKernelTyped DEF diskVars
  <2>2. CASE RenameOnDisk
    BY <2>2, DiskKeepsKernelTyped DEF RenameOnDisk, diskVars
  <2> QED BY <2>1, <2>2, DiskKeepsKernelTyped
          DEF SendObject, SendPartialObject, SendResponse, diskVars
<1>4. IoTyped'
  <2>1. CASE UNCHANGED io
    BY <2>1, <1>2, IoUnchanged
  <2>2. CASE Renamer \/ RenameOnDisk
    BY <2>2, RenamerIo
  <2> QED BY <2>1, <2>2, IoBecomesIdle DEF SendObject, SendPartialObject, SendResponse
<1>5. session' \in BOOLEAN /\ renames' \in Nat
  BY <1>1 DEF DbTypeOK
<1> QED BY <1>2, <1>3, <1>4, <1>5, TypedAfterStep

\* RenameInsert changes the name and the hash position of one entry.
LEMMA RenameInsertStep ==
  ASSUME DbTypeOK, RenameInsert
  PROVE  /\ DbTypeOK' /\ DbStep /\ Len(entries') = Len(entries)
         /\ io.idx \in DOMAIN entries /\ entries'[io.idx].name = io.name
         /\ \A i \in DOMAIN entries : /\ entries'[i].deleted = entries[i].deleted
                                      /\ i # io.idx => entries'[i].name = entries[i].name
<1> DEFINE k == io.idx
           e == [entries[k] EXCEPT !.name = io.name, !.gen = renames + 1]
<1>1. k \in DOMAIN entries /\ io.name \in Names
  BY EntriesAreEntries DEF RenameInsert, DbTypeOK, RenameOps
<1>2. entries[k] \in Entry /\ renames + 1 \in Nat
  BY <1>1, EntriesAreEntries DEF DbTypeOK
<1>3. /\ e \in Entry /\ e.handle = entries[k].handle /\ e.parent = entries[k].parent
      /\ e.storage = entries[k].storage /\ e.deleted = entries[k].deleted
      /\ e.name = io.name
  <2> DEFINE n == io.name
             g == renames + 1
  <2>1. n \in Names /\ g \in Nat /\ e = [entries[k] EXCEPT !.name = n, !.gen = g]
    BY <1>1, <1>2
  <2> HIDE DEF k, n, g
  <2>2. e \in Entry
    BY <1>2, <2>1 DEF Entry
  <2> QED BY <1>2, <2>1, <2>2 DEF Entry, n
<1>4. entries' = [entries EXCEPT ![k] = e] /\ UNCHANGED next_handle
  BY DEF RenameInsert
<1> HIDE DEF e
<1>5. DbStep /\ Len(entries') = Len(entries)
  BY <1>1, <1>3, <1>4, UpdateStep
<1>6. \A i \in DOMAIN entries : entries'[i] = IF i = k THEN e ELSE entries[i]
  BY <1>4, EntriesAreEntries
<1>7. KernelTyped' /\ IoTyped' /\ session' \in BOOLEAN /\ renames' \in Nat
  BY DiskKeepsKernelTyped, IoBecomesIdle DEF RenameInsert, diskVars, DbTypeOK
<1> QED BY <1>1, <1>3, <1>5, <1>6, <1>7, TypedAfterStep

\* The inotify thread.
LEMMA InotifyStep ==
  ASSUME DbTypeOK, Inotify
  PROVE  DbTypeOK' /\ DbStep /\ NamesStep
<1>1. DbStep /\ NamesStep /\ KernelTyped'
  <2>1. CASE UNCHANGED <<entries, next_handle, watches, next_wd>>
    BY <2>1, SameStep, DiskKeepsKernelTyped
  <2>2. CASE InotifyCreate
    <3> DEFINE i    == InotifyEntry
               path == PathForInotify(i)
               seen == Head(events).name \in Listing(path)
               n    == IF seen THEN Head(events).name ELSE NoName
               h    == entries[i].handle
               s    == entries[i].storage
    <3>1. i \in DOMAIN entries
      <4>1. i # 0
        BY <2>2 DEF InotifyCreate, PathForInotify
      <4> QED BY <4>1, LookupsFind DEF InotifyEntry, DbTypeOK, LiveEntries
    <3>2. n \in Names \cup {NoName}
      BY DEF Listing
    <3>3. entries[i].handle \in Nat /\ entries[i].storage \in Storages
      BY <3>1, EntriesAreEntries DEF Entry, Handles
    <3>4. UNCHANGED <<watches, next_wd>>
      BY <2>2 DEF InotifyCreate, InotifyTurn
    <3>5. CASE FoundByInotify(n, h, s) # 0
      <4>1. UNCHANGED <<entries, next_handle>>
        BY <2>2, <3>5 DEF InotifyCreate
      <4> QED BY <2>1, <3>4, <4>1
    <3>6. CASE FoundByInotify(n, h, s) = 0
      <4>1. PICK d \in BOOLEAN :
              entries' = Append(entries, alloc_entry(1, entries[i].handle,
                                                     entries[i].storage, n, d))
        BY <2>2, <3>6 DEF InotifyCreate
      <4>2. next_handle' = next_handle + 1
        BY <2>2, <3>6 DEF InotifyCreate
      <4>5. find_entry(n, h, s) = 0 \/ <<s, h, n>> \in overwritten'
        <5>1. NotesCrossed(i, n)
          BY <2>2 DEF InotifyCreate
        <5>2. CASE io.op \in RenameOps /\ FoundByInotify(n, h, s) # find_entry(n, h, s)
          BY <5>1, <5>2 DEF NotesCrossed
        <5>3. CASE io.op \notin RenameOps
          BY <3>6, <5>3, InotifyFinds DEF DbTypeOK
        <5> QED BY <3>6, <5>2, <5>3
      <4> HIDE DEF i, path, seen, n
      <4>3. DbStep /\ NamesStep
        BY <3>1, <3>2, <3>3, <4>1, <4>2, <4>5, AppendStep
      <4> QED BY <3>4, <4>3, DiskKeepsKernelTyped
    <3> QED BY <3>5, <3>6
  <2>3. CASE InotifyDelete
    <3>1. UNCHANGED <<next_handle, next_wd>>
      BY <2>3 DEF InotifyDelete, InotifyTurn
    <3>2. \/ UNCHANGED <<entries, watches>>
          \/ \E d : /\ entries' = Deleting({d}, {d})
                    /\ watches' = Restrict(watches, DOMAIN watches \ WdsOf({d}))
      BY <2>3 DEF InotifyDelete
    <3>3. CASE UNCHANGED <<entries, watches>>
      BY <2>1, <3>1, <3>3
    <3>4. CASE \E d : /\ entries' = Deleting({d}, {d})
                      /\ watches' = Restrict(watches, DOMAIN watches \ WdsOf({d}))
      BY <3>1, <3>4, DeletingStep, DiskKeepsKernelTyped
    <3> QED BY <3>2, <3>3, <3>4
  <2>4. CASE InotifySkip \/ InotifyModify \/ InotifyPush
    BY <2>1, <2>4 DEF InotifySkip, InotifyModify, InotifyPush, InotifyTurn, dbVars, diskVars
  <2> QED BY <2>2, <2>3, <2>4 DEF Inotify
<1>2. UNCHANGED <<session, renames, io>>
  BY DEF Inotify, InotifySkip, InotifyCreate, InotifyModify, InotifyDelete, InotifyPush,
         InotifyTurn, dbVars
<1> QED BY <1>1, <1>2, TypedAfterStep, IoUnchanged DEF DbTypeOK

\* The message queue thread.
LEMMA MsgQueueStep ==
  ASSUME DbTypeOK, MsgQueue
  PROVE  DbTypeOK' /\ DbStep /\ NamesStep
<1>1. UNCHANGED <<session, renames, io, next_handle, next_wd>>
  BY DEF MsgQueue, Mount, Unmount, LockCommand, LockStep, Command, dbVars, diskVars
<1>2. \/ \E s \in Storages : umount_store(s)
      \/ \E s \in Storages : mount_store(s)
      \/ UNCHANGED <<entries, watches>>
  <2>1. CASE \E s \in Storages : Mount(s) \/ Unmount(s)
    BY <2>1 DEF Mount, Unmount
  <2>2. CASE \E cmd \in {"lock", "unlock"} : LockCommand(cmd)
    BY <2>2 DEF LockCommand, dbVars, diskVars
  <2>3. CASE LockStep
    <3>1. \/ mq.cmd = "lock" /\ Min(mq.todo) \in Lockable \ locked /\ umount_store(Min(mq.todo))
          \/ mq.cmd = "unlock" /\ Min(mq.todo) \in Lockable \cap locked /\ mount_store(Min(mq.todo))
          \/ UNCHANGED <<entries, watches>>
      BY <2>3 DEF LockStep
    <3>2. Lockable \subseteq Storages
      BY ConstantsAssumption
    <3> QED BY <3>1, <3>2
  <2> QED BY <2>1, <2>2, <2>3 DEF MsgQueue
<1>3. DbStep /\ NamesStep /\ KernelTyped'
  <2>1. CASE UNCHANGED <<entries, watches>>
    BY <1>1, <2>1, SameStep, DiskKeepsKernelTyped
  <2>2. CASE \E s \in Storages : umount_store(s)
    BY <1>1, <2>2, DeletingStep, DiskKeepsKernelTyped DEF umount_store
  <2>3. ASSUME NEW s \in Storages, mount_store(s)
        PROVE  DbStep /\ NamesStep /\ KernelTyped'
    <3>1. CASE entries' = Append(entries, alloc_root_entry(s))
      BY <1>1, <2>3, <3>1, RootStep, DiskKeepsKernelTyped DEF mount_store
    <3>2. CASE UNCHANGED entries
      BY <1>1, <2>3, <3>2, SameStep, DiskKeepsKernelTyped DEF mount_store
    <3> QED BY <2>3, <3>1, <3>2 DEF mount_store
  <2> QED BY <1>2, <2>1, <2>2, <2>3
<1> QED BY <1>1, <1>3, TypedAfterStep, IoUnchanged DEF DbTypeOK

\* The local users, and stuttering.
LEMMA OutsideStep ==
  ASSUME DbTypeOK, LocalUser \/ UNCHANGED vars
  PROVE  DbTypeOK' /\ DbStep /\ NamesStep
<1>1. UNCHANGED <<session, entries, next_handle, renames, io>>
  BY DEF LocalUser, LocalCreate, LocalRemove, LocalMove, LocalWrite, Local, dbVars, vars
<1>2. KernelTyped'
  BY DiskKeepsKernelTyped
     DEF LocalUser, LocalCreate, LocalRemove, LocalMove, LocalWrite, diskVars, vars
<1>3. DbStep /\ NamesStep
  BY <1>1, SameStep
<1> QED BY <1>1, <1>2, <1>3, TypedAfterStep, IoUnchanged DEF DbTypeOK

\* Between two sessions the database is empty, a new one holds the roots.
DbReset ==
  /\ ~(session /\ session')
  /\ \A i \in DOMAIN entries' : entries'[i].handle = 0 /\ entries'[i].parent = 0

\* OpenSession and CloseSession start a database afresh.
LEMMA SessionStep ==
  ASSUME DbTypeOK, OpenSession \/ CloseSession
  PROVE  DbTypeOK' /\ DbReset
<1>1. CASE OpenSession
  <2>1. NbStorages \in Nat /\ Storages = 1..NbStorages
    BY ConstantsAssumption DEF Storages
  <2>2. \A s \in Storages : alloc_root_entry(s) \in Entry
    BY DEF alloc_root_entry, Entry, Handles, NONE, DbTypeOK
  <2>3. entries' \in [1..NbStorages -> Entry]
    BY <1>1, <2>1, <2>2 DEF OpenSession
  <2>4. entries' \in Seq(Entry)
    BY <2>1, <2>3, FunctionIsSeq
  <2>5. \A i \in DOMAIN entries' : entries'[i].handle = 0 /\ entries'[i].parent = 0
    BY <1>1, <2>1 DEF OpenSession, alloc_root_entry
  <2>6. ~session /\ io.op = "idle" /\ UNCHANGED <<next_handle, renames, io, watches, next_wd>>
    BY <1>1 DEF OpenSession, IoReady, diskVars
  <2> QED BY <1>1, <2>4, <2>5, <2>6 DEF DbReset, DbTypeOK, OpenSession
<1>2. CASE CloseSession
  <2>1. entries' = <<>> /\ next_handle' = 1 /\ renames' = 0 /\ session' = FALSE
    BY <1>2 DEF CloseSession
  <2>2. io.op = "idle" /\ UNCHANGED <<io, next_wd>>
    BY <1>2 DEF CloseSession, IoReady
  <2>3. KernelTyped'
    BY <1>2, DiskKeepsKernelTyped DEF CloseSession
  <2>4. entries' \in Seq(Entry) /\ DOMAIN entries' = {}
    BY <2>1
  <2>5. DbReset
    BY <2>1, <2>4 DEF DbReset
  <2>6. io'.op = "idle" /\ DOMAIN io' = DOMAIN IoIdle
    BY <2>2 DEF DbTypeOK
  <2>7. DbTypeOK'
    <3>1. session' \in BOOLEAN
      BY <2>1
    <3>2. next_handle' \in Nat \ {0} /\ renames' \in Nat
      BY <2>1
    <3> QED BY <2>3, <2>4, <2>6, <3>1, <3>2 DEF DbTypeOK, KernelTyped, RenameOps
  <2> QED BY <2>5, <2>7
<1> QED BY <1>1, <1>2

\* A host request is a session change, a rename in the database, or a step
\* that renames nothing.
LEMMA HostStep ==
  ASSUME DbTypeOK, Host
  PROVE  /\ DbTypeOK'
         /\ \/ DbReset /\ (OpenSession \/ CloseSession)
            \/ DbStep /\ RenameInsert
            \/ DbStep /\ NamesStep
<1>1. CASE OpenSession \/ CloseSession
  BY <1>1, SessionStep
<1>2. CASE RegisterWatch
  BY <1>2, RegisterWatchStep
<1>3. CASE RenameInsert
  BY <1>3, RenameInsertStep
<1>4. CASE SendObject \/ SendResponse \/ Renamer \/ RenameOnDisk
             \/ \E h : SendPartialObject(h)
  BY <1>4, OtherRequestsStep
<1>5. CASE \E s \in Storages : ScanFolder(0, s)
  BY <1>5, ScanFolderStep
<1>6. ASSUME NEW i \in DOMAIN entries, ScanFolder(entries[i].handle, entries[i].storage)
      PROVE  DbTypeOK' /\ DbStep /\ NamesStep
  <2>1. entries[i].handle \in Nat /\ entries[i].storage \in Storages
    BY EntriesAreEntries DEF Entry, Handles
  <2> QED BY <1>6, <2>1, ScanFolderStep
<1>7. ASSUME NEW i \in DOMAIN entries, NEW n \in Names, NEW kind,
             SendObjectInfo(entries[i].storage, entries[i].handle, n, kind)
      PROVE  DbTypeOK' /\ DbStep /\ NamesStep
  <2>1. entries[i].handle \in Nat /\ entries[i].storage \in Storages
    BY EntriesAreEntries DEF Entry, Handles
  <2> QED BY <1>7, <2>1, SendObjectInfoStep
<1>8. CASE \E h : DeleteObject(h)
  BY <1>8, DeleteObjectStep
<1> QED BY <1>1, <1>2, <1>3, <1>4, <1>5, <1>6, <1>7, <1>8 DEF Host, Renamer

\* What a step of the system does to the database.
LEMMA NextStep ==
  ASSUME DbTypeOK, [Next]_vars
  PROVE  /\ DbTypeOK'
         /\ \/ DbReset /\ (OpenSession \/ CloseSession)
            \/ DbStep /\ RenameInsert
            \/ DbStep /\ NamesStep
BY HostStep, InotifyStep, MsgQueueStep, OutsideStep DEF Next

-----------------------------------------------------------------------------
(* The theorems.                                                            *)

\* There is no session at first.
LEMMA InitTyped == Init => DbTypeOK
<1> SUFFICES ASSUME Init PROVE DbTypeOK
  OBVIOUS
<1>1. /\ entries \in Seq(Entry) /\ next_handle \in Nat \ {0} /\ renames \in Nat
      /\ next_wd \in Nat \ {0} /\ DOMAIN watches \subseteq Nat
  BY DEF Init
<1>2. io.op = "idle" /\ DOMAIN io = DOMAIN IoIdle
  BY DEF Init, IoIdle
<1>3. session \in BOOLEAN
  BY DEF Init
<1> QED BY <1>1, <1>2, <1>3 DEF DbTypeOK, RenameOps

\* The database always is a sequence of fs_entry records of the configured
\* storages, and an entry index the MTP thread keeps between two steps of one
\* operation (GetObjectHandles, a rename) is the index of an entry.
THEOREM DbTypeCorrect == Spec => []DbTypeOK
<1>1. Init => DbTypeOK
  BY InitTyped
<1>2. DbTypeOK /\ [Next]_vars => DbTypeOK'
  BY NextStep
<1> QED BY <1>1, <1>2, PTL DEF Spec

\* A step of the database within a session takes new handles from next_handle.
LEMMA HandlesUniqueStep ==
  ASSUME DbTypeOK, HandlesUnique, DbStep
  PROVE  HandlesUnique'
<1>1. /\ Len(entries) \in Nat /\ DOMAIN entries = 1..Len(entries)
      /\ Len(entries') \in Nat /\ DOMAIN entries' = 1..Len(entries')
      /\ next_handle \in Nat \ {0} /\ next_handle' \in Nat /\ next_handle <= next_handle'
      /\ Len(entries) <= Len(entries')
  BY EntriesAreEntries DEF DbStep, DbTypeOK
<1>2. \A i \in DOMAIN entries : /\ entries[i].handle \in Nat
                                /\ entries'[i].handle = entries[i].handle
                                /\ entries[i].handle < next_handle
  BY EntriesAreEntries DEF DbStep, Kept, Entry, Handles, HandlesUnique
<1>3. \A i \in DOMAIN entries' \ DOMAIN entries :
        \/ entries'[i].handle = 0
        \/ /\ entries'[i].handle = next_handle + (i - Len(entries)) - 1
           /\ entries'[i].handle < next_handle'
  <2> TAKE i \in DOMAIN entries' \ DOMAIN entries
  <2>1. i \in Len(entries) + 1..Len(entries')
    BY <1>1
  <2> QED BY <2>1 DEF DbStep, Added
<1>4. \A i \in DOMAIN entries' : entries'[i].handle < next_handle'
  BY <1>1, <1>2, <1>3
<1>5. \A i, j \in DOMAIN entries :
        entries[i].handle = entries[j].handle /\ entries[i].handle # 0 => i = j
  BY DEF HandlesUnique
<1>6. \A i, j \in DOMAIN entries' :
        entries'[i].handle = entries'[j].handle /\ entries'[i].handle # 0 => i = j
  <2> SUFFICES ASSUME NEW i \in DOMAIN entries', NEW j \in DOMAIN entries',
                      entries'[i].handle = entries'[j].handle, entries'[i].handle # 0
               PROVE  i = j
    OBVIOUS
  <2>1. CASE i \in DOMAIN entries /\ j \in DOMAIN entries
    BY <2>1, <1>2, <1>5
  <2>2. CASE i \in DOMAIN entries /\ j \notin DOMAIN entries
    BY <2>2, <1>1, <1>2, <1>3
  <2>3. CASE i \notin DOMAIN entries /\ j \in DOMAIN entries
    BY <2>3, <1>1, <1>2, <1>3
  <2>4. CASE i \notin DOMAIN entries /\ j \notin DOMAIN entries
    BY <2>4, <1>1, <1>3
  <2> QED BY <2>1, <2>2, <2>3, <2>4
<1> QED BY <1>4, <1>6 DEF HandlesUnique

\* After a session change all handles are those of roots.
LEMMA ResetIsFresh ==
  ASSUME DbTypeOK', DbReset
  PROVE  HandlesUnique' /\ ParentsOlder' /\ UniqueNames'
<1>1. \A i \in DOMAIN entries' : entries'[i].handle = 0 /\ entries'[i].parent = 0
  BY DEF DbReset
<1>2. next_handle' \in Nat \ {0}
  BY DEF DbTypeOK
<1> QED BY <1>1, <1>2 DEF HandlesUnique, ParentsOlder, UniqueNames, LiveEntries

\* alloc_entry hands a handle out once per session, whatever the host, the
\* inotify thread and the message queue thread do: a handle the host holds
\* never comes to name another object.
THEOREM HandlesUniqueCorrect == Spec => []HandlesUnique
<1> DEFINE IInv == DbTypeOK /\ HandlesUnique
<1>1. Init => IInv
  BY InitTyped DEF Init, HandlesUnique
<1>2. IInv /\ [Next]_vars => IInv'
  BY NextStep, HandlesUniqueStep, ResetIsFresh
<1>3. IInv => HandlesUnique
  OBVIOUS
<1> QED BY <1>1, <1>2, <1>3, PTL DEF Spec

\* A step of the database puts a new entry into a folder that is there.
LEMMA ParentsOlderStep ==
  ASSUME DbTypeOK, ParentsOlder, DbStep
  PROVE  ParentsOlder'
<1>1. /\ Len(entries) \in Nat /\ DOMAIN entries = 1..Len(entries)
      /\ Len(entries') \in Nat /\ DOMAIN entries' = 1..Len(entries')
      /\ Len(entries) <= Len(entries')
  BY EntriesAreEntries DEF DbStep, DbTypeOK
<1>2. \A i \in DOMAIN entries : /\ entries'[i].handle = entries[i].handle
                                /\ entries'[i].parent = entries[i].parent
                                /\ entries'[i].storage = entries[i].storage
  BY DEF DbStep, Kept
<1> SUFFICES ASSUME NEW i \in DOMAIN entries', entries'[i].parent # 0
             PROVE  \E j \in 1..(i - 1) : /\ entries'[j].handle = entries'[i].parent
                                          /\ entries'[j].storage = entries'[i].storage
  BY DEF ParentsOlder
<1>3. CASE i \in DOMAIN entries
  <2>1. PICK j \in 1..(i - 1) : /\ entries[j].handle = entries[i].parent
                                /\ entries[j].storage = entries[i].storage
    BY <1>2, <1>3 DEF ParentsOlder
  <2>2. j \in DOMAIN entries
    BY <1>1, <1>3
  <2> QED BY <1>2, <1>3, <2>1, <2>2
<1>4. CASE i \notin DOMAIN entries
  <2>1. i \in Len(entries) + 1..Len(entries')
    BY <1>1, <1>4
  <2>2. PICK j \in DOMAIN entries : /\ entries[j].handle = entries'[i].parent
                                    /\ entries[j].storage = entries'[i].storage
    BY <2>1 DEF DbStep, Added
  <2>3. j \in 1..(i - 1)
    BY <1>1, <2>1
  <2> QED BY <1>2, <2>2, <2>3
<1> QED BY <1>3, <1>4

\* The parent of an entry is an older entry of its storage, so the climbs of
\* build_full_path through parents always end.
THEOREM ParentsOlderCorrect == Spec => []ParentsOlder
<1> DEFINE IInv == DbTypeOK /\ ParentsOlder
<1>1. Init => IInv
  BY InitTyped DEF Init, ParentsOlder
<1>2. IInv /\ [Next]_vars => IInv'
  BY NextStep, ParentsOlderStep, ResetIsFresh
<1>3. IInv => ParentsOlder
  OBVIOUS
<1> QED BY <1>1, <1>2, <1>3, PTL DEF Spec

\* A deleted entry stays deleted for the rest of the session and every entry
\* keeps its handle, folder and storage.
THEOREM NoResurrectionCorrect == Spec => NoResurrection
<1>1. DbTypeOK /\ [Next]_vars =>
        [session /\ session' =>
           /\ Len(entries) <= Len(entries')
           /\ \A i \in DOMAIN entries :
                /\ entries[i].deleted => entries'[i].deleted
                /\ entries'[i].handle = entries[i].handle
                /\ entries'[i].parent = entries[i].parent
                /\ entries'[i].storage = entries[i].storage]_vars
  BY NextStep DEF DbReset, DbStep, Kept
<1> QED BY <1>1, DbTypeCorrect, PTL DEF Spec, NoResurrection

-----------------------------------------------------------------------------
(* UniqueNames: the lookup before every allocation is enough, except for    *)
(* the renames, done or under way, that the history variable overwritten    *)
(* records.                                                                 *)

\* Within a session the names doubled by a rename are not forgotten.
LEMMA OverwrittenGrows ==
  ASSUME [Next]_vars
  PROVE  CloseSession \/ overwritten \subseteq overwritten'
<1>1. CASE Host
  <2>1. CASE OpenSession \/ RegisterWatch \/ RenameInsert \/ SendObject \/ SendResponse
               \/ RenameOnDisk
    BY <2>1 DEF OpenSession, RegisterWatch, RenameInsert, SendObject, SendResponse, RenameOnDisk
  <2>2. ASSUME NEW h, NEW s, ScanFolder(h, s) PROVE overwritten \subseteq overwritten'
    BY <2>2 DEF ScanFolder
  <2>3. ASSUME NEW s, NEW h, NEW n, NEW kind, SendObjectInfo(s, h, n, kind)
        PROVE  overwritten \subseteq overwritten'
    BY <2>3 DEF SendObjectInfo
  <2>4. ASSUME NEW h, SendPartialObject(h) \/ DeleteObject(h)
        PROVE  overwritten \subseteq overwritten'
    BY <2>4 DEF SendPartialObject, DeleteObject
  <2>5. CASE Renamer
    BY <2>5, RenamerKeeps
  <2> QED BY <1>1, <2>1, <2>2, <2>3, <2>4, <2>5 DEF Host, Renamer
<1>2. CASE Inotify
  <2>1. ASSUME NEW i, NEW n, NotesCrossed(i, n) PROVE overwritten \subseteq overwritten'
    BY <2>1 DEF NotesCrossed
  <2> QED BY <1>2, <2>1 DEF Inotify, InotifySkip, InotifyCreate, InotifyModify, InotifyDelete,
                            InotifyPush
<1>3. CASE MsgQueue
  BY <1>3 DEF MsgQueue, Mount, Unmount, LockCommand, LockStep, Command
<1>4. CASE LocalUser
  BY <1>4 DEF LocalUser, LocalCreate, LocalRemove, LocalMove, LocalWrite, Local
<1>5. CASE UNCHANGED vars
  BY <1>5 DEF vars
<1> QED BY <1>1, <1>2, <1>3, <1>4, <1>5 DEF Next

\* Live entries of the next state that are not new were live before.
LEMMA LiveBefore ==
  ASSUME DbTypeOK, DbStep
  PROVE  /\ \A i \in LiveEntries' : i \in DOMAIN entries => i \in LiveEntries
         /\ \A i \in LiveEntries' : i \notin DOMAIN entries =>
              i \in Len(entries) + 1..Len(entries')
<1>1. DOMAIN entries' = 1..Len(entries') /\ Len(entries') \in Nat
  BY DEF DbStep
<1>2. \A i \in LiveEntries' : i \in DOMAIN entries' /\ ~entries'[i].deleted
  BY DEF LiveEntries, Live
<1>3. \A i \in DOMAIN entries : entries[i].deleted => entries'[i].deleted
  BY DEF DbStep, Kept
<1>4. \A i \in LiveEntries' : i \in DOMAIN entries => i \in LiveEntries
  BY <1>2, <1>3 DEF LiveEntries, Live
<1>5. \A i \in DOMAIN entries' : i \notin DOMAIN entries => i \in Len(entries) + 1..Len(entries')
  BY <1>1, EntriesAreEntries
<1> QED BY <1>2, <1>4, <1>5

\* A step without a rename: scan, inotify and SendObjectInfo add a name only
\* after find_entry missed it, under the mutex; what it missed because of a
\* rename under way is recorded in overwritten.
LEMMA UniqueNamesStep ==
  ASSUME DbTypeOK, UniqueNames, DbStep, NamesStep, overwritten \subseteq overwritten'
  PROVE  UniqueNames'
<1> SUFFICES ASSUME NEW i \in LiveEntries', NEW j \in LiveEntries',
                    entries'[i].handle # 0, entries'[j].handle # 0,
                    SameKey(entries'[i], entries'[j]),
                    <<entries'[i].storage, entries'[i].parent, entries'[i].name>>
                      \notin overwritten'
             PROVE  i = j
  BY DEF UniqueNames, SameKey
<1>1. \A k \in DOMAIN entries : /\ entries'[k].handle = entries[k].handle
                                /\ entries'[k].parent = entries[k].parent
                                /\ entries'[k].storage = entries[k].storage
                                /\ entries'[k].name = entries[k].name
  BY DEF DbStep, Kept, NamesStep
<1>2. CASE i \in DOMAIN entries /\ j \in DOMAIN entries
  <2>1. i \in LiveEntries /\ j \in LiveEntries
    BY <1>2, LiveBefore
  <2> QED BY <1>1, <1>2, <2>1 DEF UniqueNames, SameKey
<1>3. CASE i \in DOMAIN entries /\ j \notin DOMAIN entries
  <2>1. i \in LiveEntries /\ j \in Len(entries) + 1..Len(entries')
    BY <1>3, LiveBefore
  <2>2. SameKey(entries'[j], entries[i]) => KeyOf(entries'[j]) \in overwritten'
    BY <2>1 DEF NamesStep
  <2> QED BY <1>1, <1>3, <2>2 DEF SameKey, KeyOf
<1>4. CASE i \notin DOMAIN entries /\ j \in DOMAIN entries
  <2>1. j \in LiveEntries /\ i \in Len(entries) + 1..Len(entries')
    BY <1>4, LiveBefore
  <2>2. SameKey(entries'[i], entries[j]) => KeyOf(entries'[i]) \in overwritten'
    BY <2>1 DEF NamesStep
  <2> QED BY <1>1, <1>4, <2>2 DEF SameKey, KeyOf
<1>5. CASE i \notin DOMAIN entries /\ j \notin DOMAIN entries
  <2>1. i \in Len(entries) + 1..Len(entries') /\ j \in Len(entries) + 1..Len(entries')
    BY <1>5, LiveBefore
  <2> QED BY <2>1 DEF NamesStep
<1> QED BY <1>2, <1>3, <1>4, <1>5

\* A rename: the name was free, or the pair is recorded in overwritten.
LEMMA UniqueNamesRename ==
  ASSUME DbTypeOK, UniqueNames, RenameInsert
  PROVE  UniqueNames'
<1> DEFINE k    == io.idx
           key  == <<entries[k].storage, entries[k].parent, io.name>>
           twin == find_entry(io.name, entries[k].parent, entries[k].storage)
<1>1. DbStep /\ k \in DOMAIN entries /\ entries'[k].name = io.name /\ DOMAIN entries' = DOMAIN entries
  BY RenameInsertStep, EntriesAreEntries DEF DbStep
<1>2. \A i \in DOMAIN entries : /\ entries'[i].handle = entries[i].handle
                                /\ entries'[i].parent = entries[i].parent
                                /\ entries'[i].storage = entries[i].storage
                                /\ i # k => entries'[i].name = entries[i].name
  BY <1>1, RenameInsertStep DEF DbStep, Kept
<1>3. /\ overwritten \subseteq overwritten'
      /\ k \in LiveEntries /\ twin # 0 /\ twin # k => key \in overwritten'
  BY DEF RenameInsert, LiveEntries
<1>4. LiveEntries' \subseteq LiveEntries
  <2>1. LiveEntries' \subseteq DOMAIN entries
    BY <1>1 DEF LiveEntries
  <2> QED BY <1>1, <2>1, LiveBefore
<1>5. ASSUME NEW j \in LiveEntries, j # k, k \in LiveEntries,
             entries[j].handle # 0, entries[k].handle # 0,
             entries[j].storage = entries[k].storage, entries[j].parent = entries[k].parent,
             entries[j].name = io.name
      PROVE  key \in overwritten'
  <2>1. twin # 0
    BY <1>5, LookupsFind DEF DbTypeOK
  <2>2. CASE twin # k
    BY <1>3, <1>5, <2>1, <2>2
  <2>3. CASE twin = k
    <3>1. entries[k].name = io.name
      BY <2>1, <2>3, LookupsFind DEF DbTypeOK
    <3>2. key \in overwritten
      BY <1>5, <3>1 DEF UniqueNames
    <3> QED BY <1>3, <3>2
  <2> QED BY <2>2, <2>3
<1> SUFFICES ASSUME NEW i \in LiveEntries', NEW j \in LiveEntries',
                    entries'[i].handle # 0, entries'[j].handle # 0,
                    SameKey(entries'[i], entries'[j]),
                    <<entries'[i].storage, entries'[i].parent, entries'[i].name>>
                      \notin overwritten'
             PROVE  i = j
  BY DEF UniqueNames, SameKey
<1>6. i \in LiveEntries /\ j \in LiveEntries /\ i \in DOMAIN entries /\ j \in DOMAIN entries
  BY <1>4 DEF LiveEntries
<1>7. CASE i # k /\ j # k
  BY <1>2, <1>3, <1>6, <1>7 DEF UniqueNames, SameKey
<1>8. CASE i = k /\ j # k
  BY <1>1, <1>2, <1>5, <1>6, <1>8 DEF SameKey
<1>9. CASE i # k /\ j = k
  BY <1>1, <1>2, <1>5, <1>6, <1>9 DEF SameKey
<1> QED BY <1>7, <1>8, <1>9

\* Two live entries of a folder never have the same name, however the scans,
\* the inotify events and the requests interleave, unless a host rename
\* replaced an object whose entry was still live, or hid its own entry from
\* the look-up of the inotify thread while it was under way.
THEOREM UniqueNamesCorrect == Spec => []UniqueNames
<1> DEFINE IInv == DbTypeOK /\ UniqueNames
<1>1. Init => IInv
  BY InitTyped DEF Init, UniqueNames, LiveEntries
<1>2. IInv /\ [Next]_vars => IInv'
  <2> SUFFICES ASSUME DbTypeOK, UniqueNames, [Next]_vars
               PROVE  DbTypeOK' /\ UniqueNames'
    OBVIOUS
  <2>1. DbTypeOK'
    BY NextStep
  <2>2. CASE DbReset
    BY <2>1, <2>2, ResetIsFresh
  <2>3. CASE RenameInsert
    BY <2>1, <2>3, UniqueNamesRename
  <2>4. CASE DbStep /\ NamesStep /\ ~DbReset
    <3>1. overwritten \subseteq overwritten'
      BY <2>4, OverwrittenGrows, SessionStep
    <3> QED BY <2>1, <2>4, <3>1, UniqueNamesStep
  <2> QED BY <2>2, <2>3, <2>4, NextStep
<1>3. IInv => UniqueNames
  OBVIOUS
<1> QED BY <1>1, <1>2, <1>3, PTL DEF Spec

-----------------------------------------------------------------------------
(* The refinement: the database implements ObjectHandles.                   *)

\* No entry outlives its session.
NoEntries == ~session => entries = <<>>

\* Only OpenSession and CloseSession change what ctx->fs_db is.
LEMMA SessionKept ==
  ASSUME [Next]_vars
  PROVE  OpenSession \/ CloseSession \/ session' = session
<1>1. CASE Host
  <2>1. CASE RegisterWatch \/ RenameInsert \/ SendObject \/ SendResponse \/ RenameOnDisk
    BY <2>1 DEF RegisterWatch, RenameInsert, SendObject, SendResponse, RenameOnDisk
  <2>2. ASSUME NEW h, NEW s, ScanFolder(h, s) PROVE session' = session
    BY <2>2 DEF ScanFolder
  <2>3. ASSUME NEW s, NEW h, NEW n, NEW kind, SendObjectInfo(s, h, n, kind)
        PROVE  session' = session
    BY <2>3 DEF SendObjectInfo
  <2>4. ASSUME NEW h, SendPartialObject(h) \/ DeleteObject(h)
        PROVE  session' = session
    BY <2>4 DEF SendPartialObject, DeleteObject
  <2>5. CASE Renamer
    BY <2>5, RenamerKeeps
  <2> QED BY <1>1, <2>1, <2>2, <2>3, <2>4, <2>5 DEF Host, Renamer
<1>2. CASE Inotify
  BY <1>2 DEF Inotify, InotifySkip, InotifyCreate, InotifyModify, InotifyDelete,
              InotifyPush, InotifyTurn
<1>3. CASE MsgQueue
  BY <1>3 DEF MsgQueue, Mount, Unmount, LockCommand, LockStep, Command
<1>4. CASE LocalUser
  BY <1>4 DEF LocalUser, LocalCreate, LocalRemove, LocalMove, LocalWrite, Local
<1>5. CASE UNCHANGED vars
  BY <1>5 DEF vars
<1> QED BY <1>1, <1>2, <1>3, <1>4, <1>5 DEF Next

\* Without a session a host request finds nothing to work on.
LEMMA HostNeedsSession ==
  ASSUME DbTypeOK, ~session, entries = <<>>, Host
  PROVE  OpenSession \/ UNCHANGED entries
<1>1. ~RegisterWatch \/ UNCHANGED entries
  BY DEF RegisterWatch, IsFolder, DbTypeOK
<1>2. ~RenameInsert
  BY DEF RenameInsert, DbTypeOK, RenameOps
<1>3. ~CloseSession /\ ~SendObject
  BY DEF CloseSession, SendObject
<1>4. \A h, s : ~ScanFolder(h, s)
  BY DEF ScanFolder
<1>5. \A s, h, n, kind : ~SendObjectInfo(s, h, n, kind)
  <2> SUFFICES ASSUME NEW s, NEW h, NEW n, NEW kind
               PROVE  ~SendObjectInfo(s, h, n, kind)
    OBVIOUS
  <2> QED BY DEF SendObjectInfo
<1>6. \A h : ~SendPartialObject(h) /\ ~DeleteObject(h)
  BY DEF SendPartialObject, DeleteObject
<1>7. SendResponse \/ RenameOnDisk \/ Renamer => UNCHANGED entries
  BY RenamerKeeps DEF SendResponse, RenameOnDisk, dbVars
<1> QED BY <1>1, <1>2, <1>3, <1>4, <1>5, <1>6, <1>7 DEF Host, Renamer

\* Nor does the inotify thread: no entry has the descriptor of an event.
LEMMA InotifyNeedsSession ==
  ASSUME DbTypeOK, entries = <<>>, Inotify
  PROVE  UNCHANGED entries
<1>1. LiveEntries = {}
  BY DEF LiveEntries
<1>2. InotifyEntry = 0
  <2>1. \A wd, pos : get_entry_by_wd(wd, pos) = 0
    BY <1>1 DEF get_entry_by_wd, FirstInList
  <2> QED BY <2>1 DEF InotifyEntry
<1>3. PathForInotify(InotifyEntry) = <<>>
  BY <1>2 DEF PathForInotify
<1>4. ~InotifyCreate /\ ~InotifyDelete
  BY <1>3 DEF InotifyCreate, InotifyDelete
<1>5. InotifySkip \/ InotifyModify \/ InotifyPush => UNCHANGED entries
  BY DEF InotifySkip, InotifyModify, InotifyPush, dbVars
<1> QED BY <1>4, <1>5 DEF Inotify

\* Nor do the commands of the message queue: there is no root to add and
\* nothing to delete.
LEMMA MsgQueueNeedsSession ==
  ASSUME ~session, entries = <<>>, MsgQueue
  PROVE  entries' = <<>>
<1>1. \A S, U : Deleting(S, U) = <<>>
  BY DEF Deleting
<1>2. \A s : umount_store(s) => entries' = <<>>
  BY <1>1 DEF umount_store
<1>3. \A s : mount_store(s) => entries' = <<>>
  BY DEF mount_store
<1> QED BY <1>2, <1>3 DEF MsgQueue, Mount, Unmount, LockCommand, LockStep, dbVars

\* Entries come with a session and go with it.
LEMMA NoEntriesStep ==
  ASSUME DbTypeOK, NoEntries, [Next]_vars
  PROVE  NoEntries'
<1>1. CASE OpenSession \/ CloseSession
  BY <1>1 DEF OpenSession, CloseSession, NoEntries
<1>2. CASE session' = session
  <2> SUFFICES ASSUME ~session, entries = <<>>
               PROVE  entries' = <<>> \/ OpenSession
    BY <1>2 DEF NoEntries, OpenSession
  <2>1. CASE Host
    BY <2>1, HostNeedsSession
  <2>2. CASE Inotify
    BY <2>2, InotifyNeedsSession
  <2>3. CASE MsgQueue
    BY <2>3, MsgQueueNeedsSession
  <2>4. CASE LocalUser
    BY <2>4 DEF LocalUser, LocalCreate, LocalRemove, LocalMove, LocalWrite, Local, dbVars
  <2>5. CASE UNCHANGED vars
    BY <2>5 DEF vars, dbVars
  <2> QED BY <2>1, <2>2, <2>3, <2>4, <2>5 DEF Next
<1> QED BY <1>1, <1>2, SessionKept

\* The entry of a handle is the one that has it.
LEMMA EntryOfHandle ==
  ASSUME HandlesUnique
  PROVE  \A i \in DOMAIN entries : entries[i].handle # 0 => EntryOf(entries[i].handle) = i
BY DEF HandlesUnique, EntryOf

\* A step of the database within a session changes the set of objects as
\* ObjectHandles allows.
LEMMA ChangeStep ==
  ASSUME DbTypeOK, HandlesUnique, HandlesUnique', DbStep, session, session'
  PROVE  Promise!Change
<1> DEFINE Record(i)  == [parent |-> entries[i].parent, storage |-> entries[i].storage]
           Record1(i) == [parent |-> entries'[i].parent, storage |-> entries'[i].storage]
<1>1. /\ Len(entries) \in Nat /\ DOMAIN entries = 1..Len(entries)
      /\ Len(entries') \in Nat /\ DOMAIN entries' = 1..Len(entries')
      /\ Len(entries) <= Len(entries') /\ DOMAIN entries \subseteq DOMAIN entries'
      /\ next_handle \in Nat
  BY EntriesAreEntries DEF DbStep, DbTypeOK
<1>2. \A i \in DOMAIN entries : /\ entries'[i].handle = entries[i].handle
                                /\ entries'[i].parent = entries[i].parent
                                /\ entries'[i].storage = entries[i].storage
                                /\ entries[i].deleted => entries'[i].deleted
  BY DEF DbStep, Kept
<1>3. \A i \in DOMAIN entries : entries[i].handle # 0 => EntryOf(entries[i].handle) = i
  BY EntryOfHandle
<1>4. \A h : \A i \in DOMAIN entries' : entries'[i].handle = h /\ h # 0 => EntryOf(h)' = i
  BY DEF HandlesUnique, EntryOf
<1>5. HandlesGiven \subseteq HandlesGiven'
  BY <1>1, <1>2 DEF HandlesGiven
<1>6. \A h \in HandlesGiven : /\ EntryOf(h) \in DOMAIN entries /\ EntryOf(h)' = EntryOf(h)
                              /\ entries[EntryOf(h)].handle = h
  BY <1>1, <1>2, <1>3, <1>4 DEF HandlesGiven
<1>7. \A h \in HandlesGiven : Record1(EntryOf(h)') = Record(EntryOf(h))
  BY <1>2, <1>6
<1>8. ASSUME NEW h \in HandlesGiven', h \notin HandlesGiven
      PROVE  /\ \A g \in HandlesGiven : g < h
             /\ Record1(EntryOf(h)').parent # 0 =>
                  /\ Record1(EntryOf(h)').parent \in HandlesGiven
                  /\ Record(EntryOf(Record1(EntryOf(h)').parent)).storage
                       = Record1(EntryOf(h)').storage
  <2>1. PICK i \in DOMAIN entries' : h = entries'[i].handle /\ h # 0
    BY <1>8 DEF HandlesGiven
  <2>2. EntryOf(h)' = i
    BY <1>4, <2>1
  <2>3. i \in Len(entries) + 1..Len(entries')
    <3>1. i \notin DOMAIN entries
      BY <1>2, <1>8, <2>1 DEF HandlesGiven
    <3> QED BY <1>1, <3>1
  <2>4. Added(i) /\ h = next_handle + (i - Len(entries)) - 1
    BY <2>1, <2>3 DEF DbStep, Added
  <2>5. \A g \in HandlesGiven : g \in Nat /\ g < next_handle
    BY EntriesAreEntries DEF HandlesUnique, HandlesGiven, Entry, Handles
  <2>6. \A g \in HandlesGiven : g < h
    BY <1>1, <2>3, <2>4, <2>5
  <2>7. ASSUME entries'[i].parent # 0
        PROVE  /\ entries'[i].parent \in HandlesGiven
               /\ entries[EntryOf(entries'[i].parent)].storage = entries'[i].storage
    <3>1. PICK j \in DOMAIN entries : /\ entries[j].handle = entries'[i].parent
                                      /\ entries[j].storage = entries'[i].storage
      BY <2>1, <2>4, <2>7 DEF Added
    <3> QED BY <1>3, <2>7, <3>1 DEF HandlesGiven
  <2> QED BY <2>2, <2>6, <2>7
<1>9. \A h \in {entries'[i].handle : i \in LiveEntries'} \ {0} :
        /\ h \in HandlesGiven'
        /\ h \in HandlesGiven => h \in {entries[i].handle : i \in LiveEntries} \ {0}
  <2> TAKE h \in {entries'[i].handle : i \in LiveEntries'} \ {0}
  <2>1. PICK i \in LiveEntries' : h = entries'[i].handle /\ h # 0
    OBVIOUS
  <2>2. i \in DOMAIN entries' /\ ~entries'[i].deleted
    BY <2>1 DEF LiveEntries, Live
  <2>3. h \in HandlesGiven'
    BY <2>1, <2>2 DEF HandlesGiven
  <2>4. ASSUME h \in HandlesGiven
        PROVE  h \in {entries[k].handle : k \in LiveEntries} \ {0}
    <3>1. i \in DOMAIN entries
      BY <1>4, <1>6, <2>1, <2>2, <2>4
    <3>2. i \in LiveEntries
      BY <1>2, <2>2, <3>1 DEF LiveEntries, Live
    <3> QED BY <1>2, <2>1, <3>1, <3>2
  <2> QED BY <2>3, <2>4
<1> QED BY <1>5, <1>7, <1>8, <1>9 DEF Promise!Change, Promise!WellPlaced

\* Between sessions there are no objects.
LEMMA FreshObjects ==
  ASSUME DbTypeOK', \A i \in DOMAIN entries' : entries'[i].handle = 0
  PROVE  HandlesGiven' = {} /\ {entries'[i].handle : i \in LiveEntries'} \ {0} = {}
<1>1. LiveEntries' \subseteq DOMAIN entries'
  BY DEF LiveEntries
<1> QED BY <1>1 DEF HandlesGiven

\* The database implements ObjectHandles: for every number of storages and
\* names and every interleaving, the objects a host was given handles for only
\* ever grow within a session, each in a known folder of its storage, and a
\* removed one never comes back.
THEOREM KeepsHandlesCorrect == Spec => KeepsHandles
<1> DEFINE IInv == DbTypeOK /\ HandlesUnique /\ NoEntries
<1>1. Init => IInv
  BY InitTyped DEF Init, HandlesUnique, NoEntries
<1>2. IInv /\ [Next]_vars => IInv'
  BY NextStep, HandlesUniqueStep, ResetIsFresh, NoEntriesStep
<1>3. Init => Promise!Init
  BY DEF Init, HandlesGiven, LiveEntries, Promise!Init, Promise!NoObject
<1>4. IInv /\ IInv' /\ [Next]_vars => [Promise!Next]_(Promise!handleVars)
  <2> SUFFICES ASSUME IInv, IInv', [Next]_vars
               PROVE  Promise!Next \/ UNCHANGED Promise!handleVars
    OBVIOUS
  <2>1. CASE OpenSession \/ CloseSession
    <3>1. DbReset
      BY <2>1, SessionStep
    <3>2. HandlesGiven' = {} /\ {entries'[i].handle : i \in LiveEntries'} \ {0} = {}
      BY <3>1, FreshObjects DEF DbReset
    <3> QED BY <2>1, <3>2 DEF OpenSession, CloseSession, Promise!Next, Promise!Begin,
                              Promise!End, Promise!NoObject
  <2>2. CASE session' = session /\ session
    <3>1. DbStep
      BY <2>2, NextStep DEF DbReset
    <3> QED BY <2>2, <3>1, ChangeStep DEF Promise!Next
  <2>3. CASE session' = session /\ ~session
    BY <2>3 DEF NoEntries, HandlesGiven, EntryOf, LiveEntries, Live, Promise!handleVars
  <2> QED BY <2>1, <2>2, <2>3, SessionKept DEF DbTypeOK
<1> QED BY <1>1, <1>2, <1>3, <1>4, PTL DEF Spec, KeepsHandles, Promise!Spec

-----------------------------------------------------------------------------
(* Paths: what build_full_path climbs.                                      *)

Sane == DbTypeOK /\ HandlesUnique /\ ParentsOlder

\* One turn of the climb: the name it collects and the entry it goes on to.
Own(k)   == IF entries[k].name \in Names THEN <<entries[k].name>> ELSE <<>>
Above(k) == IF entries[k].parent = 0 THEN 0 ELSE get_entry_by_handle(entries[k].parent)

\* The climb goes to an older live entry of the same storage, or ends.
LEMMA AboveOlder ==
  ASSUME Sane, NEW k \in DOMAIN entries
  PROVE  /\ Above(k) \in 0..k - 1
         /\ Above(k) # 0 => /\ Above(k) \in LiveEntries
                            /\ entries[Above(k)].handle = entries[k].parent
                            /\ entries[Above(k)].storage = entries[k].storage
<1>1. entries \in Seq(Entry) /\ DOMAIN entries = 1..Len(entries) /\ Len(entries) \in Nat
  BY EntriesAreEntries DEF Sane, DbTypeOK
<1>2. CASE Above(k) = 0
  BY <1>1, <1>2
<1>3. CASE Above(k) # 0
  <2>1. entries[k].parent # 0 /\ Above(k) = get_entry_by_handle(entries[k].parent)
    BY <1>3 DEF Above
  <2>2. Above(k) \in LiveEntries /\ entries[Above(k)].handle = entries[k].parent
    BY <1>1, <1>3, <2>1, LookupsFind
  <2>3. PICK j \in 1..(k - 1) : /\ entries[j].handle = entries[k].parent
                                /\ entries[j].storage = entries[k].storage
    BY <2>1 DEF Sane, ParentsOlder
  <2>4. j \in DOMAIN entries /\ Above(k) \in DOMAIN entries
    BY <1>1, <2>2, <2>3 DEF LiveEntries
  <2>5. Above(k) = j
    BY <2>1, <2>2, <2>3, <2>4 DEF Sane, HandlesUnique
  <2> QED BY <1>1, <2>2, <2>3, <2>5
<1> QED BY <1>2, <1>3

\* The same for the climb among the entries named by the function name and those
\* of hashed.
OwnIn(name, k)     == IF name[k] \in Names THEN <<name[k]>> ELSE <<>>
AboveIn(hashed, k) == IF entries[k].parent = 0 THEN 0
                      ELSE FirstInHash({a \in hashed : entries[a].handle = entries[k].parent})

\* It goes to an older entry too, or ends.
LEMMA AboveInOlder ==
  ASSUME Sane, NEW hashed \in SUBSET LiveEntries, NEW k \in DOMAIN entries
  PROVE  AboveIn(hashed, k) \in 0..k - 1
<1>1. entries \in Seq(Entry) /\ DOMAIN entries = 1..Len(entries) /\ Len(entries) \in Nat
  BY EntriesAreEntries DEF Sane, DbTypeOK
<1>2. CASE AboveIn(hashed, k) = 0
  BY <1>1, <1>2
<1>3. CASE AboveIn(hashed, k) # 0
  <2>1. PICK S : S = {a \in hashed : entries[a].handle = entries[k].parent}
    OBVIOUS
  <2>2. entries[k].parent # 0 /\ AboveIn(hashed, k) = FirstInHash(S)
    BY <1>3, <2>1 DEF AboveIn
  <2>3. S \subseteq DOMAIN entries
    BY <2>1 DEF LiveEntries
  <2>4. FirstInHash(S) \in S
    BY <1>1, <1>3, <2>2, <2>3, FirstInHashFinds
  <2>5. PICK j \in 1..(k - 1) : entries[j].handle = entries[k].parent
    BY <2>2 DEF Sane, ParentsOlder
  <2>6. j \in DOMAIN entries
    BY <1>1, <2>5
  <2>7. FirstInHash(S) = j
    BY <2>1, <2>2, <2>3, <2>4, <2>5, <2>6 DEF Sane, HandlesUnique
  <2> QED BY <1>1, <2>2, <2>5, <2>7
<1> QED BY <1>2, <1>3

\* The names collected up to entry k, given those collected up to older ones.
Turn(own, above, f, k) == IF above[k] = 0 THEN own[k] ELSE f[above[k]] \o own[k]

Climbed(own, above, n) ==
  \E f \in [1..n -> Seq(Names)] : \A k \in 1..n : f[k] = Turn(own, above, f, k)

\* The climbs of the first n entries are defined.
LEMMA ClimbsExist ==
  ASSUME NEW N \in Nat, NEW own \in [1..N -> Seq(Names)], NEW above,
         \A k \in 1..N : above[k] \in 0..k - 1
  PROVE  \A n \in 0..N : Climbed(own, above, n)
<1> DEFINE Bad == {n \in 0..N : ~Climbed(own, above, n)}
<1>1. ASSUME Bad # {} PROVE FALSE
  <2>0. Bad \subseteq Nat
    OBVIOUS
  <2>1. PICK n \in Bad : \A m \in Bad : n <= m
    <3> HIDE DEF Bad
    <3> QED BY <1>1, <2>0, LeastNatural
  <2>2. n # 0
    <3>1. PICK f \in [1..0 -> Seq(Names)] : TRUE
      <4>1. [k \in 1..0 |-> <<>>] \in [1..0 -> Seq(Names)]
        OBVIOUS
      <4> QED BY <4>1
    <3>2. \A k \in 1..0 : f[k] = Turn(own, above, f, k)
      OBVIOUS
    <3>3. Climbed(own, above, 0)
      BY <3>2 DEF Climbed
    <3> QED BY <2>1, <3>3
  <2>3. n \in 1..N /\ n - 1 \in 0..N /\ n - 1 \notin Bad
    <3>1. n \in 0..N
      BY <2>1
    <3>2. n \in 1..N /\ n - 1 \in 0..N /\ ~(n <= n - 1)
      BY <2>2, <3>1
    <3> QED BY <2>1, <3>2
  <2>4. PICK f \in [1..n - 1 -> Seq(Names)] : \A k \in 1..n - 1 : f[k] = Turn(own, above, f, k)
    BY <2>3 DEF Climbed
  <2>5. PICK t : t = Turn(own, above, f, n)
    OBVIOUS
  <2>6. above[n] \in 0..n - 1
    BY <2>3
  <2>7. own[n] \in Seq(Names)
    BY <2>3
  <2>8. t \in Seq(Names)
    <3>1. CASE above[n] = 0
      BY <2>5, <2>7, <3>1 DEF Turn
    <3>2. CASE above[n] # 0
      <4>1. f[above[n]] \in Seq(Names)
        BY <2>3, <2>4, <2>6, <3>2
      <4> QED BY <2>5, <2>7, <3>2, <4>1 DEF Turn
    <3> QED BY <3>1, <3>2
  <2>9. PICK g : g = [k \in 1..n |-> IF k = n THEN t ELSE f[k]]
    OBVIOUS
  <2>10. g \in [1..n -> Seq(Names)]
    BY <2>3, <2>4, <2>8, <2>9
  <2>11. ASSUME NEW k \in 1..n PROVE g[k] = Turn(own, above, g, k)
    <3>1. above[k] \in 0..k - 1
      BY <2>3
    <3>2. ASSUME above[k] # 0 PROVE g[above[k]] = f[above[k]]
      <4>1. PICK a : a = above[k]
        OBVIOUS
      <4>2. n \in Nat /\ k \in Nat /\ k <= n /\ a \in Nat /\ a # 0 /\ a <= k - 1
        BY <2>3, <3>1, <3>2, <4>1
      <4>3. a \in 1..n /\ a # n
        BY <4>2
      <4> QED BY <2>9, <4>1, <4>3
    <3>3. Turn(own, above, g, k) = Turn(own, above, f, k)
      BY <3>2 DEF Turn
    <3>4. CASE k = n
      BY <2>5, <2>9, <3>3, <3>4
    <3>5. CASE k # n
      BY <2>3, <2>4, <2>9, <3>3, <3>5
    <3> QED BY <3>4, <3>5
  <2>12. Climbed(own, above, n)
    BY <2>10, <2>11 DEF Climbed
  <2> QED BY <2>1, <2>12
<1> QED BY <1>1

\* A climb goes to the parent and adds the entry's own name.
LEMMA ClimbInIs ==
  ASSUME Sane, NEW name, NEW hashed \in SUBSET LiveEntries, NEW i \in DOMAIN entries
  PROVE  /\ ClimbIn(name, hashed, i) \in Seq(Names)
         /\ ClimbIn(name, hashed, i) =
              IF AboveIn(hashed, i) = 0 THEN OwnIn(name, i)
              ELSE ClimbIn(name, hashed, AboveIn(hashed, i)) \o OwnIn(name, i)
<1>1. PICK N : N = Len(entries)
  OBVIOUS
<1>2. DOMAIN entries = 1..N /\ N \in Nat
  BY <1>1, EntriesAreEntries DEF Sane
<1>3. PICK own, above : /\ own = [k \in DOMAIN entries |-> OwnIn(name, k)]
                        /\ above = [k \in DOMAIN entries |-> AboveIn(hashed, k)]
  OBVIOUS
<1>4. \A k \in DOMAIN entries : own[k] = OwnIn(name, k) /\ above[k] = AboveIn(hashed, k)
  BY <1>3
<1>5. own \in [1..N -> Seq(Names)]
  <2>1. \A k : OwnIn(name, k) \in Seq(Names)
    BY DEF OwnIn
  <2> QED BY <1>2, <1>3, <2>1
<1>6. \A k \in 1..N : above[k] \in 0..k - 1
  BY <1>2, <1>4, AboveInOlder
<1> DEFINE Def(up) == up = [k \in DOMAIN entries |->
                              IF above[k] = 0 THEN own[k] ELSE up[above[k]] \o own[k]]
           Up == CHOOSE up : Def(up)
<1>7. PICK f \in [1..N -> Seq(Names)] : \A k \in 1..N : f[k] = Turn(own, above, f, k)
  <2>1. N \in 0..N
    BY <1>2
  <2>2. Climbed(own, above, N)
    BY <1>2, <1>5, <1>6, <2>1, ClimbsExist
  <2> QED BY <2>2 DEF Climbed
<1>8. Def(f)
  BY <1>2, <1>7 DEF Turn
<1>9. Def(Up)
  BY <1>8
<1>10. \A j : ClimbIn(name, hashed, j) = Up[j]
  <2> DEFINE Own1(k)   == IF name[k] \in Names THEN <<name[k]>> ELSE <<>>
             Above1(k) == IF entries[k].parent = 0 THEN 0
                          ELSE FirstInHash({a \in hashed :
                                              entries[a].handle = entries[k].parent})
             Def1(up) == up = [k \in DOMAIN entries |->
                                 IF Above1(k) = 0 THEN Own1(k) ELSE up[Above1(k)] \o Own1(k)]
  <2>1. \A k \in DOMAIN entries : Own1(k) = own[k] /\ Above1(k) = above[k]
    BY <1>4 DEF OwnIn, AboveIn
  <2>2. \A up : Def1(up) <=> Def(up)
    <3> TAKE up
    <3> HIDE DEF Own1, Above1
    <3> QED BY <2>1
  <2>3. \A j : ClimbIn(name, hashed, j) = (CHOOSE up : Def1(up))[j]
    BY DEF ClimbIn
  <2>4. (CHOOSE up : Def1(up)) = Up
    <3> HIDE DEF Def1, Def
    <3> QED BY <2>2
  <2> QED BY <2>3, <2>4
<1>11. \A k \in DOMAIN entries : Up[k] = IF above[k] = 0 THEN own[k] ELSE Up[above[k]] \o own[k]
  BY <1>9
<1>12. \A k \in DOMAIN entries : Up[k] = f[k]
  <2> DEFINE Differ == {k \in DOMAIN entries : Up[k] # f[k]}
  <2>1. ASSUME Differ # {} PROVE FALSE
    <3>1. Differ \subseteq Nat
      <4> HIDE DEF Up
      <4> QED BY <1>2
    <3>2. PICK k \in Differ : \A m \in Differ : k <= m
      <4> HIDE DEF Differ
      <4> QED BY <2>1, <3>1, LeastNatural
    <3>3. k \in DOMAIN entries /\ above[k] \in 0..k - 1
      BY <1>2, <1>6, <3>2
    <3>4. above[k] # 0 => above[k] \in DOMAIN entries /\ ~(k <= above[k])
      BY <1>2, <3>3
    <3>5. above[k] # 0 => Up[above[k]] = f[above[k]]
      BY <3>2, <3>4
    <3>6. f[k] = Turn(own, above, f, k)
      BY <1>2, <1>7, <3>3
    <3>7. Up[k] = f[k]
      <4> HIDE DEF Up
      <4> QED BY <1>11, <3>3, <3>5, <3>6 DEF Turn
    <3> QED BY <3>2, <3>7
  <2> QED BY <2>1
<1>13. Up[i] \in Seq(Names)
  <2> HIDE DEF Up
  <2> QED BY <1>2, <1>7, <1>12
<1>14. own[i] = OwnIn(name, i) /\ above[i] = AboveIn(hashed, i)
  BY <1>4
<1> HIDE DEF Up
<1> QED BY <1>10, <1>11, <1>13, <1>14

\* build_full_path climbs to the parent and adds the entry's own name.
LEMMA ClimbIs ==
  ASSUME Sane, NEW i \in DOMAIN entries
  PROVE  /\ Climb(i) \in Seq(Names)
         /\ Climb(i) = IF Above(i) = 0 THEN Own(i) ELSE Climb(Above(i)) \o Own(i)
<1>1. PICK name : name = [k \in DOMAIN entries |-> entries[k].name]
  OBVIOUS
<1>2. \A j : Climb(j) = ClimbIn(name, LiveEntries, j)
  BY <1>1 DEF Climb
<1>3. OwnIn(name, i) = Own(i)
  BY <1>1 DEF OwnIn, Own
<1>4. AboveIn(LiveEntries, i) = Above(i)
  BY DEF AboveIn, Above, get_entry_by_handle
<1> QED BY <1>2, <1>3, <1>4, ClimbInIs

-----------------------------------------------------------------------------
(* New entries.                                                             *)

\* The host was told of entry i, or will be: by the ObjectAdded event that the
\* inotify thread is about to push, by the listing under way or by the response
\* to SendObjectInfo.
Coming(i) ==
  \/ entries[i].handle \in told
  \/ ino.phase = "push" /\ ino.code = "ObjectAdded" /\ ino.handle = entries[i].handle
  \/ io.op = "listing" /\ io.parent = entries[i].parent /\ io.storage = entries[i].storage
  \/ io.op = "answering" /\ io.idx = i

\* A root entry, or an entry with the name of an object.
Named(e) == IF e.handle = 0 THEN e.parent = 0 /\ e.name = Root
            ELSE e.name \in Names \cup {NoName}

NewKnown(i) == Named(entries'[i]) /\ (entries'[i].handle # 0 => Coming(i)')

NewEntriesKnown == \A i \in Len(entries) + 1..Len(entries') : NewKnown(i)

\* A step that adds no entry.
LEMMA NoneNew ==
  ASSUME DbTypeOK, Len(entries') = Len(entries)
  PROVE  NewEntriesKnown
<1>1. Len(entries) + 1..Len(entries') = {}
  BY EntriesAreEntries
<1> QED BY <1>1 DEF NewEntriesKnown

\* A step that adds one entry.
LEMMA OneNew ==
  ASSUME DbTypeOK, NEW e, entries' = Append(entries, e), Named(e),
         \/ e.handle = 0
         \/ io'.op = "answering" /\ io'.idx = Len(entries) + 1
         \/ ino'.phase = "push" /\ ino'.code = "ObjectAdded" /\ ino'.handle = e.handle
  PROVE  NewEntriesKnown
<1>1. /\ Len(entries) + 1..Len(entries') = {Len(entries) + 1}
      /\ entries'[Len(entries) + 1] = e
  <2>1. Len(entries') = Len(entries) + 1 /\ entries'[Len(entries) + 1] = e
    BY DEF DbTypeOK
  <2> QED BY <2>1, EntriesAreEntries
<1>2. NewKnown(Len(entries) + 1)
  <2>1. PICK k : k = Len(entries) + 1
    OBVIOUS
  <2>2. entries'[k] = e
    BY <1>1, <2>1
  <2>3. e.handle # 0 => Coming(k)'
    BY <2>1, <2>2 DEF Coming
  <2>4. NewKnown(k)
    BY <2>2, <2>3 DEF NewKnown
  <2> QED BY <2>1, <2>4
<1> QED BY <1>1, <1>2 DEF NewEntriesKnown

\* What alloc_root_entry and alloc_entry make.
LEMMA Allocated ==
  ASSUME DbTypeOK
  PROVE  /\ \A s : alloc_root_entry(s).handle = 0 /\ Named(alloc_root_entry(s))
         /\ \A h, s, d : \A n \in Names \cup {NoName} :
              /\ alloc_entry(1, h, s, n, d).handle = next_handle
              /\ Named(alloc_entry(1, h, s, n, d))
<1>1. next_handle \in Nat \ {0}
  BY DEF DbTypeOK
<1>2. \A s : alloc_root_entry(s).handle = 0 /\ Named(alloc_root_entry(s))
  BY DEF alloc_root_entry, Named
<1>3. ASSUME NEW h, NEW s, NEW d, NEW n \in Names \cup {NoName}
      PROVE  /\ alloc_entry(1, h, s, n, d).handle = next_handle
             /\ Named(alloc_entry(1, h, s, n, d))
  <2>1. /\ alloc_entry(1, h, s, n, d).handle = next_handle
        /\ alloc_entry(1, h, s, n, d).name = n
    BY <1>1 DEF alloc_entry
  <2> QED BY <1>1, <2>1 DEF Named
<1> QED BY <1>2, <1>3

\* The listing under way will tell of what its scan added.
LEMMA ScanTells ==
  ASSUME DbTypeOK, NEW h \in Nat, NEW s \in Storages,
         h = 0 \/ \E j \in DOMAIN entries : entries[j].handle = h /\ entries[j].storage = s,
         ScanFolder(h, s)
  PROVE  NewEntriesKnown
<1>1. PICK size, news : size = Len(entries) /\ news = Cardinality(Fresh(h, s))
  OBVIOUS
<1>2. Len(entries') = size + news /\ size \in Nat /\ news \in Nat
  BY <1>1, ScanParts, FreshFinite, EntriesAreEntries
<1>3. PICK order \in SetToSeqs(Fresh(h, s)) :
        \A i \in size + 1..size + news : NewAfterScan(i, h, s, order)
  BY <1>1, ScanParts
<1>4. CASE IsDir(ScanPath(h, s))
  <2>1. PICK idx, path : idx = ScanIdx(h, s) /\ path = ScanPath(h, s)
    OBVIOUS
  <2>2. io' = [IoIdle EXCEPT !.op = "listing", !.idx = idx, !.parent = h,
                             !.storage = s, !.path = path]
    BY <1>4, <2>1 DEF ScanFolder, ScanIdx, ScanPath
  <2>3. io'.op = "listing" /\ io'.parent = h /\ io'.storage = s
    BY <2>2 DEF IoIdle
  <2>4. ASSUME NEW i \in size + 1..size + news PROVE NewKnown(i)
    <3>1. /\ entries'[i].parent = h /\ entries'[i].storage = s
          /\ entries'[i].name \in Names
          /\ entries'[i].handle = next_handle + (i - Len(entries)) - 1
      BY <1>3, FreshFinite DEF NewAfterScan
    <3>2. entries'[i].handle # 0
      <4>1. next_handle \in Nat \ {0} /\ i - Len(entries) \in Nat /\ i - Len(entries) >= 1
        BY <1>1, <1>2 DEF DbTypeOK
      <4> QED BY <3>1, <4>1
    <3> QED BY <2>3, <3>1, <3>2 DEF NewKnown, Named, Coming
  <2> QED BY <1>1, <1>2, <2>4 DEF NewEntriesKnown
<1>5. CASE ~IsDir(ScanPath(h, s))
  <2>1. Fresh(h, s) = {}
    BY <1>5 DEF Fresh
  <2>2. news = 0
    BY <1>1, <2>1, FS_EmptySet
  <2> QED BY <1>1, <1>2, <2>2, NoneNew
<1> QED BY <1>4, <1>5

\* Every step but a change of session tells, or is about to tell, of what it adds.
LEMMA StepTells ==
  ASSUME DbTypeOK, [Next]_vars
  PROVE  OpenSession \/ CloseSession \/ NewEntriesKnown
<1>1. ASSUME UNCHANGED entries PROVE NewEntriesKnown
  BY <1>1, NoneNew
<1>2. ASSUME NEW S, NEW U, entries' = Deleting(S, U) PROVE NewEntriesKnown
  <2>1. DOMAIN entries' = DOMAIN entries /\ entries' \in [1..Len(entries) -> {entries'[i] : i \in DOMAIN entries'}]
    BY <1>2, EntriesAreEntries DEF Deleting
  <2>2. Len(entries') = Len(entries)
    BY <2>1, EntriesAreEntries, FunctionIsSeq
  <2> QED BY <2>2, NoneNew
<1>3. ASSUME NEW k, NEW e, entries' = [entries EXCEPT ![k] = e] PROVE NewEntriesKnown
  <2>1. entries' \in [1..Len(entries) -> Entry \cup {e}]
    BY <1>3, EntriesAreEntries
  <2>2. Len(entries') = Len(entries)
    BY <2>1, EntriesAreEntries, FunctionIsSeq
  <2> QED BY <2>2, NoneNew
<1>4. ASSUME NEW s, mount_store(s) PROVE NewEntriesKnown
  <2>1. CASE UNCHANGED entries
    BY <1>1, <2>1
  <2>2. CASE entries' = Append(entries, alloc_root_entry(s))
    <3>1. PICK e : e = alloc_root_entry(s)
      OBVIOUS
    <3>2. entries' = Append(entries, e) /\ e.handle = 0 /\ Named(e)
      BY <2>2, <3>1, Allocated
    <3> QED BY <3>2, OneNew
  <2> QED BY <1>4, <2>1, <2>2 DEF mount_store
<1>5. ASSUME NEW s, umount_store(s) PROVE NewEntriesKnown
  BY <1>2, <1>5 DEF umount_store
<1>6. ASSUME NEW h, NEW s, NEW n \in Names, NEW d, add_entry(h, s, n, d) PROVE NewEntriesKnown
  <2>1. CASE find_entry(n, h, s) # 0
    <3>1. UNCHANGED entries
      BY <1>6, <2>1 DEF add_entry
    <3> QED BY <1>1, <3>1
  <2>2. CASE find_entry(n, h, s) = 0
    <3>1. PICK e : e = alloc_entry(1, h, s, n, d)
      OBVIOUS
    <3>2. /\ entries' = Append(entries, e)
          /\ io' = [IoIdle EXCEPT !.op = "answering", !.idx = Len(entries) + 1]
      BY <1>6, <2>2, <3>1 DEF add_entry
    <3>3. Named(e)
      BY <3>1, Allocated
    <3>4. io'.op = "answering" /\ io'.idx = Len(entries) + 1
      BY <3>2 DEF IoIdle
    <3> QED BY <3>2, <3>3, <3>4, OneNew
  <2> QED BY <2>1, <2>2
<1>7. CASE InotifyCreate
  <2> DEFINE i    == InotifyEntry
             seen == Head(events).name \in Listing(PathForInotify(i))
             n    == IF seen THEN Head(events).name ELSE NoName
  <2>1. n \in Names \cup {NoName}
    BY DEF Listing
  <2>2. CASE FoundByInotify(n, entries[i].handle, entries[i].storage) # 0
    BY <1>1, <1>7, <2>2 DEF InotifyCreate
  <2>3. CASE FoundByInotify(n, entries[i].handle, entries[i].storage) = 0
    <3>1. /\ \E d : entries' = Append(entries, alloc_entry(1, entries[i].handle,
                                                           entries[i].storage, n, d))
          /\ InotifyMoves(i, "ObjectAdded", next_handle)
      BY <1>7, <2>3 DEF InotifyCreate
    <3> HIDE DEF n, i
    <3>2. PICK e, d : /\ e = alloc_entry(1, entries[i].handle, entries[i].storage, n, d)
                      /\ entries' = Append(entries, e)
      BY <3>1
    <3>3. e.handle = next_handle /\ Named(e)
      BY <2>1, <3>2, Allocated
    <3>4. ino'.phase = "push" /\ ino'.code = "ObjectAdded" /\ ino'.handle = next_handle
      BY <3>1 DEF InotifyMoves
    <3> QED BY <3>2, <3>3, <3>4, OneNew
  <2> QED BY <2>2, <2>3
<1>8. CASE Inotify
  <2>1. CASE InotifySkip \/ InotifyModify \/ InotifyPush
    BY <1>1, <2>1 DEF InotifySkip, InotifyModify, InotifyPush, dbVars
  <2>2. CASE InotifyDelete
    BY <1>1, <1>2, <2>2 DEF InotifyDelete
  <2> QED BY <1>7, <1>8, <2>1, <2>2 DEF Inotify
<1>9. CASE MsgQueue
  <2>1. CASE \E s \in Storages : Mount(s) \/ Unmount(s)
    BY <1>4, <1>5, <2>1 DEF Mount, Unmount
  <2>2. CASE \E cmd \in {"lock", "unlock"} : LockCommand(cmd)
    BY <1>1, <2>2 DEF LockCommand, dbVars
  <2>3. CASE LockStep
    BY <1>1, <1>4, <1>5, <2>3 DEF LockStep
  <2> QED BY <1>9, <2>1, <2>2, <2>3 DEF MsgQueue
<1>10. CASE LocalUser
  BY <1>1, <1>10 DEF LocalUser, LocalCreate, LocalRemove, LocalMove, LocalWrite, Local, dbVars
<1>11. CASE Host
  <2>1. CASE RegisterWatch
    <3>1. UNCHANGED entries \/ \E k, w : entries' = [entries EXCEPT ![k].wd = w]
      BY <2>1 DEF RegisterWatch
    <3>2. UNCHANGED entries \/ \E k, e : entries' = [entries EXCEPT ![k] = e]
      BY <3>1
    <3> QED BY <1>1, <1>3, <3>2
  <2>2. CASE RenameInsert
    <3>1. \E k, e : entries' = [entries EXCEPT ![k] = e]
      BY <2>2 DEF RenameInsert
    <3> QED BY <1>3, <3>1
  <2>3. CASE SendObject
    BY <1>1, <2>3 DEF SendObject, dbVars
  <2>4. CASE \E s \in Storages : ScanFolder(0, s)
    BY <2>4, ScanTells
  <2>5. CASE \E i \in DOMAIN entries : /\ entries[i].handle # 0
                                       /\ ScanFolder(entries[i].handle, entries[i].storage)
    <3>1. PICK i \in DOMAIN entries : ScanFolder(entries[i].handle, entries[i].storage)
      BY <2>5
    <3>2. entries[i].handle \in Nat /\ entries[i].storage \in Storages
      BY EntriesAreEntries DEF Entry, Handles
    <3> QED BY <3>1, <3>2, ScanTells
  <2>6. ASSUME NEW s, NEW h, NEW n \in Names, NEW kind, SendObjectInfo(s, h, n, kind)
        PROVE  NewEntriesKnown
    <3>1. UNCHANGED entries \/ \E d : add_entry(h, s, n, d)
      BY <2>6 DEF SendObjectInfo
    <3> QED BY <1>1, <1>6, <3>1
  <2>7. ASSUME NEW h, SendPartialObject(h) \/ DeleteObject(h) PROVE NewEntriesKnown
    <3>1. UNCHANGED entries \/ \E S, U : entries' = Deleting(S, U)
      BY <2>7 DEF SendPartialObject, DeleteObject, dbVars
    <3> QED BY <1>1, <1>2, <3>1
  <2>8. CASE SendResponse \/ RenameOnDisk \/ Renamer
    <3>1. UNCHANGED entries
      BY <2>8, RenamerKeeps DEF SendResponse, RenameOnDisk, dbVars
    <3> QED BY <1>1, <3>1
  <2> QED BY <1>11, <2>1, <2>2, <2>3, <2>4, <2>5, <2>6, <2>7, <2>8 DEF Host, Renamer
<1>12. CASE UNCHANGED vars
  BY <1>1, <1>12 DEF vars, dbVars
<1> QED BY <1>8, <1>9, <1>10, <1>11, <1>12 DEF Next

-----------------------------------------------------------------------------
(* The names of the entries, and who uses io between two steps.             *)

\* The names of the database: a root entry has no folder and the name Root, an
\* object has the name of an object or none; only an object is renamed.
NamesKnown ==
  /\ \A i \in DOMAIN entries : Named(entries[i])
  /\ io.op \in RenameOps => entries[io.idx].handle # 0

\* GetObjectHandles of a folder h of storage s, as a host may ask for it.
HostScans(h, s) ==
  /\ h \in Nat /\ s \in Storages
  /\ h = 0 \/ \E j \in DOMAIN entries : entries[j].handle = h /\ entries[j].storage = s
  /\ ScanFolder(h, s)

\* The operations of two steps.
LEMMA IoChanges ==
  ASSUME DbTypeOK, [Next]_vars
  PROVE  \/ io' = io \/ RegisterWatch \/ RenameInsert \/ SendResponse
         \/ io.op = "idle" /\ io'.op = "answering"
         \/ \E h, s : HostScans(h, s)
         \/ Renamer \/ RenameOnDisk
<1>1. CASE Host
  <2>1. CASE OpenSession \/ CloseSession \/ SendObject
    BY <2>1 DEF OpenSession, CloseSession, SendObject
  <2>2. CASE \E s \in Storages : ScanFolder(0, s)
    BY <2>2 DEF HostScans
  <2>3. CASE \E i \in DOMAIN entries : /\ entries[i].handle # 0
                                       /\ ScanFolder(entries[i].handle, entries[i].storage)
    <3>1. PICK i \in DOMAIN entries : ScanFolder(entries[i].handle, entries[i].storage)
      BY <2>3
    <3>2. entries[i].handle \in Nat /\ entries[i].storage \in Storages
      BY EntriesAreEntries DEF Entry, Handles
    <3> QED BY <3>1, <3>2 DEF HostScans
  <2>4. ASSUME NEW s, NEW h, NEW n, NEW kind, SendObjectInfo(s, h, n, kind)
        PROVE  io' = io \/ (io.op = "idle" /\ io'.op = "answering")
    <3>1. \A d : add_entry(h, s, n, d) => io'.op = "answering"
      BY DEF add_entry, IoIdle
    <3>2. io.op = "idle"
      BY <2>4 DEF SendObjectInfo, IoReady
    <3>3. UNCHANGED io \/ \E d : add_entry(h, s, n, d)
      BY <2>4 DEF SendObjectInfo
    <3> QED BY <3>1, <3>2, <3>3
  <2>5. ASSUME NEW h, SendPartialObject(h) \/ DeleteObject(h) PROVE io' = io
    BY <2>5 DEF SendPartialObject, DeleteObject
  <2> QED BY <1>1, <2>1, <2>2, <2>3, <2>4, <2>5 DEF Host, Renamer
<1>2. CASE Inotify
  BY <1>2 DEF Inotify, InotifySkip, InotifyCreate, InotifyModify, InotifyDelete,
              InotifyPush, InotifyTurn
<1>3. CASE MsgQueue
  BY <1>3 DEF MsgQueue, Mount, Unmount, LockCommand, LockStep, Command
<1>4. CASE LocalUser
  BY <1>4 DEF LocalUser, LocalCreate, LocalRemove, LocalMove, LocalWrite, Local
<1>5. CASE UNCHANGED vars
  BY <1>5 DEF vars
<1> QED BY <1>1, <1>2, <1>3, <1>4, <1>5 DEF Next

\* Every step keeps NamesKnown.
LEMMA NamesKnownStep ==
  ASSUME DbTypeOK, NamesKnown, [Next]_vars
  PROVE  NamesKnown'
<1>1. CASE OpenSession
  <2>1. io' = io /\ io.op = "idle"
    BY <1>1 DEF OpenSession, IoReady
  <2>2. \A i \in DOMAIN entries' : Named(entries'[i])
    BY <1>1, Allocated DEF OpenSession
  <2> QED BY <2>1, <2>2 DEF NamesKnown, RenameOps
<1>2. CASE CloseSession
  <2>1. io' = io /\ io.op = "idle" /\ entries' = <<>>
    BY <1>2 DEF CloseSession, IoReady
  <2> QED BY <2>1 DEF NamesKnown, RenameOps
<1>3. CASE DbStep /\ (RenameInsert \/ NamesStep) /\ NewEntriesKnown
  <2>1. \A i \in DOMAIN entries : Kept(i)
    BY <1>3 DEF DbStep
  <2>2. ASSUME NEW i \in DOMAIN entries' PROVE Named(entries'[i])
    <3>1. CASE i \notin DOMAIN entries
      <4>1. i \in Len(entries) + 1..Len(entries')
        <5>1. DOMAIN entries = 1..Len(entries) /\ Len(entries) \in Nat
          BY EntriesAreEntries
        <5>2. DOMAIN entries' = 1..Len(entries') /\ Len(entries') \in Nat
          BY <1>3 DEF DbStep
        <5> QED BY <3>1, <5>1, <5>2
      <4> QED BY <1>3, <4>1 DEF NewEntriesKnown, NewKnown
    <3>2. CASE i \in DOMAIN entries
      <4>1. /\ entries'[i].handle = entries[i].handle
            /\ entries'[i].parent = entries[i].parent /\ Named(entries[i])
        BY <2>1, <3>2 DEF Kept, NamesKnown
      <4>2. CASE entries'[i].name = entries[i].name
        BY <4>1, <4>2 DEF Named
      <4>3. CASE RenameInsert /\ entries'[i].name # entries[i].name
        <5>1. PICK k, g : entries' = [entries EXCEPT ![k] = [@ EXCEPT !.name = io.name, !.gen = g]]
                          /\ k = io.idx /\ io.op = "named"
          BY <4>3 DEF RenameInsert
        <5>2. i = k
          BY <3>2, <4>3, <5>1
        <5>3. entries'[i] = [entries[i] EXCEPT !.name = io.name, !.gen = g]
          BY <3>2, <5>1, <5>2
        <5>4. entries[i] \in Entry /\ io.name \in Names /\ entries[i].handle # 0
          BY <3>2, <5>1, <5>2, EntriesAreEntries DEF NamesKnown, DbTypeOK, RenameOps
        <5>5. entries'[i].name = io.name
          BY <5>3, <5>4 DEF Entry
        <5> QED BY <4>1, <5>4, <5>5 DEF Named
      <4> QED BY <1>3, <3>2, <4>2, <4>3 DEF NamesStep
    <3> QED BY <3>1, <3>2
  <2>3. io'.op \in RenameOps => entries'[io'.idx].handle # 0
    <3> SUFFICES ASSUME io'.op \in RenameOps PROVE entries'[io'.idx].handle # 0
      OBVIOUS
    <3>1. CASE io.op \in RenameOps /\ io'.idx = io.idx
      <4>1. io.idx \in DOMAIN entries /\ entries[io.idx].handle # 0
        BY <3>1, EntriesAreEntries DEF NamesKnown, DbTypeOK, RenameOps
      <4> QED BY <2>1, <3>1, <4>1 DEF Kept
    <3>2. CASE RegisterWatch \/ RenameInsert \/ SendResponse \/ io'.op = "answering"
      BY <3>2 DEF RegisterWatch, RenameInsert, SendResponse, IoIdle, RenameOps
    <3>3. CASE \E h, s : HostScans(h, s)
      BY <3>3 DEF HostScans, ScanFolder, IoIdle, RenameOps
    <3>4. CASE Renamer \/ RenameOnDisk
      <4>1. CASE io'.idx \in LiveEntries /\ entries[io'.idx].handle # 0
        BY <2>1, <4>1 DEF Kept, LiveEntries
      <4>2. ~(io' = IoIdle)
        BY DEF IoIdle, RenameOps
      <4> QED BY <3>1, <3>4, <4>1, <4>2, RenamerIo
    <3> QED BY <3>1, <3>2, <3>3, <3>4, IoChanges
  <2> QED BY <2>2, <2>3 DEF NamesKnown
<1> QED BY <1>1, <1>2, <1>3, NextStep, StepTells

-----------------------------------------------------------------------------
(* ListingExact.                                                            *)

\* A path and one more name.
LEMMA OneMore ==
  ASSUME NEW S, NEW p \in Seq(S), NEW n \in S
  PROVE  /\ Append(p, n) \in Seq(S) /\ Append(p, n) # <<>> /\ Append(p, n) = p \o <<n>>
         /\ Len(Append(p, n)) = Len(p) + 1
         /\ Front(Append(p, n)) = p /\ Last(Append(p, n)) = n
<1>1. /\ Append(p, n) \in Seq(S) /\ Len(Append(p, n)) = Len(p) + 1
      /\ \A k \in 1..Len(p) : Append(p, n)[k] = p[k]
      /\ Append(p, n)[Len(p) + 1] = n
  BY AppendProperties
<1>2. Len(p) \in Nat
  OBVIOUS
<1>3. Append(p, n) # <<>>
  BY <1>1, <1>2
<1>4. Append(p, n) = p \o <<n>>
  OBVIOUS
<1>5. Front(Append(p, n)) = p
  BY <1>1, <1>2 DEF Front
<1>6. Last(Append(p, n)) = n
  BY <1>1 DEF Last
<1> QED BY <1>1, <1>3, <1>4, <1>5, <1>6

\* That path is the one of the folder and the entry's own name.
LEMMA PathOfChild ==
  ASSUME Sane, NEW c \in DOMAIN entries
  PROVE  /\ PathOf(c) \in Seq(Storages \cup Names)
         /\ entries[c].name \in Names =>
              PathOf(c) = Append(IF Above(c) = 0 THEN <<entries[c].storage>>
                                 ELSE PathOf(Above(c)), entries[c].name)
<1>1. entries[c].storage \in Storages /\ DOMAIN entries = 1..Len(entries)
  BY EntriesAreEntries DEF Sane, Entry
<1>2. Climb(c) \in Seq(Names)
  BY ClimbIs
<1>3. PICK s \in Storages, q \in Seq(Names) : s = entries[c].storage /\ q = Climb(c)
  BY <1>1, <1>2
<1>4. PathOf(c) = <<s>> \o q
  BY <1>3 DEF PathOf
<1>5. <<s>> \in Seq(Storages \cup Names) /\ q \in Seq(Storages \cup Names)
  OBVIOUS
<1>6. PathOf(c) \in Seq(Storages \cup Names)
  BY <1>4, <1>5, ConcatProperties
<1>7. ASSUME NEW n \in Names, n = entries[c].name
      PROVE  PathOf(c) = Append(IF Above(c) = 0 THEN <<s>> ELSE PathOf(Above(c)), n)
  <2>1. Own(c) = <<n>>
    BY <1>7 DEF Own
  <2>2. CASE Above(c) = 0
    <3>1. q = <<n>>
      BY <1>3, <2>1, <2>2, ClimbIs
    <3>2. PathOf(c) = <<s>> \o <<n>>
      BY <1>4, <3>1
    <3>3. <<s>> \in Seq(Storages \cup Names) /\ n \in Storages \cup Names
      OBVIOUS
    <3>4. Append(<<s>>, n) = <<s>> \o <<n>>
      BY <3>3, OneMore
    <3> QED BY <2>2, <3>2, <3>4
  <2>3. CASE Above(c) # 0
    <3>1. PICK a : a = Above(c)
      OBVIOUS
    <3>2. a \in DOMAIN entries /\ entries[a].storage = s
      BY <1>3, <2>3, <3>1, AboveOlder DEF LiveEntries
    <3>3. PICK r \in Seq(Names) : r = Climb(a)
      BY <3>2, ClimbIs
    <3>4. q = r \o <<n>>
      BY <1>3, <2>1, <2>3, <3>1, <3>3, ClimbIs
    <3>5. PathOf(a) = <<s>> \o r
      BY <3>2, <3>3 DEF PathOf
    <3>6. /\ <<s>> \in Seq(Storages \cup Names) /\ r \in Seq(Storages \cup Names)
          /\ <<n>> \in Seq(Storages \cup Names) /\ n \in Storages \cup Names
      OBVIOUS
    <3>7. (<<s>> \o r) \o <<n>> = <<s>> \o (r \o <<n>>)
      BY <3>6, ConcatAssociative
    <3>8. PathOf(a) \in Seq(Storages \cup Names)
      BY <3>5, <3>6, ConcatProperties
    <3>9. Append(PathOf(a), n) = PathOf(a) \o <<n>>
      BY <3>6, <3>8, OneMore
    <3> QED BY <1>4, <2>3, <3>1, <3>4, <3>5, <3>7, <3>9
  <2> QED BY <2>2, <2>3
<1> QED BY <1>3, <1>6, <1>7

\* A named child of a folder that is there has the folder's path and its name.
LEMMA ScannedChild ==
  ASSUME Sane, NEW h, NEW s \in Storages, NEW path, path = ScanPath(h, s),
         path # <<>>, IsDir(path),
         NEW c \in ChildrenInDb(h, s), NEW n \in Names, n = entries[c].name
  PROVE  /\ path \in Seq(Storages \cup Names)
         /\ build_full_path(c) = Append(path, n) /\ Append(path, n) # <<>>
<1>1. /\ c \in DOMAIN entries /\ entries[c].parent = h /\ entries[c].storage = s
      /\ DOMAIN entries = 1..Len(entries) /\ c # 0
  BY EntriesAreEntries DEF ChildrenInDb, LiveEntries, Sane
<1>2. path = IF Above(c) = 0 THEN <<s>> ELSE PathOf(Above(c))
  <2>1. CASE h = 0
    BY <1>1, <2>1 DEF ScanPath, Above
  <2>2. CASE h # 0
    <3>1. PICK a : a = get_entry_by_handle(h)
      OBVIOUS
    <3>2. Above(c) = a /\ path = build_full_path(a)
      BY <1>1, <2>2, <3>1 DEF Above, ScanPath, ScanIdx
    <3>3. a # 0
      BY <3>2, ResolvedIsEntry
    <3>4. path = PathOf(a)
      BY <3>2, <3>3 DEF build_full_path, Resolved, PathOf
    <3> QED BY <3>2, <3>3, <3>4
  <2> QED BY <2>1, <2>2
<1>3. path \in Seq(Storages \cup Names)
  <2>1. CASE Above(c) = 0
    BY <1>2, <2>1
  <2>2. CASE Above(c) # 0
    <3>1. Above(c) \in DOMAIN entries
      BY <1>1, <2>2, AboveOlder DEF LiveEntries
    <3>2. path = PathOf(Above(c))
      BY <1>2, <2>2
    <3> QED BY <3>1, <3>2, PathOfChild
  <2> QED BY <2>1, <2>2
<1>4. PathOf(c) = Append(path, n)
  BY <1>1, <1>2, PathOfChild
<1>5. PICK p : p = Append(path, n)
  OBVIOUS
<1>6. p # <<>> /\ Len(p) > 1 /\ Front(p) = path
  <2>1. PICK S : S = Storages \cup Names
    OBVIOUS
  <2>2. Len(path) \in Nat /\ Len(path) # 0
    BY <1>3, EmptySeq
  <2>3. /\ Append(path, n) # <<>> /\ Len(Append(path, n)) = Len(path) + 1
        /\ Front(Append(path, n)) = path
    <3>1. path \in Seq(S) /\ n \in S
      BY <1>3, <2>1
    <3> QED BY <3>1, OneMore
  <2>4. Len(p) > 1
    BY <1>5, <2>2, <2>3
  <2> QED BY <1>5, <2>3, <2>4
<1>7. Resolved(p, TRUE) = p
  BY <1>6 DEF Resolved
<1>8. build_full_path(c) = Resolved(p, TRUE)
  <2>1. build_full_path(c) = Resolved(PathOf(c), entries[c].name \in Names)
    BY <1>1 DEF build_full_path
  <2> QED BY <1>4, <1>5, <2>1
<1> QED BY <1>3, <1>5, <1>6, <1>7, <1>8

\* A scan leaves the folder, in the database, with the names it read.
LEMMA ScanExact ==
  ASSUME Sane, NamesKnown, NEW h, NEW s, HostScans(h, s), io'.op = "listing"
  PROVE  DbNames(io.parent, io.storage)' = Listing(io.path)'
<1>1. PICK path, idx : path = ScanPath(h, s) /\ idx = ScanIdx(h, s)
  OBVIOUS
<1>2. /\ h \in Nat /\ s \in Storages /\ DbTypeOK
      /\ h = 0 \/ \E j \in DOMAIN entries : entries[j].handle = h /\ entries[j].storage = s
  BY DEF HostScans, Sane
<1>3. IsDir(path) /\ path # <<>> /\ disk' = disk
  BY <1>1 DEF HostScans, ScanFolder, ScanPath, ScanIdx, IoIdle
<1>4. io'.parent = h /\ io'.storage = s /\ io'.path = path
  <2>1. io' = [IoIdle EXCEPT !.op = "listing", !.idx = idx, !.parent = h,
                             !.storage = s, !.path = path]
    BY <1>1, <1>3 DEF HostScans, ScanFolder, ScanPath, ScanIdx
  <2> QED BY <2>1 DEF IoIdle
<1>5. PICK size, news : size = Len(entries) /\ news = Cardinality(Fresh(h, s))
  OBVIOUS
<1>6. /\ entries' \in Seq(Entry) /\ Len(entries') = size + news
      /\ \A i \in DOMAIN entries : OldAfterScan(i, Gone(h, s))
  BY <1>2, <1>5, ScanParts DEF HostScans
<1>7. PICK order \in SetToSeqs(Fresh(h, s)) :
        \A i \in size + 1..size + news : NewAfterScan(i, h, s, order)
  BY <1>2, <1>5, ScanParts DEF HostScans
<1>8. /\ size \in Nat /\ news \in Nat /\ DOMAIN entries = 1..size
      /\ DOMAIN entries' = 1..size + news /\ next_handle \in Nat \ {0}
  BY <1>2, <1>5, <1>6, FreshFinite, EntriesAreEntries DEF DbTypeOK
<1>9. Listing(path)' = Listing(path)
  BY <1>3 DEF Listing
\* The children of the folder after the scan.
<1>10. ASSUME NEW c \in DOMAIN entries
       PROVE  c \in ChildrenInDb(h, s)' <=> c \in ChildrenInDb(h, s) \ Gone(h, s)
  <2>1. c \in DOMAIN entries'
    BY <1>8
  <2> QED BY <1>6, <2>1 DEF ChildrenInDb, LiveEntries, Live, OldAfterScan, Kept
<1>11. ASSUME NEW c \in size + 1..size + news
       PROVE  /\ c \in ChildrenInDb(h, s)'
              /\ entries'[c].name = order[c - size] /\ order[c - size] \in Fresh(h, s)
  <2>1. /\ ~entries'[c].deleted /\ entries'[c].parent = h /\ entries'[c].storage = s
        /\ entries'[c].handle = next_handle + (c - size) - 1
        /\ entries'[c].name = order[c - size] /\ order[c - size] \in Fresh(h, s)
    BY <1>5, <1>7 DEF NewAfterScan
  <2>2. h < next_handle
    BY <1>2, <1>8 DEF Sane, HandlesUnique
  <2>3. entries'[c].handle # h
    BY <1>2, <1>8, <2>1, <2>2
  <2> QED BY <1>8, <2>1, <2>3 DEF ChildrenInDb, LiveEntries, Live
\* Each has the name of an object of the folder, or none.
<1>12. ASSUME NEW c \in ChildrenInDb(h, s)', entries'[c].name # NoName
       PROVE  entries'[c].name \in Listing(path)
  <2>1. c \in 1..size + news
    BY <1>8 DEF ChildrenInDb, LiveEntries
  <2>2. CASE c \in DOMAIN entries
    <3>1. c \in ChildrenInDb(h, s) /\ c \notin Gone(h, s)
      BY <1>10, <2>2
    <3>2. PICK n : n = entries[c].name
      OBVIOUS
    <3>3. entries'[c].name = n
      BY <1>6, <2>2, <3>2 DEF OldAfterScan
    <3>4. n \in Names
      <4>1. /\ entries[c].parent = h /\ entries[c].handle # entries[c].parent
            /\ Named(entries[c])
        BY <2>2, <3>1 DEF ChildrenInDb, NamesKnown
      <4> QED BY <1>12, <3>2, <3>3, <4>1 DEF Named
    <3>5. build_full_path(c) = Append(path, n) /\ Append(path, n) # <<>>
      BY <1>1, <1>2, <1>3, <3>1, <3>2, <3>4, ScannedChild
    <3>6. Append(path, n) \in DOMAIN disk
      BY <3>1, <3>5 DEF Gone
    <3> QED BY <3>3, <3>4, <3>6 DEF Listing
  <2>3. CASE c \notin DOMAIN entries
    <3>1. c \in size + 1..size + news
      BY <1>8, <2>1, <2>3
    <3>2. entries'[c].name \in Fresh(h, s)
      BY <1>11, <3>1
    <3> QED BY <1>1, <3>2 DEF Fresh
  <2> QED BY <2>2, <2>3
\* Each object of the folder has an entry.
<1>13. ASSUME NEW n \in Listing(path)
       PROVE  \E c \in ChildrenInDb(h, s)' : entries'[c].name = n
  <2>1. n \in Names /\ Append(path, n) \in DOMAIN disk
    BY DEF Listing
  <2>2. CASE n \in Fresh(h, s)
    <3>1. PICK k \in 1..news : order[k] = n
      <4>1. PICK F : F = Fresh(h, s)
        OBVIOUS
      <4>2. order \in [1..news -> F] /\ \A a, b \in 1..news : a # b => order[a] # order[b]
        BY <1>5, <1>7, <4>1 DEF SetToSeqs
      <4>3. order \in Injection(1..news, F)
        BY <4>2 DEF Injection, IsInjective
      <4>4. Cardinality(1..news) = news /\ IsFiniteSet(F) /\ Cardinality(F) = news
        BY <1>5, <1>8, <4>1, FreshFinite, FS_Interval
      <4>5. order \in Surjection(1..news, F)
        BY <4>3, <4>4, FS_Injection
      <4> QED BY <2>2, <4>1, <4>5 DEF Surjection
    <3>2. k + size \in size + 1..size + news /\ (k + size) - size = k
      BY <1>8
    <3> QED BY <1>11, <3>1, <3>2
  <2>3. CASE n \notin Fresh(h, s)
    <3>1. PICK c : c = find_entry(n, h, s)
      OBVIOUS
    <3>2. c # 0
      BY <1>1, <1>3, <2>3, <3>1 DEF Fresh
    <3>3. /\ c \in LiveEntries /\ entries[c].name = n /\ entries[c].parent = h
          /\ entries[c].storage = s
      BY <1>2, <3>1, <3>2, LookupsFind DEF DbTypeOK
    <3>4. c \in DOMAIN entries
      BY <3>3 DEF LiveEntries
    <3>5. entries[c].handle # h
      <4>1. CASE entries[c].handle = 0
        <5>1. entries[c].name = Root
          BY <3>4, <4>1 DEF NamesKnown, Named
        <5> QED BY <2>1, <3>3, <5>1, ConstantsAssumption
      <4>2. CASE entries[c].handle # 0
        <5> SUFFICES ASSUME entries[c].handle = h PROVE FALSE
          OBVIOUS
        <5>1. PICK j \in 1..(c - 1) : entries[j].handle = entries[c].parent
          BY <3>3, <3>4, <4>2 DEF Sane, ParentsOlder
        <5>2. j \in DOMAIN entries /\ j # c
          BY <1>8, <3>4
        <5> QED BY <3>3, <3>4, <4>2, <5>1, <5>2 DEF Sane, HandlesUnique
      <4> QED BY <4>1, <4>2
    <3>6. c \in ChildrenInDb(h, s)
      BY <3>3, <3>5 DEF ChildrenInDb
    <3>7. build_full_path(c) = Append(path, n)
      BY <1>1, <1>2, <1>3, <2>1, <3>3, <3>6, ScannedChild
    <3>8. c \notin Gone(h, s)
      BY <2>1, <3>7 DEF Gone
    <3>9. entries'[c].name = n
      BY <1>6, <3>3, <3>4 DEF OldAfterScan
    <3> QED BY <1>10, <3>4, <3>6, <3>8, <3>9
  <2> QED BY <2>2, <2>3
<1>14. DbNames(h, s)' = Listing(path)
  <2>1. NoName \notin Listing(path)
    BY ConstantsAssumption DEF Listing
  <2> QED BY <1>12, <1>13, <2>1 DEF DbNames
<1>15. DbNames(io.parent, io.storage)' = DbNames(h, s)'
  BY <1>4 DEF DbNames, ChildrenInDb
<1>16. Listing(io.path)' = Listing(path)'
  BY <1>4 DEF Listing
<1> QED BY <1>9, <1>14, <1>15, <1>16

\* Sane, with the names.
Listed == Sane /\ NamesKnown

\* Listed is inductive.
LEMMA ListedCorrect == Spec => []Listed
<1>1. Init => Listed
  BY InitTyped DEF Init, Listed, Sane, HandlesUnique, ParentsOlder, NamesKnown, IoIdle, RenameOps
<1>2. Listed /\ [Next]_vars => Listed'
  BY NextStep, HandlesUniqueStep, ParentsOlderStep, ResetIsFresh, NamesKnownStep
     DEF Listed, Sane
<1> QED BY <1>1, <1>2, PTL DEF Spec

\* The reply to GetObjectHandles that is under way has exactly the names the
\* folder had when it was scanned, whatever inotify events are waiting.
THEOREM ListingExactCorrect == Spec => ListingExact
<1>1. Listed /\ [Next]_vars =>
        [io.op = "idle" /\ io'.op = "listing" =>
           DbNames(io.parent, io.storage)' = Listing(io.path)']_vars
  <2> SUFFICES ASSUME Listed, [Next]_vars, io.op = "idle", io'.op = "listing"
               PROVE  DbNames(io.parent, io.storage)' = Listing(io.path)'
    OBVIOUS
  <2>1. DbTypeOK
    BY DEF Listed, Sane
  <2>2. ~RegisterWatch /\ ~RenameInsert /\ ~SendResponse /\ io' # io
    BY DEF RegisterWatch, RenameInsert, SendResponse
  <2>3. ~Renamer /\ ~RenameOnDisk
    BY <2>1, RenamerIo DEF IoIdle, RenameOps
  <2>4. PICK h, s : HostScans(h, s)
    BY <2>1, <2>2, <2>3, IoChanges
  <2> QED BY <2>4, ScanExact DEF Listed
<1> QED BY <1>1, ListedCorrect, PTL DEF Spec, ListingExact

----------------------------------------------------------------------------
(* Prefixes of sequences, and what a rename makes of the paths below it.     *)

\* IsPrefix, element by element.
LEMMA PrefixIs ==
  ASSUME NEW S, NEW p \in Seq(S), NEW q \in Seq(S)
  PROVE  IsPrefix(p, q) <=> Len(p) <= Len(q) /\ \A k \in 1..Len(p) : p[k] = q[k]
<1>1. Len(p) \in Nat /\ Len(q) \in Nat
  OBVIOUS
<1>2. SubSeq(p, 1, Len(p)) = p
  BY SubSeqFull
<1>3. CASE Len(p) <= Len(q)
  <2>1. \A k \in 1..Len(p) : q[k] \in S
    BY <1>1, <1>3
  <2>2. PICK t : t = SubSeq(q, 1, Len(p))
    OBVIOUS
  <2>3. t \in Seq(S) /\ Len(t) = Len(p) /\ \A k \in 1..Len(p) : t[k] = q[k]
    <3>1. PICK n \in Nat : n = Len(p)
      BY <1>1
    <3>2. \A k \in 1..n : q[k] \in S
      BY <2>1, <3>1
    <3>3. /\ SubSeq(q, 1, n) \in Seq(S) /\ Len(SubSeq(q, 1, n)) = IF 1 <= n THEN n - 1 + 1 ELSE 0
          /\ \A k \in 1..n - 1 + 1 : SubSeq(q, 1, n)[k] = q[1 + k - 1]
      BY <3>2, SubSeqProperties
    <3>4. \A k \in 1..n : 1 + k - 1 = k /\ k \in 1..n - 1 + 1
      OBVIOUS
    <3>5. Len(t) = n
      BY <2>2, <3>1, <3>3
    <3>6. ASSUME NEW k \in 1..n PROVE t[k] = q[k]
      BY <2>2, <3>1, <3>3, <3>4
    <3> QED BY <2>2, <3>1, <3>3, <3>5, <3>6
  <2>4. p = t <=> \A k \in 1..Len(p) : p[k] = t[k]
    BY <2>3, SeqEqual
  <2> QED BY <1>2, <1>3, <2>2, <2>3, <2>4 DEF IsPrefix
<1>4. CASE ~(Len(p) <= Len(q))
  BY <1>4 DEF IsPrefix
<1> QED BY <1>3, <1>4

\* Front and Last take a sequence apart.
LEMMA FrontIs ==
  ASSUME NEW S, NEW p \in Seq(S), p # <<>>
  PROVE  /\ Front(p) \in Seq(S) /\ Len(Front(p)) = Len(p) - 1
         /\ \A k \in 1..Len(p) - 1 : Front(p)[k] = p[k]
         /\ Last(p) \in S /\ Last(p) = p[Len(p)]
         /\ Append(Front(p), Last(p)) = p
<1>1. PICK n \in Nat : n = Len(p)
  OBVIOUS
<1>2. n # 0
  BY <1>1, EmptySeq
<1>3. \A k \in 1..n - 1 : p[k] \in S
  BY <1>1
<1>4. /\ SubSeq(p, 1, n - 1) \in Seq(S)
      /\ Len(SubSeq(p, 1, n - 1)) = IF 1 <= n - 1 THEN n - 1 - 1 + 1 ELSE 0
      /\ \A k \in 1..n - 1 - 1 + 1 : SubSeq(p, 1, n - 1)[k] = p[1 + k - 1]
  BY <1>3, SubSeqProperties
<1>5. PICK f \in Seq(S) : f = Front(p)
  BY <1>1, <1>4 DEF Front
<1>6. Len(f) = n - 1
  BY <1>1, <1>2, <1>4, <1>5 DEF Front
<1>7. ASSUME NEW k \in 1..n - 1 PROVE f[k] = p[k]
  <2>1. k \in 1..n - 1 - 1 + 1 /\ 1 + k - 1 = k
    OBVIOUS
  <2> QED BY <1>1, <1>4, <1>5, <2>1 DEF Front
<1>8. Last(p) \in S /\ Last(p) = p[n]
  BY <1>1, <1>2 DEF Last
<1>9. Append(f, Last(p)) = p
  <2>1. PICK t : t = Append(f, Last(p))
    OBVIOUS
  <2>2. /\ t \in Seq(S) /\ Len(t) = Len(f) + 1
        /\ \A k \in 1..Len(f) : t[k] = f[k]
        /\ t[Len(f) + 1] = Last(p)
    BY <1>8, <2>1, AppendProperties
  <2>3. ASSUME NEW k \in 1..n PROVE t[k] = p[k]
    <3>1. CASE k = n
      BY <1>6, <1>8, <2>2, <3>1
    <3>2. CASE k # n
      BY <1>2, <1>6, <1>7, <2>2, <3>2
    <3> QED BY <3>1, <3>2
  <2>4. Len(t) = Len(p)
    BY <1>1, <1>6, <2>2
  <2> QED BY <1>1, <2>1, <2>2, <2>3, <2>4, SeqEqual
<1> QED BY <1>1, <1>5, <1>6, <1>7, <1>8, <1>9

\* A proper prefix is a prefix of the front.
LEMMA PrefixFront ==
  ASSUME NEW S, NEW p \in Seq(S), NEW r \in Seq(S), r # <<>>
  PROVE  /\ IsPrefix(p, r) /\ p # r => IsPrefix(p, Front(r))
         /\ IsPrefix(p, Front(r)) => IsPrefix(p, r) /\ p # r
<1>1. PICK f \in Seq(S) : /\ f = Front(r) /\ Len(f) = Len(r) - 1
                          /\ \A k \in 1..Len(r) - 1 : f[k] = r[k]
  BY FrontIs
<1>2. Len(p) \in Nat /\ Len(r) \in Nat /\ Len(f) \in Nat
  OBVIOUS
<1>3. ASSUME IsPrefix(p, r), p # r PROVE IsPrefix(p, f)
  <2>1. Len(p) <= Len(r) /\ \A k \in 1..Len(p) : p[k] = r[k]
    BY <1>3, PrefixIs
  <2>2. Len(p) # Len(r)
    BY <1>3, <2>1, SeqEqual
  <2>3. Len(p) <= Len(f) /\ \A k \in 1..Len(p) : p[k] = f[k]
    BY <1>1, <1>2, <2>1, <2>2
  <2> QED BY <2>3, PrefixIs
<1>4. ASSUME IsPrefix(p, f) PROVE IsPrefix(p, r) /\ p # r
  <2>1. Len(p) <= Len(f) /\ \A k \in 1..Len(p) : p[k] = f[k]
    BY <1>4, PrefixIs
  <2>2. Len(p) <= Len(r) /\ \A k \in 1..Len(p) : p[k] = r[k]
    BY <1>1, <1>2, <2>1
  <2>3. p # r
    BY <1>1, <1>2, <2>1
  <2> QED BY <2>2, <2>3, PrefixIs
<1> QED BY <1>1, <1>3, <1>4

\* Path r, below p, once p is called q.
Rebased(p, q, r) == q \o SubSeq(r, Len(p) + 1, Len(r))

\* Its elements.
Joined(p, q, r, m) ==
  /\ Len(m) = Len(q) + (Len(r) - Len(p))
  /\ \A k \in 1..Len(q) : m[k] = q[k]
  /\ \A k \in 1..Len(r) - Len(p) : m[Len(q) + k] = r[Len(p) + k]

\* A rebased path is the new folder and the rest of the old path.
LEMMA RebasedIs ==
  ASSUME NEW S, NEW p \in Seq(S), NEW q \in Seq(S), NEW r \in Seq(S), IsPrefix(p, r)
  PROVE  Rebased(p, q, r) \in Seq(S) /\ Joined(p, q, r, Rebased(p, q, r))
<1>1. PICK lp \in Nat, lq \in Nat, lr \in Nat : lp = Len(p) /\ lq = Len(q) /\ lr = Len(r)
  OBVIOUS
<1>2. lp <= lr
  BY <1>1 DEF IsPrefix
<1>3. \A k \in lp + 1..lr : r[k] \in S
  BY <1>1
<1>4. /\ SubSeq(r, lp + 1, lr) \in Seq(S)
      /\ Len(SubSeq(r, lp + 1, lr)) = IF lp + 1 <= lr THEN lr - (lp + 1) + 1 ELSE 0
      /\ \A k \in 1..lr - (lp + 1) + 1 : SubSeq(r, lp + 1, lr)[k] = r[(lp + 1) + k - 1]
  <2>1. PICK a \in Int, z \in Int : a = lp + 1 /\ z = lr
    OBVIOUS
  <2>2. \A k \in a..z : r[k] \in S
    BY <1>3, <2>1
  <2>3. /\ SubSeq(r, a, z) \in Seq(S)
        /\ Len(SubSeq(r, a, z)) = IF a <= z THEN z - a + 1 ELSE 0
        /\ \A k \in 1..z - a + 1 : SubSeq(r, a, z)[k] = r[a + k - 1]
    BY <2>2, SubSeqProperties
  <2> QED BY <2>1, <2>3
<1>5. PICK t \in Seq(S) : t = SubSeq(r, lp + 1, lr)
  BY <1>4
<1>6. Len(t) = lr - lp
  BY <1>2, <1>4, <1>5
<1>7. ASSUME NEW k \in 1..lr - lp PROVE t[k] = r[lp + k]
  <2>1. k \in 1..lr - (lp + 1) + 1 /\ (lp + 1) + k - 1 = lp + k
    BY <1>2
  <2> QED BY <1>4, <1>5, <2>1
<1>8. PICK m : m = Rebased(p, q, r)
  OBVIOUS
<1>9. m = q \o t
  BY <1>1, <1>5, <1>8 DEF Rebased
<1>10. /\ m \in Seq(S) /\ Len(m) = lq + (lr - lp)
       /\ \A k \in 1..lq + (lr - lp) : m[k] = IF k <= lq THEN q[k] ELSE t[k - lq]
  <2>1. /\ q \o t \in Seq(S) /\ Len(q \o t) = Len(q) + Len(t)
        /\ \A k \in 1..Len(q) + Len(t) : (q \o t)[k] = IF k <= Len(q) THEN q[k] ELSE t[k - Len(q)]
    BY ConcatProperties
  <2> QED BY <1>1, <1>6, <1>9, <2>1
<1>11. ASSUME NEW k \in 1..lq PROVE m[k] = q[k]
  BY <1>2, <1>10
<1>12. ASSUME NEW k \in 1..lr - lp PROVE m[lq + k] = r[lp + k]
  <2>1. lq + k \in 1..lq + (lr - lp) /\ ~(lq + k <= lq) /\ (lq + k) - lq = k
    BY <1>2
  <2> QED BY <1>7, <1>10, <2>1
<1> QED BY <1>1, <1>8, <1>10, <1>11, <1>12 DEF Joined

\* Renaming back gives the old path.
LEMMA RebasedBack ==
  ASSUME NEW S, NEW p \in Seq(S), NEW q \in Seq(S), NEW r \in Seq(S), IsPrefix(p, r)
  PROVE  IsPrefix(q, Rebased(p, q, r)) /\ Rebased(q, p, Rebased(p, q, r)) = r
<1>1. PICK m \in Seq(S) : m = Rebased(p, q, r) /\ Joined(p, q, r, m)
  BY RebasedIs
<1>2. /\ m = Rebased(p, q, r) /\ Len(m) = Len(q) + (Len(r) - Len(p))
      /\ \A k \in 1..Len(q) : m[k] = q[k]
      /\ \A k \in 1..Len(r) - Len(p) : m[Len(q) + k] = r[Len(p) + k]
  BY <1>1 DEF Joined
<1>3. Len(p) \in Nat /\ Len(q) \in Nat /\ Len(r) \in Nat
  OBVIOUS
<1>4. Len(p) <= Len(r) /\ \A k \in 1..Len(p) : p[k] = r[k]
  <2>1. IsPrefix(p, r) <=> Len(p) <= Len(r) /\ \A k \in 1..Len(p) : p[k] = r[k]
    BY PrefixIs
  <2> QED BY <2>1
<1>5. IsPrefix(q, m)
  <2>1. Len(q) <= Len(m) /\ \A k \in 1..Len(q) : q[k] = m[k]
    BY <1>2, <1>3, <1>4
  <2> QED BY <2>1, PrefixIs
<1>6. PICK b \in Seq(S) : b = Rebased(q, p, m) /\ Joined(q, p, m, b)
  BY <1>5, RebasedIs
<1>7. /\ b = Rebased(q, p, m) /\ Len(b) = Len(p) + (Len(m) - Len(q))
      /\ \A k \in 1..Len(p) : b[k] = p[k]
      /\ \A k \in 1..Len(m) - Len(q) : b[Len(p) + k] = m[Len(q) + k]
  BY <1>6 DEF Joined
<1>8. Len(b) = Len(r) /\ Len(m) - Len(q) = Len(r) - Len(p)
  BY <1>2, <1>3, <1>7
<1>9. ASSUME NEW k \in 1..Len(r) PROVE b[k] = r[k]
  <2>1. CASE k <= Len(p)
    BY <1>3, <1>4, <1>7, <2>1
  <2>2. CASE ~(k <= Len(p))
    <3>1. PICK d : d = k - Len(p)
      OBVIOUS
    <3>2. d \in 1..Len(r) - Len(p) /\ Len(p) + d = k
      BY <1>3, <2>2, <3>1
    <3> QED BY <1>2, <1>7, <1>8, <3>2
  <2> QED BY <2>1, <2>2
<1>10. b = r
  BY <1>8, <1>9, SeqEqual
<1> QED BY <1>2, <1>5, <1>7, <1>10

\* What is renamed, and the folder of what is below it.
LEMMA RebasedFront ==
  ASSUME NEW S, NEW p \in Seq(S), NEW q \in Seq(S), NEW r \in Seq(S), IsPrefix(p, r)
  PROVE  /\ r = p => Rebased(p, q, r) = q
         /\ r # p => /\ r # <<>> /\ IsPrefix(p, Front(r))
                     /\ Rebased(p, q, r) # <<>>
                     /\ Front(Rebased(p, q, r)) = Rebased(p, q, Front(r))
<1>1. PICK m \in Seq(S) : m = Rebased(p, q, r) /\ Joined(p, q, r, m)
  BY RebasedIs
<1>2. /\ m = Rebased(p, q, r) /\ Len(m) = Len(q) + (Len(r) - Len(p))
      /\ \A k \in 1..Len(q) : m[k] = q[k]
      /\ \A k \in 1..Len(r) - Len(p) : m[Len(q) + k] = r[Len(p) + k]
  BY <1>1 DEF Joined
<1>3. Len(p) \in Nat /\ Len(q) \in Nat /\ Len(r) \in Nat
  OBVIOUS
<1>4. Len(p) <= Len(r) /\ \A k \in 1..Len(p) : p[k] = r[k]
  <2>1. IsPrefix(p, r) <=> Len(p) <= Len(r) /\ \A k \in 1..Len(p) : p[k] = r[k]
    BY PrefixIs
  <2> QED BY <2>1
<1>5. ASSUME r = p PROVE m = q
  <2>1. Len(m) = Len(q)
    BY <1>2, <1>3, <1>5
  <2> QED BY <1>2, <2>1, SeqEqual
<1>6. ASSUME r # p
      PROVE  /\ r # <<>> /\ IsPrefix(p, Front(r)) /\ m # <<>>
             /\ Front(m) = Rebased(p, q, Front(r))
  <2>1. Len(p) # Len(r)
    BY <1>4, <1>6, SeqEqual
  <2>2. Len(r) # 0 /\ Len(m) # 0
    BY <1>2, <1>3, <1>4, <2>1
  <2>3. r # <<>> /\ m # <<>>
    BY <2>2
  <2>4. IsPrefix(p, Front(r))
    BY <1>6, <2>3, PrefixFront
  <2>5. PICK f \in Seq(S) : /\ f = Front(r) /\ Len(f) = Len(r) - 1
                            /\ \A k \in 1..Len(r) - 1 : f[k] = r[k]
    BY <2>3, FrontIs
  <2>6. PICK g \in Seq(S) : /\ g = Front(m) /\ Len(g) = Len(m) - 1
                            /\ \A k \in 1..Len(m) - 1 : g[k] = m[k]
    BY <2>3, FrontIs
  <2>7. PICK b \in Seq(S) : b = Rebased(p, q, f) /\ Joined(p, q, f, b)
    BY <2>4, <2>5, RebasedIs
  <2>8. /\ b = Rebased(p, q, f) /\ Len(b) = Len(q) + (Len(f) - Len(p))
        /\ \A k \in 1..Len(q) : b[k] = q[k]
        /\ \A k \in 1..Len(f) - Len(p) : b[Len(q) + k] = f[Len(p) + k]
    BY <2>7 DEF Joined
  <2>9. Len(b) = Len(g)
    BY <1>2, <1>3, <2>5, <2>6, <2>8
  <2>10. ASSUME NEW k \in 1..Len(g) PROVE b[k] = g[k]
    <3>1. k \in Nat /\ k >= 1 /\ k <= Len(m) - 1 /\ g[k] = m[k]
      <4>1. Len(m) \in Nat /\ Len(g) = Len(m) - 1
        BY <2>6
      <4>2. k \in 1..Len(m) - 1
        BY <4>1
      <4> QED BY <2>6, <4>1, <4>2
    <3>2. CASE k <= Len(q)
      <4>1. k \in 1..Len(q)
        BY <1>3, <3>1, <3>2
      <4> QED BY <1>2, <2>8, <3>1, <4>1
    <3>3. CASE ~(k <= Len(q))
      <4>1. PICK d : d = k - Len(q)
        OBVIOUS
      <4>2. /\ d \in 1..Len(r) - Len(p) /\ d \in 1..Len(f) - Len(p)
            /\ Len(q) + d = k /\ Len(p) + d \in 1..Len(r) - 1
        BY <1>2, <1>3, <1>4, <2>1, <2>5, <3>1, <3>3, <4>1
      <4>3. b[k] = f[Len(p) + d] /\ f[Len(p) + d] = r[Len(p) + d] /\ m[k] = r[Len(p) + d]
        BY <1>2, <2>5, <2>8, <4>2
      <4> QED BY <3>1, <4>3
    <3> QED BY <3>2, <3>3
  <2>11. b = g
    BY <2>9, <2>10, SeqEqual
  <2> QED BY <2>3, <2>4, <2>5, <2>6, <2>8, <2>11
<1> QED BY <1>2, <1>5, <1>6

-----------------------------------------------------------------------------
(* The exported file systems.                                               *)

Places == Storages \cup Names

\* <<storage, name, ..., name>>
Paths == {p \in Seq(Places) : /\ Len(p) >= 1 /\ p[1] \in Storages
                              /\ \A k \in 2..Len(p) : p[k] \in Names}

InotifyEvent == [wd : Nat, name : Names, mask : {"create", "modify", "delete"}]

\* The disks are trees: what is there lies in a directory that is there.
DiskTree ==
  /\ IsFiniteSet(DOMAIN disk)
  /\ \A p \in DOMAIN disk : /\ p \in Paths /\ disk[p] \in {"file", "dir"}
                            /\ Len(p) > 1 => IsDir(Front(p))

\* Watches are on directories, or objects, that are there.
WatchesSet ==
  /\ next_wd \in Nat \ {0}
  /\ \A w \in DOMAIN watches : w \in Nat /\ w < next_wd /\ watches[w] \in DOMAIN disk

KernelOK == DiskTree /\ WatchesSet /\ events \in Seq(InotifyEvent)

\* A path with more than a storage is the path of a folder and a name.
LEMMA PathEnds ==
  ASSUME NEW p \in Paths, Len(p) > 1
  PROVE  /\ p # <<>> /\ Front(p) \in Paths /\ Last(p) \in Names
         /\ Append(Front(p), Last(p)) = p /\ Front(p) # p /\ p[1] = Front(p)[1]
<1>1. /\ p \in Seq(Places) /\ Len(p) \in Nat /\ p[1] \in Storages
      /\ \A k \in 2..Len(p) : p[k] \in Names
  BY DEF Paths
<1>2. p # <<>>
  BY <1>1
<1>3. PICK f : f = Front(p)
  OBVIOUS
<1>4. /\ f \in Seq(Places) /\ Len(f) = Len(p) - 1
      /\ \A k \in 1..Len(p) - 1 : f[k] = p[k]
      /\ Last(p) = p[Len(p)] /\ Append(f, Last(p)) = p
  BY <1>1, <1>2, <1>3, FrontIs
<1>5. Len(f) >= 1 /\ f[1] = p[1] /\ \A k \in 2..Len(f) : f[k] \in Names
  BY <1>1, <1>4
<1>6. f \in Paths
  BY <1>1, <1>4, <1>5 DEF Paths
<1>7. Last(p) \in Names
  BY <1>1, <1>4
<1>8. f # p
  BY <1>1, <1>4
<1> QED BY <1>2, <1>3, <1>4, <1>5, <1>6, <1>7, <1>8

\* A folder's path and a name.
LEMMA PathGrows ==
  ASSUME NEW p \in Paths, NEW n \in Names
  PROVE  /\ Append(p, n) \in Paths /\ Len(Append(p, n)) > 1 /\ Append(p, n) # <<>>
         /\ Front(Append(p, n)) = p /\ Append(p, n)[1] = p[1]
<1>1. /\ p \in Seq(Places) /\ Len(p) \in Nat /\ Len(p) >= 1 /\ p[1] \in Storages
      /\ \A k \in 2..Len(p) : p[k] \in Names
  BY DEF Paths
<1>2. n \in Places
  BY DEF Places
<1>3. PICK q : q = Append(p, n)
  OBVIOUS
<1>4. /\ q \in Seq(Places) /\ Len(q) = Len(p) + 1
      /\ \A k \in 1..Len(p) : q[k] = p[k]
      /\ q[Len(p) + 1] = n
  BY <1>1, <1>2, <1>3, AppendProperties
<1>5. Front(q) = p /\ q # <<>>
  BY <1>1, <1>2, <1>3, OneMore
<1>6. Len(q) > 1 /\ q[1] = p[1]
  BY <1>1, <1>4
<1>7. ASSUME NEW k \in 2..Len(q) PROVE q[k] \in Names
  <2>1. CASE k = Len(p) + 1
    BY <1>4, <2>1
  <2>2. CASE k # Len(p) + 1
    BY <1>1, <1>4, <2>2
  <2> QED BY <2>1, <2>2
<1>8. q \in Paths
  BY <1>1, <1>4, <1>6, <1>7 DEF Paths
<1> QED BY <1>3, <1>5, <1>6, <1>8

\* What was below p and is now below q.
LEMMA PathRebased ==
  ASSUME NEW p \in Paths, NEW q \in Paths, NEW r \in Paths, IsPrefix(p, r)
  PROVE  Rebased(p, q, r) \in Paths /\ Rebased(p, q, r)[1] = q[1] /\ r[1] = p[1]
<1>1. /\ p \in Seq(Places) /\ q \in Seq(Places) /\ r \in Seq(Places)
      /\ Len(p) \in Nat /\ Len(q) \in Nat /\ Len(r) \in Nat
      /\ Len(p) >= 1 /\ Len(q) >= 1 /\ q[1] \in Storages
      /\ \A k \in 2..Len(q) : q[k] \in Names
      /\ \A k \in 2..Len(r) : r[k] \in Names
  BY DEF Paths
<1>2. PICK m \in Seq(Places) : m = Rebased(p, q, r) /\ Joined(p, q, r, m)
  BY <1>1, RebasedIs
<1>3. Len(p) <= Len(r) /\ \A k \in 1..Len(p) : p[k] = r[k]
  BY <1>1, PrefixIs
<1>4. Len(m) >= 1 /\ m[1] = q[1] /\ r[1] = p[1]
  BY <1>1, <1>2, <1>3 DEF Joined
<1>5. ASSUME NEW k \in 2..Len(m) PROVE m[k] \in Names
  <2>1. CASE k <= Len(q)
    <3>1. k \in 2..Len(q) /\ k \in 1..Len(q)
      BY <1>1, <2>1
    <3> QED BY <1>1, <1>2, <3>1 DEF Joined
  <2>2. CASE ~(k <= Len(q))
    <3>1. PICK d : d = k - Len(q)
      OBVIOUS
    <3>2. d \in 1..Len(r) - Len(p) /\ Len(q) + d = k /\ Len(p) + d \in 2..Len(r)
      BY <1>1, <1>2, <1>3, <2>2, <3>1 DEF Joined
    <3>3. m[Len(q) + d] = r[Len(p) + d]
      BY <1>2, <3>2 DEF Joined
    <3> QED BY <1>1, <3>2, <3>3
  <2> QED BY <2>1, <2>2
<1> QED BY <1>1, <1>2, <1>4, <1>5 DEF Paths

\* What is below a directory that is there: the directory is not empty.
LEMMA BelowIsListed ==
  ASSUME DiskTree, NEW q \in Paths, NEW x \in DOMAIN disk, IsPrefix(q, x)
  PROVE  q \in DOMAIN disk /\ (q # x => IsDir(q) /\ Listing(q) # {})
<1> DEFINE Fine(y) == q \in DOMAIN disk /\ (q # y => IsDir(q) /\ Listing(q) # {})
           Bad == {n \in Nat : \E y \in DOMAIN disk : Len(y) = n /\ IsPrefix(q, y) /\ ~Fine(y)}
<1>1. ASSUME Bad # {} PROVE FALSE
  <2>1. PICK n \in Bad : \A m \in Bad : n <= m
    <3>1. Bad \subseteq Nat
      OBVIOUS
    <3> HIDE DEF Bad
    <3> QED BY <1>1, <3>1, LeastNatural
  <2>2. PICK y \in DOMAIN disk : Len(y) = n /\ IsPrefix(q, y) /\ ~Fine(y)
    BY <2>1
  <2>3. q # y
    BY <2>2
  <2>4. /\ y \in Paths /\ q \in Seq(Places) /\ y \in Seq(Places)
        /\ Len(q) >= 1 /\ Len(q) \in Nat /\ Len(y) \in Nat
    BY DEF DiskTree, Paths
  <2>5. Len(y) > 1
    <3>1. Len(q) <= Len(y) /\ \A k \in 1..Len(q) : q[k] = y[k]
      BY <2>2, <2>4, PrefixIs
    <3>2. Len(q) # Len(y)
      BY <2>3, <2>4, <3>1, SeqEqual
    <3> QED BY <2>4, <3>1, <3>2
  <2>6. PICK f, l : f = Front(y) /\ l = Last(y)
    OBVIOUS
  <2>7. f \in Paths /\ l \in Names /\ Append(f, l) = y /\ y # <<>> /\ IsDir(f)
    BY <2>4, <2>5, <2>6, PathEnds DEF DiskTree
  <2>8. IsPrefix(q, f) /\ Len(f) \in Nat /\ Len(f) = n - 1 /\ f \in DOMAIN disk
    <3>1. IsPrefix(q, f)
      BY <2>2, <2>3, <2>4, <2>6, <2>7, PrefixFront
    <3>2. Len(f) = Len(y) - 1
      BY <2>4, <2>6, <2>7, FrontIs
    <3> QED BY <2>2, <2>4, <2>5, <2>7, <3>1, <3>2 DEF IsDir
  <2>9. Fine(f)
    <3>1. Len(f) \notin Bad
      BY <2>1, <2>8
    <3> QED BY <2>8, <3>1
  <2>10. q = f => IsDir(q) /\ l \in Listing(q)
    BY <2>7 DEF Listing
  <2> QED BY <2>2, <2>9, <2>10
<1>2. Len(x) \in Nat
  BY DEF DiskTree, Paths
<1>3. Fine(x)
  BY <1>1, <1>2
<1> QED BY <1>3

-----------------------------------------------------------------------------
(* What the kernel makes of a change of the disk.                           *)

\* An event is about a name in a watched directory.
LEMMA EventTyped ==
  ASSUME WatchesSet, NEW p \in Paths, Watched({p}) # {},
         NEW mask \in {"create", "modify", "delete"}
  PROVE  EventFor(p, mask) \in InotifyEvent
<1>1. Len(p) > 1 /\ WatchersOf(Front(p)) # {}
  BY DEF Watched
<1>2. PICK w : w = CHOOSE v \in WatchersOf(Front(p)) : TRUE
  OBVIOUS
<1>3. w \in WatchersOf(Front(p))
  BY <1>1, <1>2
<1>4. w \in Nat
  BY <1>3 DEF WatchersOf, WatchesSet
<1>5. Last(p) \in Names
  BY <1>1, PathEnds
<1>6. EventFor(p, mask) = [wd |-> w, name |-> Last(p), mask |-> mask]
  BY <1>2 DEF EventFor
<1> QED BY <1>4, <1>5, <1>6 DEF InotifyEvent

\* The queue after one event.
LEMMA QueuedTyped ==
  ASSUME KernelOK, NEW p \in Paths, NEW mask \in {"create", "modify", "delete"}
  PROVE  Queued(p, mask) \in Seq(InotifyEvent) /\ Len(Queued(p, mask)) >= Len(events)
<1>1. CASE Watched({p}) = {}
  BY <1>1 DEF Queued, KernelOK
<1>2. CASE Watched({p}) # {}
  <2>1. EventFor(p, mask) \in InotifyEvent
    BY <1>2, EventTyped DEF KernelOK
  <2>2. Queued(p, mask) = Append(events, EventFor(p, mask))
    BY <1>2 DEF Queued
  <2>3. /\ Append(events, EventFor(p, mask)) \in Seq(InotifyEvent)
        /\ Len(Append(events, EventFor(p, mask))) = Len(events) + 1 /\ Len(events) \in Nat
    BY <2>1, AppendProperties DEF KernelOK
  <2> QED BY <2>2, <2>3
<1> QED BY <1>1, <1>2

\* mkdir, open(O_CREAT)
LEMMA GainsKeep ==
  ASSUME KernelOK, NEW p \in Paths, Len(p) > 1, IsDir(Front(p)), p \notin DOMAIN disk,
         NEW kind \in {"file", "dir"}, DiskGains(p, kind)
  PROVE  KernelOK' /\ DOMAIN disk' = DOMAIN disk \cup {p} /\ Len(events') >= Len(events)
<1>1. /\ DOMAIN disk' = DOMAIN disk \cup {p} /\ watches' = watches /\ next_wd' = next_wd
      /\ disk'[p] = kind
      /\ \A q \in DOMAIN disk : disk'[q] = disk[q]
      /\ events' = Queued(p, "create")
  BY DEF DiskGains
<1>2. IsFiniteSet(DOMAIN disk')
  BY <1>1, FS_AddElement DEF KernelOK, DiskTree
<1>3. ASSUME NEW q \in DOMAIN disk'
      PROVE  /\ q \in Paths /\ disk'[q] \in {"file", "dir"}
             /\ Len(q) > 1 => IsDir(Front(q))'
  <2>1. CASE q = p
    BY <1>1, <2>1 DEF IsDir
  <2>2. CASE q # p
    <3>1. q \in DOMAIN disk
      BY <1>1, <2>2
    <3> QED BY <1>1, <3>1 DEF KernelOK, DiskTree, IsDir
  <2> QED BY <2>1, <2>2
<1>4. DiskTree'
  BY <1>2, <1>3 DEF DiskTree
<1>5. WatchesSet'
  BY <1>1 DEF KernelOK, WatchesSet
<1>6. events' \in Seq(InotifyEvent) /\ Len(events') >= Len(events)
  BY <1>1, QueuedTyped
<1> QED BY <1>1, <1>4, <1>5, <1>6 DEF KernelOK

\* unlink, rmdir: what goes goes with all that is below it.
LEMMA LosesKeep ==
  ASSUME KernelOK, NEW gone, gone \subseteq DOMAIN disk,
         \A r \in DOMAIN disk \ gone : Len(r) > 1 => Front(r) \notin gone,
         NEW dropped, DiskLoses(gone, dropped)
  PROVE  KernelOK' /\ DOMAIN disk' = DOMAIN disk \ gone /\ Len(events') >= Len(events)
<1>1. /\ DOMAIN disk' = DOMAIN disk \ gone /\ next_wd' = next_wd
      /\ \A q \in DOMAIN disk' : disk'[q] = disk[q]
  BY DEF DiskLoses, Restrict
<1>2. /\ \A w \in DOMAIN watches' : w \in DOMAIN watches /\ watches'[w] = watches[w]
                                    /\ watches[w] \notin gone
  BY DEF DiskLoses, Restrict
<1>3. IsFiniteSet(DOMAIN disk')
  BY <1>1, FS_Subset DEF KernelOK, DiskTree
<1>4. ASSUME NEW q \in DOMAIN disk'
      PROVE  /\ q \in Paths /\ disk'[q] \in {"file", "dir"}
             /\ Len(q) > 1 => IsDir(Front(q))'
  <2>1. q \in DOMAIN disk \ gone /\ disk'[q] = disk[q]
    BY <1>1
  <2>2. Len(q) > 1 => IsDir(Front(q)) /\ Front(q) \notin gone
    BY <2>1 DEF KernelOK, DiskTree
  <2>3. Len(q) > 1 => IsDir(Front(q))'
    BY <1>1, <2>2 DEF IsDir
  <2> QED BY <2>1, <2>3 DEF KernelOK, DiskTree
<1>5. DiskTree'
  BY <1>3, <1>4 DEF DiskTree
<1>6. WatchesSet'
  BY <1>1, <1>2 DEF KernelOK, WatchesSet
<1>7. PICK order \in RemovalOrders(Watched(gone)) :
        events' = events \o [k \in DOMAIN order |-> EventFor(order[k], "delete")]
  BY DEF DiskLoses
<1>8. PICK n \in Nat : n = Cardinality(Watched(gone))
  <2>1. Watched(gone) \subseteq DOMAIN disk
    BY DEF Watched
  <2> QED BY <2>1, FS_Subset, FS_CardinalityType DEF KernelOK, DiskTree
<1>9. order \in [1..n -> Watched(gone)]
  BY <1>7, <1>8 DEF RemovalOrders, SetToSeqs
<1>10. PICK more : more = [k \in DOMAIN order |-> EventFor(order[k], "delete")]
  OBVIOUS
<1>11. ASSUME NEW k \in 1..n PROVE EventFor(order[k], "delete") \in InotifyEvent
  <2>1. order[k] \in Watched(gone)
    BY <1>9
  <2>2. order[k] \in Paths /\ Watched({order[k]}) # {}
    BY <2>1 DEF Watched, KernelOK, DiskTree
  <2> QED BY <2>2, EventTyped DEF KernelOK
<1>12. more \in [1..n -> InotifyEvent]
  BY <1>9, <1>10, <1>11
<1>13. more \in Seq(InotifyEvent)
  BY <1>12, SeqDef
<1>14. events' \in Seq(InotifyEvent) /\ Len(events') >= Len(events)
  <2>1. /\ events \o more \in Seq(InotifyEvent) /\ Len(events \o more) = Len(events) + Len(more)
        /\ Len(events) \in Nat /\ Len(more) \in Nat
    BY <1>13, ConcatProperties DEF KernelOK
  <2> QED BY <1>7, <1>10, <2>1
<1> QED BY <1>1, <1>5, <1>6, <1>14 DEF KernelOK

\* The place of object x after a rename of p to q.
Moved(p, q, x) == IF IsPrefix(p, x) THEN Rebased(p, q, x) ELSE x

\* rename(2) moves a tree: every other object stays, every object keeps its kind.
LEMMA MovesWhole ==
  ASSUME KernelOK, NEW p, NEW q \in Paths, CanMove(p, q), DiskMoves(p, q)
  PROVE  /\ p \in DOMAIN disk /\ p \in Paths /\ p # q
         /\ DOMAIN disk' = {Moved(p, q, x) : x \in DOMAIN disk \ {q}}
         /\ \A x \in DOMAIN disk \ {q} :
              /\ x \in Paths /\ Moved(p, q, x) \in Paths
              /\ disk'[Moved(p, q, x)] = disk[x]
              /\ ~IsPrefix(q, x)
<1>1. /\ p \in DOMAIN disk /\ ~IsPrefix(p, q) /\ IsDir(Front(q))
      /\ q \in DOMAIN disk => Listing(q) = {}
  BY DEF CanMove
<1>2. p \in Paths /\ \A x \in DOMAIN disk : x \in Paths
  BY <1>1 DEF KernelOK, DiskTree
<1>3. p \in Seq(Places) /\ q \in Seq(Places)
  BY <1>2 DEF Paths
<1>4. p # q
  BY <1>1, <1>3, PrefixIs
<1> DEFINE back(r) == IF IsPrefix(q, r) THEN p \o SubSeq(r, Len(q) + 1, Len(r)) ELSE r
<1>5. disk' = [r \in {Moved(p, q, x) : x \in DOMAIN disk \ {q}} |-> disk[back(r)]]
  BY DEF DiskMoves, Moved, Rebased
<1>6. ASSUME NEW x \in DOMAIN disk \ {q}
      PROVE  /\ x \in Paths /\ Moved(p, q, x) \in Paths
             /\ disk'[Moved(p, q, x)] = disk[x]
             /\ ~IsPrefix(q, x)
  <2>1. x \in Paths /\ x \in Seq(Places)
    BY <1>2 DEF Paths
  <2>2. ~IsPrefix(q, x)
    BY <1>1, BelowIsListed DEF KernelOK
  <2>3. PICK m : m = Moved(p, q, x)
    OBVIOUS
  <2>4. disk'[m] = disk[back(m)]
    BY <1>5, <2>3
  <2>5. CASE IsPrefix(p, x)
    <3>1. m = Rebased(p, q, x)
      BY <2>3, <2>5 DEF Moved
    <3>2. m \in Paths
      BY <1>2, <2>1, <2>5, <3>1, PathRebased
    <3>3. IsPrefix(q, m) /\ Rebased(q, p, m) = x
      BY <1>3, <2>1, <2>5, <3>1, RebasedBack
    <3>4. back(m) = x
      <4>1. back(m) = Rebased(q, p, m)
        BY <3>3, Zenon DEF Rebased
      <4> QED BY <3>3, <4>1, Zenon
    <3> HIDE DEF back
    <3> QED BY <2>1, <2>2, <2>3, <2>4, <3>2, <3>4
  <2>6. CASE ~IsPrefix(p, x)
    <3>1. m = x
      BY <2>3, <2>6 DEF Moved
    <3>2. back(m) = x
      BY <2>2, <3>1
    <3> QED BY <2>1, <2>2, <2>3, <2>4, <3>1, <3>2
  <2> QED BY <2>5, <2>6
<1>7. DOMAIN disk' = {Moved(p, q, x) : x \in DOMAIN disk \ {q}}
  BY <1>5
<1> QED BY <1>1, <1>2, <1>4, <1>6, <1>7

\* A tree stays a tree.
LEMMA MovesKeepTree ==
  ASSUME KernelOK, NEW p, NEW q \in Paths, CanMove(p, q), DiskMoves(p, q)
  PROVE  DiskTree'
<1>1. /\ p \in DOMAIN disk /\ p \in Paths /\ p # q
      /\ DOMAIN disk' = {Moved(p, q, x) : x \in DOMAIN disk \ {q}}
      /\ \A x \in DOMAIN disk \ {q} :
           /\ x \in Paths /\ Moved(p, q, x) \in Paths
           /\ disk'[Moved(p, q, x)] = disk[x]
           /\ ~IsPrefix(q, x)
  BY MovesWhole
<1>2. p \in Seq(Places) /\ q \in Seq(Places)
  BY <1>1 DEF Paths
<1>3. ~IsPrefix(p, q) /\ IsDir(Front(q))
  BY DEF CanMove
<1>4. IsFiniteSet(DOMAIN disk')
  <2>1. PICK S, T : S = DOMAIN disk \ {q} /\ T = DOMAIN disk'
    OBVIOUS
  <2>2. IsFiniteSet(S)
    <3>1. S \subseteq DOMAIN disk
      BY <2>1
    <3> QED BY <3>1, FS_Subset DEF KernelOK, DiskTree
  <2>3. PICK f : f = [x \in S |-> Moved(p, q, x)]
    OBVIOUS
  <2>4. f \in [S -> T] /\ \A t \in T : \E x \in S : f[x] = t
    BY <1>1, <2>1, <2>3
  <2>5. f \in Surjection(S, T)
    BY <2>4 DEF Surjection
  <2> QED BY <2>1, <2>2, <2>5, FS_Surjection
<1>5. ASSUME NEW x \in DOMAIN disk \ {q}, Len(Moved(p, q, x)) > 1
      PROVE  IsDir(Front(Moved(p, q, x)))'
  <2>1. x \in Paths /\ x \in Seq(Places)
    BY <1>1 DEF Paths
  <2>2. ASSUME NEW y \in DOMAIN disk \ {q}, disk[y] = "dir", Moved(p, q, y) = Front(Moved(p, q, x))
        PROVE  IsDir(Front(Moved(p, q, x)))'
    <3>1. Moved(p, q, y) \in DOMAIN disk' /\ disk'[Moved(p, q, y)] = "dir"
      BY <1>1, <2>2
    <3> QED BY <2>2, <3>1 DEF IsDir
  <2>3. CASE x = p
    <3>1. IsPrefix(p, p)
      BY <1>2, PrefixIs
    <3>2. Moved(p, q, x) = q
      BY <1>2, <2>3, <3>1, RebasedFront DEF Moved
    <3>3. Len(q) > 1
      BY <1>5, <3>2
    <3>4. PICK y : y = Front(q)
      OBVIOUS
    <3>5. y \in DOMAIN disk /\ disk[y] = "dir" /\ y # q /\ y \in Paths
      BY <1>3, <3>3, <3>4, PathEnds DEF IsDir
    <3>6. ~IsPrefix(p, y)
      <4>1. q # <<>>
        BY <3>3, PathEnds
      <4> QED BY <1>2, <1>3, <3>4, <4>1, PrefixFront
    <3>7. Moved(p, q, y) = y
      BY <3>6 DEF Moved
    <3> QED BY <2>2, <3>2, <3>4, <3>5, <3>7
  <2>4. CASE IsPrefix(p, x) /\ x # p
    <3>1. /\ x # <<>> /\ IsPrefix(p, Front(x))
          /\ Front(Rebased(p, q, x)) = Rebased(p, q, Front(x))
      BY <1>2, <2>1, <2>4, RebasedFront
    <3>2. Len(x) > 1
      <4>1. PICK k \in Nat : k = Len(x) /\ k >= 1
        BY <2>1 DEF Paths
      <4>2. k # 1
        <5> SUFFICES ASSUME k = 1 PROVE FALSE
          OBVIOUS
        <5>1. Len(Front(x)) = 0
          BY <2>1, <3>1, <4>1, FrontIs
        <5>2. PICK m \in Nat : m = Len(p) /\ m >= 1
          BY <1>1 DEF Paths
        <5>3. m <= 0
          BY <3>1, <5>1, <5>2 DEF IsPrefix
        <5> QED BY <5>2, <5>3
      <4> QED BY <4>1, <4>2
    <3>3. PICK y : y = Front(x)
      OBVIOUS
    <3>4. y \in DOMAIN disk /\ disk[y] = "dir"
      BY <3>2, <3>3 DEF KernelOK, DiskTree, IsDir
    <3>5. y # q
      BY <1>3, <3>1, <3>3
    <3>6. Moved(p, q, y) = Front(Moved(p, q, x))
      BY <2>4, <3>1, <3>3 DEF Moved
    <3> QED BY <2>2, <3>4, <3>5, <3>6
  <2>5. CASE ~IsPrefix(p, x)
    <3>1. Moved(p, q, x) = x /\ Len(x) > 1
      BY <1>5, <2>5 DEF Moved
    <3>2. PICK y : y = Front(x)
      OBVIOUS
    <3>3. y \in DOMAIN disk /\ disk[y] = "dir" /\ x # <<>>
      BY <2>1, <3>1, <3>2, PathEnds DEF KernelOK, DiskTree, IsDir
    <3>4. ~IsPrefix(p, y)
      BY <1>2, <2>1, <2>5, <3>2, <3>3, PrefixFront
    <3>5. y # q
      <4>1. IsPrefix(q, q)
        BY <1>2, PrefixIs
      <4>2. y = q => IsPrefix(q, x)
        BY <1>2, <2>1, <3>2, <3>3, <4>1, PrefixFront
      <4> QED BY <1>1, <4>2
    <3>6. Moved(p, q, y) = Front(Moved(p, q, x))
      BY <3>1, <3>2, <3>4 DEF Moved
    <3> QED BY <2>2, <3>3, <3>5, <3>6
  <2> QED BY <2>3, <2>4, <2>5
<1>6. ASSUME NEW r \in DOMAIN disk'
      PROVE  /\ r \in Paths /\ disk'[r] \in {"file", "dir"}
             /\ Len(r) > 1 => IsDir(Front(r))'
  <2>1. PICK x \in DOMAIN disk \ {q} : r = Moved(p, q, x)
    BY <1>1
  <2>2. r \in Paths /\ disk'[r] = disk[x]
    BY <1>1, <2>1
  <2>3. disk[x] \in {"file", "dir"}
    BY DEF KernelOK, DiskTree
  <2> QED BY <1>5, <2>1, <2>2, <2>3
<1> QED BY <1>4, <1>6 DEF DiskTree

\* Its watches go with it, and both folders report it.
LEMMA MovesKeep ==
  ASSUME KernelOK, NEW p, NEW q \in Paths, CanMove(p, q), DiskMoves(p, q)
  PROVE  KernelOK' /\ Len(events') >= Len(events)
<1>1. /\ p \in Paths /\ DOMAIN disk' = {Moved(p, q, x) : x \in DOMAIN disk \ {q}}
  BY MovesWhole
<1>2. next_wd' = next_wd
  BY DEF DiskMoves
<1>3. ASSUME NEW w \in DOMAIN watches'
      PROVE  w \in Nat /\ w < next_wd /\ watches'[w] \in DOMAIN disk'
  <2>1. w \in DOMAIN watches /\ watches[w] # q /\ watches'[w] = Moved(p, q, watches[w])
    BY DEF DiskMoves, Moved, Rebased
  <2>2. w \in Nat /\ w < next_wd /\ watches[w] \in DOMAIN disk \ {q}
    BY <2>1 DEF KernelOK, WatchesSet
  <2> QED BY <1>1, <2>1, <2>2
<1>4. WatchesSet'
  BY <1>2, <1>3 DEF KernelOK, WatchesSet
<1>5. PICK from, to :
        /\ from = IF Watched({p}) = {} THEN <<>> ELSE <<EventFor(p, "delete")>>
        /\ to = IF Watched({q}) = {} THEN <<>> ELSE <<EventFor(q, "create")>>
        /\ events' = events \o from \o to
  BY DEF DiskMoves
<1>6. from \in Seq(InotifyEvent)
  <2>1. CASE Watched({p}) = {}
    BY <1>5, <2>1
  <2>2. CASE Watched({p}) # {}
    <3>1. EventFor(p, "delete") \in InotifyEvent
      BY <1>1, <2>2, EventTyped DEF KernelOK
    <3> QED BY <1>5, <2>2, <3>1
  <2> QED BY <2>1, <2>2
<1>7. to \in Seq(InotifyEvent)
  <2>1. CASE Watched({q}) = {}
    BY <1>5, <2>1
  <2>2. CASE Watched({q}) # {}
    <3>1. EventFor(q, "create") \in InotifyEvent
      BY <2>2, EventTyped DEF KernelOK
    <3> QED BY <1>5, <2>2, <3>1
  <2> QED BY <2>1, <2>2
<1>8. events' \in Seq(InotifyEvent) /\ Len(events') >= Len(events)
  <2>1. PICK first : first = events \o from
    OBVIOUS
  <2>2. first \in Seq(InotifyEvent) /\ Len(first) = Len(events) + Len(from)
    BY <1>6, <2>1, ConcatProperties DEF KernelOK
  <2>3. first \o to \in Seq(InotifyEvent) /\ Len(first \o to) = Len(first) + Len(to)
    BY <1>7, <2>2, ConcatProperties
  <2>4. Len(events) \in Nat /\ Len(from) \in Nat /\ Len(to) \in Nat
    <3>1. events \in Seq(InotifyEvent)
      BY DEF KernelOK
    <3> QED BY <1>6, <1>7, <3>1, LenProperties
  <2>5. events' = first \o to
    BY <1>5, <2>1, Zenon
  <2>6. PICK all : all = first \o to
    OBVIOUS
  <2>7. all \in Seq(InotifyEvent) /\ Len(all) = Len(first) + Len(to)
    BY <2>3, <2>6
  <2>8. Len(all) >= Len(events)
    BY <2>2, <2>4, <2>7
  <2> QED BY <2>5, <2>6, <2>7, <2>8
<1> QED BY <1>4, <1>8, MovesKeepTree DEF KernelOK

-----------------------------------------------------------------------------
(* What delete_tree removes.                                                *)

\* The path put together for an entry.
LEMMA PathOfTyped ==
  ASSUME Sane, NEW c \in DOMAIN entries
  PROVE  PathOf(c) \in Paths /\ PathOf(c)[1] = entries[c].storage
<1>1. PICK s \in Storages, q \in Seq(Names) : s = entries[c].storage /\ q = Climb(c)
  <2>1. entries[c].storage \in Storages
    BY EntriesAreEntries DEF Sane, Entry
  <2> QED BY <2>1, ClimbIs
<1>2. PathOf(c) = <<s>> \o q
  BY <1>1 DEF PathOf
<1>3. <<s>> \in Seq(Places) /\ Len(<<s>>) = 1 /\ <<s>>[1] = s
  BY DEF Places
<1>4. q \in Seq(Places) /\ Len(q) \in Nat /\ \A k \in 1..Len(q) : q[k] \in Names
  BY DEF Places
<1>5. PICK p : p = <<s>> \o q
  OBVIOUS
<1>6. /\ p \in Seq(Places) /\ Len(p) = 1 + Len(q)
      /\ \A k \in 1..1 + Len(q) : p[k] = IF k <= 1 THEN s ELSE q[k - 1]
  <2>1. /\ <<s>> \o q \in Seq(Places)
        /\ Len(<<s>> \o q) = Len(<<s>>) + Len(q)
        /\ \A k \in 1..Len(<<s>>) + Len(q) :
             (<<s>> \o q)[k] = IF k <= Len(<<s>>) THEN <<s>>[k] ELSE q[k - Len(<<s>>)]
    BY <1>3, <1>4, ConcatProperties
  <2>2. \A k \in 1..1 + Len(q) : k <= 1 => k = 1
    BY <1>4
  <2> QED BY <1>3, <1>5, <2>1, <2>2
<1>7. p[1] = s /\ Len(p) >= 1
  BY <1>4, <1>6
<1>8. ASSUME NEW k \in 2..Len(p) PROVE p[k] \in Names
  <2>1. k \in 1..1 + Len(q) /\ ~(k <= 1) /\ k - 1 \in 1..Len(q)
    BY <1>4, <1>6
  <2> QED BY <1>4, <1>6, <2>1
<1> QED BY <1>1, <1>2, <1>5, <1>6, <1>7, <1>8 DEF Paths

\* The live entries of a storage, and a walk among them.
OnStorage(s) == {i \in LiveEntries : entries[i].storage = s}

Walks(s) == [left : SUBSET DOMAIN disk, dead : SUBSET Nat, bad : SUBSET Int,
             calls : Seq(OnStorage(s)), from : Nat]

\* Each entry of S is live and its object is no longer left.
Taken(S, left) == \A c \in S : c \in LiveEntries /\ PathOf(c) \in DOMAIN disk \ left

\* What is left is a tree, what is gone was on that storage, and the entries go
\* with their objects.
WalkSound(walk, s) ==
  /\ walk \in Walks(s)
  /\ \A r \in walk.left : Len(r) > 1 => Front(r) \in walk.left
  /\ \A r \in DOMAIN disk \ walk.left : r[1] = s
  /\ Taken(walk.dead, walk.left)

\* Taking away all that is at or below p leaves a tree.
LEMMA CutIsSound ==
  ASSUME DiskTree, NEW S, S \subseteq DOMAIN disk, NEW p \in Paths,
         \A r \in S : Len(r) > 1 => Front(r) \in S
  PROVE  /\ \A r \in S \ Under(p, S) : Len(r) > 1 => Front(r) \in S \ Under(p, S)
         /\ \A r \in Under(p, S) : r[1] = p[1]
<1>1. p \in Seq(Places) /\ \A r \in S : r \in Paths /\ r \in Seq(Places)
  BY DEF DiskTree, Paths
<1>2. ASSUME NEW r \in S, Len(r) > 1, Front(r) \in Under(p, S)
      PROVE  r \in Under(p, S)
  <2>1. r # <<>>
    BY <1>1, <1>2, PathEnds
  <2>2. IsPrefix(p, r)
    BY <1>1, <1>2, <2>1, PrefixFront DEF Under
  <2> QED BY <2>2 DEF Under
<1>3. ASSUME NEW r \in Under(p, S) PROVE r[1] = p[1]
  <2>1. IsPrefix(p, r) /\ r \in Paths
    BY <1>1 DEF Under
  <2> QED BY <2>1, PathRebased
<1> QED BY <1>2, <1>3

\* remove()
LEMMA RemoveFileSound ==
  ASSUME Sane, DiskTree, NEW s, NEW walk, WalkSound(walk, s), NEW c \in OnStorage(s)
  PROVE  WalkSound(RemoveFile(walk, c), s)
<1>1. PICK p : p = PathOf(c)
  OBVIOUS
<1>2. p \in Paths /\ p[1] = s /\ c \in Nat
  BY <1>1, PathOfTyped, EntriesAreEntries DEF OnStorage, LiveEntries, Sane
<1>3. /\ walk \in Walks(s)
      /\ \A r \in walk.left : Len(r) > 1 => Front(r) \in walk.left
      /\ \A r \in DOMAIN disk \ walk.left : r[1] = s
      /\ Taken(walk.dead, walk.left)
  BY DEF WalkSound
<1>4. /\ walk.left \subseteq DOMAIN disk /\ walk.dead \subseteq Nat /\ walk.bad \subseteq Int
      /\ Len(walk.calls) \in Int
  BY <1>3 DEF Walks
<1>5. CASE Under(p, walk.left) = {p}
  <2>1. PICK rest, d : rest = walk.left \ {p} /\ d = walk.dead \cup {c}
    OBVIOUS
  <2>2. rest \in SUBSET DOMAIN disk /\ d \in SUBSET Nat
    BY <1>2, <1>4, <2>1
  <2>3. RemoveFile(walk, c) = [walk EXCEPT !.left = rest, !.dead = d, !.from = c]
    BY <1>1, <1>5, <2>1 DEF RemoveFile
  <2>4. /\ RemoveFile(walk, c) \in Walks(s)
        /\ RemoveFile(walk, c).left = rest /\ RemoveFile(walk, c).dead = d
    BY <1>2, <1>3, <2>2, <2>3 DEF Walks
  <2>5. /\ \A r \in rest : Len(r) > 1 => Front(r) \in rest
        /\ \A r \in {p} : r[1] = p[1]
    BY <1>2, <1>3, <1>4, <1>5, <2>1, CutIsSound
  <2>6. \A r \in DOMAIN disk \ rest : r[1] = s
    BY <1>2, <1>3, <2>1
  <2>7. Taken(d, rest)
    <3>1. p \in Under(p, walk.left)
      BY <1>5
    <3>2. p \in walk.left /\ p \in DOMAIN disk /\ c \in LiveEntries
      BY <1>4, <3>1 DEF Under, OnStorage
    <3> QED BY <1>1, <1>3, <2>1, <3>2 DEF Taken
  <2> QED BY <2>4, <2>5, <2>6, <2>7 DEF WalkSound
<1>6. CASE Under(p, walk.left) # {p}
  <2>1. PICK b : b = walk.bad \cup {Len(walk.calls)}
    OBVIOUS
  <2>2. RemoveFile(walk, c) = [walk EXCEPT !.bad = b, !.from = c]
    BY <1>1, <1>6, <2>1 DEF RemoveFile
  <2>3. b \in SUBSET Int
    BY <1>4, <2>1
  <2>4. /\ RemoveFile(walk, c) \in Walks(s)
        /\ RemoveFile(walk, c).left = walk.left /\ RemoveFile(walk, c).dead = walk.dead
    BY <1>2, <1>3, <2>2, <2>3 DEF Walks
  <2> QED BY <1>3, <2>4 DEF WalkSound
<1> QED BY <1>5, <1>6

\* fs_remove_tree, or a return without it.
LEMMA RemoveFolderSound ==
  ASSUME Sane, DiskTree, NEW s, NEW walk, WalkSound(walk, s), NEW c \in OnStorage(s),
         walk.calls # <<>>
  PROVE  WalkSound(RemoveFolder(walk, c), s)
<1>1. PICK p : p = PathOf(c)
  OBVIOUS
<1>2. p \in Paths /\ p[1] = s /\ c \in Nat
  BY <1>1, PathOfTyped, EntriesAreEntries DEF OnStorage, LiveEntries, Sane
<1>3. /\ walk \in Walks(s)
      /\ \A r \in walk.left : Len(r) > 1 => Front(r) \in walk.left
      /\ \A r \in DOMAIN disk \ walk.left : r[1] = s
      /\ Taken(walk.dead, walk.left)
  BY DEF WalkSound
<1>4. /\ walk.left \subseteq DOMAIN disk /\ walk.dead \subseteq Nat /\ walk.bad \subseteq Int
      /\ walk.calls \in Seq(OnStorage(s)) /\ Len(walk.calls) \in Int
  BY <1>3 DEF Walks
<1>5. PICK outer \in Seq(OnStorage(s)) : outer = Front(walk.calls)
  BY <1>4, FrontIs
<1>6. PICK ret : ret = [walk EXCEPT !.calls = outer, !.from = 0]
  OBVIOUS
<1>7. /\ ret \in Walks(s)
      /\ ret.left = walk.left /\ ret.dead = walk.dead /\ ret.bad = walk.bad
  BY <1>3, <1>5, <1>6 DEF Walks
<1>8. CASE RemoveFolder(walk, c) = ret
  BY <1>3, <1>7, <1>8 DEF WalkSound
<1>9. CASE /\ RemoveFolder(walk, c) = [ret EXCEPT !.left = @ \ Under(p, @), !.dead = @ \cup {c}]
           /\ p \in walk.left
  <2>1. PICK rest, d : rest = walk.left \ Under(p, walk.left) /\ d = walk.dead \cup {c}
    OBVIOUS
  <2>2. RemoveFolder(walk, c) = [ret EXCEPT !.left = rest, !.dead = d]
    BY <1>7, <1>9, <2>1
  <2>3. rest \in SUBSET DOMAIN disk /\ d \in SUBSET Nat
    BY <1>2, <1>4, <2>1
  <2>4. /\ RemoveFolder(walk, c) \in Walks(s)
        /\ RemoveFolder(walk, c).left = rest /\ RemoveFolder(walk, c).dead = d
    BY <1>7, <2>2, <2>3 DEF Walks
  <2>5. /\ \A r \in rest : Len(r) > 1 => Front(r) \in rest
        /\ \A r \in Under(p, walk.left) : r[1] = p[1]
    BY <1>2, <1>3, <1>4, <2>1, CutIsSound
  <2>6. \A r \in DOMAIN disk \ rest : r[1] = s
    BY <1>2, <1>3, <2>1, <2>5
  <2>7. Taken(d, rest)
    <3>1. IsPrefix(p, p)
      BY <1>2, PrefixIs DEF Paths
    <3>2. p \in Under(p, walk.left) /\ p \in DOMAIN disk /\ c \in LiveEntries
      BY <1>4, <1>9, <3>1 DEF Under, OnStorage
    <3> QED BY <1>1, <1>3, <2>1, <3>2 DEF Taken
  <2> QED BY <2>4, <2>5, <2>6, <2>7 DEF WalkSound
<1>10. CASE RemoveFolder(walk, c) = [ret EXCEPT !.bad = @ \cup {Len(walk.calls) - 1}]
  <2>1. PICK b : b = walk.bad \cup {Len(walk.calls) - 1}
    OBVIOUS
  <2>2. RemoveFolder(walk, c) = [ret EXCEPT !.bad = b]
    BY <1>7, <1>10, <2>1
  <2>3. b \in SUBSET Int
    BY <1>4, <2>1
  <2>4. /\ RemoveFolder(walk, c) \in Walks(s)
        /\ RemoveFolder(walk, c).left = walk.left /\ RemoveFolder(walk, c).dead = walk.dead
    BY <1>7, <2>2, <2>3 DEF Walks
  <2> QED BY <1>3, <2>4 DEF WalkSound
<1>11. \/ RemoveFolder(walk, c) = ret
       \/ /\ RemoveFolder(walk, c) = [ret EXCEPT !.left = @ \ Under(p, @), !.dead = @ \cup {c}]
          /\ p \in walk.left
       \/ RemoveFolder(walk, c) = [ret EXCEPT !.bad = @ \cup {Len(walk.calls) - 1}]
  <2>1. ret = [walk EXCEPT !.calls = Front(@), !.from = 0]
    BY <1>5, <1>6
  <2> QED BY <1>1, <2>1 DEF RemoveFolder
<1> QED BY <1>8, <1>9, <1>10, <1>11

\* One turn of delete_db_tree.
LEMMA DeleteTurnSound ==
  ASSUME Sane, DiskTree, NEW s, NEW walk, WalkSound(walk, s)
  PROVE  WalkSound(DeleteTurn(walk), s)
<1>1. CASE walk.calls = <<>>
  BY <1>1 DEF DeleteTurn
<1>2. CASE walk.calls # <<>>
  <2>1. walk \in Walks(s) /\ walk.calls \in Seq(OnStorage(s))
    BY DEF WalkSound, Walks
  <2>2. PICK folder \in OnStorage(s) : folder = Last(walk.calls)
    BY <1>2, <2>1, FrontIs
  <2>3. PICK S : S = {k \in KidsOf(folder) : k < walk.from}
    OBVIOUS
  <2>4. S \subseteq OnStorage(s) /\ S \subseteq 1..Len(entries) /\ Len(entries) \in Nat
    <3>1. entries[folder].storage = s
      BY DEF OnStorage
    <3>2. DOMAIN entries = 1..Len(entries) /\ Len(entries) \in Nat
      BY EntriesAreEntries DEF Sane
    <3> QED BY <2>3, <3>1, <3>2 DEF KidsOf, ChildrenInDb, OnStorage, LiveEntries
  <2>5. PICK c : c = FirstInList(S)
    OBVIOUS
  <2>6. c # 0 => c \in OnStorage(s)
    BY <2>4, <2>5, FirstInListFinds
  <2>7. CASE c = 0
    <3>1. DeleteTurn(walk) = RemoveFolder(walk, folder)
      BY <1>2, <2>2, <2>3, <2>5, <2>7 DEF DeleteTurn
    <3> QED BY <1>2, <3>1, RemoveFolderSound
  <2>8. CASE c # 0 /\ entries[c].dir
    <3>1. PICK calls, from : calls = Append(walk.calls, c) /\ from = Len(entries) + 1
      OBVIOUS
    <3>2. calls \in Seq(OnStorage(s)) /\ from \in Nat
      BY <2>1, <2>4, <2>6, <2>8, <3>1, AppendProperties
    <3>3. DeleteTurn(walk) = [walk EXCEPT !.calls = calls, !.from = from]
      BY <1>2, <2>2, <2>3, <2>5, <2>8, <3>1 DEF DeleteTurn
    <3>4. /\ DeleteTurn(walk) \in Walks(s)
          /\ DeleteTurn(walk).left = walk.left /\ DeleteTurn(walk).dead = walk.dead
      BY <2>1, <3>2, <3>3 DEF Walks
    <3> QED BY <3>4 DEF WalkSound
  <2>9. CASE c # 0 /\ ~entries[c].dir
    <3>1. DeleteTurn(walk) = RemoveFile(walk, c)
      BY <1>2, <2>2, <2>3, <2>5, <2>9 DEF DeleteTurn
    <3> QED BY <2>6, <2>9, <3>1, RemoveFileSound
  <2> QED BY <2>7, <2>8, <2>9
<1> QED BY <1>1, <1>2

\* Walks of n turns from a given one exist.
Walked(start, n) ==
  \E f : /\ f = [t \in 0..n |-> f[t]] /\ f[0] = start
         /\ \A t \in 1..n : f[t] = DeleteTurn(f[t - 1])

\* By induction on n: a walk of n turns goes on with one more.
LEMMA WalksExist ==
  ASSUME NEW start, NEW n \in Nat
  PROVE  Walked(start, n)
<1> DEFINE Bad == {m \in Nat : ~Walked(start, m)}
<1>1. ASSUME Bad # {} PROVE FALSE
  <2>1. PICK m \in Bad : \A k \in Bad : m <= k
    <3>1. Bad \subseteq Nat
      OBVIOUS
    <3> HIDE DEF Bad
    <3> QED BY <1>1, <3>1, LeastNatural
  <2>2. m # 0
    <3>1. PICK f : f = [t \in 0..0 |-> start]
      OBVIOUS
    <3>2. f = [t \in 0..0 |-> f[t]] /\ f[0] = start
      BY <3>1
    <3>3. \A t \in 1..0 : f[t] = DeleteTurn(f[t - 1])
      OBVIOUS
    <3>4. Walked(start, 0)
      BY <3>2, <3>3 DEF Walked
    <3> QED BY <2>1, <3>4
  <2>3. m \in Nat /\ m - 1 \in Nat /\ Walked(start, m - 1)
    <3>1. m \in Nat /\ m - 1 \in Nat /\ ~(m <= m - 1)
      BY <2>1, <2>2
    <3>2. m - 1 \notin Bad
      BY <2>1, <3>1
    <3> QED BY <3>1, <3>2
  <2>4. PICK f : /\ f = [t \in 0..m - 1 |-> f[t]] /\ f[0] = start
                 /\ \A t \in 1..m - 1 : f[t] = DeleteTurn(f[t - 1])
    BY <2>3 DEF Walked
  <2>5. PICK last : last = DeleteTurn(f[m - 1])
    OBVIOUS
  <2>6. PICK g : g = [t \in 0..m |-> IF t = m THEN last ELSE f[t]]
    OBVIOUS
  <2>7. g = [t \in 0..m |-> g[t]] /\ g[0] = start
    <3>1. 0 \in 0..m
      BY <2>3
    <3>2. g[0] = start
      BY <2>2, <2>4, <2>6, <3>1
    <3>3. \A t \in 0..m : g[t] = IF t = m THEN last ELSE f[t]
      BY <2>6
    <3> QED BY <2>6, <3>2, <3>3
  <2>8. ASSUME NEW t \in 1..m PROVE g[t] = DeleteTurn(g[t - 1])
    <3>1. g[t - 1] = f[t - 1]
      BY <2>3, <2>6
    <3>2. CASE t = m
      BY <2>3, <2>5, <2>6, <3>1, <3>2
    <3>3. CASE t # m
      <4>1. t \in 1..m - 1 /\ t \in 0..m
        BY <2>3, <3>3
      <4>2. g[t] = f[t]
        BY <2>6, <3>3, <4>1
      <4>3. f[t] = DeleteTurn(f[t - 1])
        BY <2>4, <4>1
      <4> QED BY <3>1, <4>2, <4>3
    <3> QED BY <3>2, <3>3
  <2>9. Walked(start, m)
    BY <2>7, <2>8 DEF Walked
  <2> QED BY <2>1, <2>9
<1> QED BY <1>1

\* What delete_tree leaves of the disk is a tree, it takes objects of the storage
\* of the entry only, and deletes the entries of objects it took.
LEMMA DeleteTreeSound ==
  ASSUME Sane, DiskTree, NEW e \in LiveEntries, NEW s, s = entries[e].storage
  PROVE  /\ delete_tree(e).left \subseteq DOMAIN disk
         /\ \A r \in delete_tree(e).left : Len(r) > 1 => Front(r) \in delete_tree(e).left
         /\ \A r \in DOMAIN disk \ delete_tree(e).left : r[1] = s
         /\ Taken(delete_tree(e).dead, delete_tree(e).left)
<1>1. PICK start, turns : /\ start = [left |-> DOMAIN disk, dead |-> {}, bad |-> {},
                                      calls |-> <<e>>, from |-> Len(entries) + 1]
                          /\ turns = 2 * Len(entries)
  OBVIOUS
<1>2. Len(entries) \in Nat /\ turns \in Nat /\ e \in OnStorage(s)
  BY <1>1, EntriesAreEntries DEF Sane, OnStorage
<1>3. WalkSound(start, s)
  <2>1. <<e>> \in Seq(OnStorage(s)) /\ Len(entries) + 1 \in Nat
    BY <1>2
  <2>2. start \in Walks(s) /\ start.left = DOMAIN disk /\ start.dead = {}
    BY <1>1, <2>1 DEF Walks
  <2>3. \A r \in DOMAIN disk : Len(r) > 1 => Front(r) \in DOMAIN disk
    BY DEF DiskTree, IsDir
  <2> QED BY <2>2, <2>3 DEF WalkSound, Taken
<1> DEFINE Def(w) == w = [t \in 0..turns |-> IF t = 0 THEN start ELSE DeleteTurn(w[t - 1])]
           W == CHOOSE w : Def(w)
<1>4. PICK f : /\ f = [t \in 0..turns |-> f[t]] /\ f[0] = start
               /\ \A t \in 1..turns : f[t] = DeleteTurn(f[t - 1])
  <2>1. Walked(start, turns)
    BY <1>2, WalksExist
  <2> QED BY <2>1 DEF Walked
<1>5. Def(f)
  <2>1. ASSUME NEW t \in 0..turns
        PROVE  f[t] = IF t = 0 THEN start ELSE DeleteTurn(f[t - 1])
    <3>1. CASE t = 0
      BY <1>4, <3>1
    <3>2. CASE t # 0
      <4>1. t \in 1..turns
        BY <1>2, <3>2
      <4> QED BY <1>4, <3>2, <4>1
    <3> QED BY <3>1, <3>2
  <2>2. [t \in 0..turns |-> f[t]] =
          [t \in 0..turns |-> IF t = 0 THEN start ELSE DeleteTurn(f[t - 1])]
    BY <2>1
  <2> QED BY <1>4, <2>2
<1>6. Def(W)
  BY <1>5
<1>7. delete_tree(e) = IF entries[e].dir THEN W[turns] ELSE RemoveFile(start, e)
  BY <1>1 DEF delete_tree
<1>8. PICK w : w = W /\ \A t \in 0..turns : w[t] = IF t = 0 THEN start ELSE DeleteTurn(w[t - 1])
  BY <1>6
<1> HIDE DEF W
<1>9. \A t \in 0..turns : WalkSound(w[t], s)
  <2> DEFINE Bad == {t \in 0..turns : ~WalkSound(w[t], s)}
  <2>1. ASSUME Bad # {} PROVE FALSE
    <3>1. Bad \subseteq Nat
      OBVIOUS
    <3>2. PICK t \in Bad : \A u \in Bad : t <= u
      <4> HIDE DEF Bad
      <4> QED BY <2>1, <3>1, LeastNatural
    <3>3. t \in 0..turns /\ t # 0
      <4>1. t \in 0..turns /\ ~WalkSound(w[t], s)
        BY <3>2
      <4> QED BY <1>2, <1>3, <1>8, <4>1
    <3>4. t - 1 \in 0..turns /\ ~(t <= t - 1)
      BY <1>2, <3>3
    <3>5. WalkSound(w[t - 1], s)
      BY <3>2, <3>4
    <3>6. w[t] = DeleteTurn(w[t - 1])
      BY <1>8, <3>3
    <3>7. WalkSound(w[t], s)
      BY <3>5, <3>6, DeleteTurnSound
    <3> QED BY <3>2, <3>7
  <2> QED BY <2>1
<1>10. WalkSound(RemoveFile(start, e), s)
  BY <1>2, <1>3, RemoveFileSound
<1>11. WalkSound(delete_tree(e), s)
  <2>1. turns \in 0..turns
    BY <1>2
  <2> QED BY <1>7, <1>8, <1>9, <1>10, <2>1
<1> QED BY <1>11 DEF WalkSound, Walks

-----------------------------------------------------------------------------
(* What each actor does to the disks and the kernel.                        *)

Gains(p, kind) ==
  /\ p \in Paths /\ Len(p) > 1 /\ IsDir(Front(p)) /\ p \notin DOMAIN disk
  /\ kind \in {"file", "dir"} /\ DiskGains(p, kind)

Loses(gone, dropped) ==
  /\ gone \subseteq DOMAIN disk
  /\ \A r \in DOMAIN disk \ gone : Len(r) > 1 => Front(r) \notin gone
  /\ DiskLoses(gone, dropped)

Moves(p, q) == q \in Paths /\ CanMove(p, q) /\ DiskMoves(p, q)

\* A step that changes no disk and takes no event.
Quiet ==
  /\ UNCHANGED disk
  /\ \/ UNCHANGED <<watches, next_wd, events>>
     \/ UNCHANGED <<watches, next_wd>> /\ \E p \in Paths : events' = Queued(p, "modify")
     \/ UNCHANGED <<next_wd, events>> /\ \E S : watches' = Restrict(watches, DOMAIN watches \ S)
     \/ RegisterWatch

\* A change of what storage s holds.
ChangesStorage(s) ==
  \/ \E p, kind : Gains(p, kind) /\ p[1] = s
  \/ \E gone, dropped : Loses(gone, dropped) /\ \A r \in gone : r[1] = s
  \/ \E p, q : Moves(p, q) /\ p[1] = s /\ q[1] = s

\* A path that resolves is the one put together, and in a directory that is there.
LEMMA ResolvedIs ==
  ASSUME Sane, KernelOK, NEW i \in DOMAIN entries,
         NEW p, p = build_full_path(i), p # <<>>
  PROVE  /\ p = PathOf(i) /\ p \in Paths /\ p[1] = entries[i].storage
         /\ p \notin DOMAIN disk => Len(p) > 1 /\ IsDir(Front(p))
<1>1. i # 0
  BY EntriesAreEntries DEF Sane
<1>2. p = Resolved(PathOf(i), entries[i].name \in Names)
  BY <1>1 DEF build_full_path
<1>3. p = PathOf(i) /\ (p \notin DOMAIN disk => Len(p) > 1 /\ IsDir(Front(p)))
  BY <1>2 DEF Resolved
<1> QED BY <1>3, PathOfTyped

\* The path under another name is in the same folder.
LEMMA RenamedIs ==
  ASSUME Sane, KernelOK, NEW i \in DOMAIN entries, NEW n \in Names,
         NEW q, q = PathRenamed(i, n), q # <<>>
  PROVE  q \in Paths /\ q[1] = entries[i].storage
<1>1. PICK p \in Paths : p = PathOf(i) /\ p[1] = entries[i].storage
  BY PathOfTyped
<1>2. PICK folder : folder = IF entries[i].name \in Names THEN Front(p) ELSE p
  OBVIOUS
<1>3. folder \in Paths /\ folder[1] = entries[i].storage
  <2>1. CASE entries[i].name \in Names
    <3>1. PICK b : b = IF Above(i) = 0 THEN <<entries[i].storage>> ELSE PathOf(Above(i))
      OBVIOUS
    <3>2. b \in Seq(Places) /\ Len(b) \in Nat /\ Len(b) >= 1
      <4>1. CASE Above(i) = 0
        <5>1. entries[i].storage \in Storages
          BY EntriesAreEntries DEF Sane, Entry
        <5> QED BY <3>1, <4>1, <5>1 DEF Places
      <4>2. CASE Above(i) # 0
        <5>1. Above(i) \in DOMAIN entries
          BY <4>2, AboveOlder DEF LiveEntries
        <5>2. b \in Paths
          BY <3>1, <4>2, <5>1, PathOfTyped
        <5> QED BY <5>2 DEF Paths
      <4> QED BY <4>1, <4>2
    <3>3. p = Append(b, entries[i].name)
      BY <1>1, <2>1, <3>1, PathOfChild
    <3>4. entries[i].name \in Places
      BY <2>1 DEF Places
    <3>5. Len(p) > 1
      BY <3>2, <3>3, <3>4, AppendProperties
    <3> QED BY <1>1, <1>2, <2>1, <3>5, PathEnds
  <2>2. CASE entries[i].name \notin Names
    BY <1>1, <1>2, <2>2
  <2> QED BY <2>1, <2>2
<1>4. q = Append(folder, n)
  BY <1>1, <1>2 DEF PathRenamed, Resolved
<1> QED BY <1>3, <1>4, PathGrows

\* The entry of a handle and a storage is of that storage.
LEMMA EntryOnStorage ==
  ASSUME DbTypeOK, NEW h, NEW s, NEW i, i = get_entry_by_handle_and_storageid(h, s), i # 0
  PROVE  i \in LiveEntries /\ entries[i].storage = s
<1>1. PICK S : S = {j \in LiveEntries : entries[j].handle = h /\ entries[j].storage = s}
  OBVIOUS
<1>2. i = FirstInList(S)
  BY <1>1 DEF get_entry_by_handle_and_storageid
<1>3. S \subseteq 1..Len(entries) /\ Len(entries) \in Nat
  BY <1>1, EntriesAreEntries DEF LiveEntries
<1>4. i \in S
  BY <1>2, <1>3, FirstInListFinds
<1> QED BY <1>1, <1>4

\* SendObjectInfo makes an object in a folder of a storage that is not read-only.
LEMMA SendObjectInfoChanges ==
  ASSUME Sane, KernelOK, NEW s, NEW h, NEW n \in Names, NEW kind, SendObjectInfo(s, h, n, kind)
  PROVE  Quiet \/ \E st : st \notin ReadOnly /\ ChangesStorage(st)
<1>1. PICK i, folder : /\ i = get_entry_by_handle_and_storageid(h, s)
                       /\ folder = build_full_path(i)
  OBVIOUS
<1>2. PICK p : p = Append(folder, n)
  OBVIOUS
<1>3. /\ s \notin ReadOnly /\ i # 0
      /\ \/ /\ IsDir(folder) /\ p \notin DOMAIN disk
            /\ \E k \in {"file", "dir"} : DiskGains(p, k)
         \/ IsDir(folder) /\ events' = Queued(p, "modify") /\ UNCHANGED diskVars
         \/ UNCHANGED <<diskVars, events>>
  BY <1>1, <1>2 DEF SendObjectInfo, IsFolder
<1>4. CASE UNCHANGED <<diskVars, events>>
  BY <1>4 DEF Quiet, diskVars
<1>5. CASE IsDir(folder)
  <2>1. i \in DOMAIN entries /\ entries[i].storage = s
    BY <1>1, <1>3, EntryOnStorage DEF Sane, LiveEntries
  <2>2. folder # <<>>
    <3>1. folder \in Paths
      BY <1>5 DEF IsDir, KernelOK, DiskTree
    <3> QED BY <3>1 DEF Paths
  <2>3. folder \in Paths /\ folder[1] = s
    BY <1>1, <2>1, <2>2, ResolvedIs
  <2>4. p \in Paths /\ Len(p) > 1 /\ Front(p) = folder /\ p[1] = s
    BY <1>2, <2>3, PathGrows
  <2>5. CASE events' = Queued(p, "modify") /\ UNCHANGED diskVars
    BY <2>4, <2>5 DEF Quiet, diskVars
  <2>6. CASE p \notin DOMAIN disk /\ \E k \in {"file", "dir"} : DiskGains(p, k)
    <3>1. \E k : Gains(p, k)
      BY <1>5, <2>4, <2>6 DEF Gains
    <3> QED BY <1>3, <2>4, <3>1 DEF ChangesStorage
  <2> QED BY <1>3, <1>4, <2>5, <2>6
<1> QED BY <1>3, <1>4, <1>5

\* SendObject opens the object it was told of.
LEMMA SendObjectChanges ==
  ASSUME Sane, KernelOK, SendObject
  PROVE  Quiet \/ \E st : st \notin ReadOnly /\ ChangesStorage(st)
<1>1. PICK i, p : i = get_entry_by_handle(sendHandle) /\ p = build_full_path(i)
  OBVIOUS
<1>2. /\ p # <<>> /\ MayWrite(i)
      /\ \/ p \notin DOMAIN disk /\ DiskGains(p, "file")
         \/ events' = Queued(p, "modify") /\ UNCHANGED diskVars
  BY <1>1 DEF SendObject
<1>3. i \in DOMAIN entries
  BY <1>1, <1>2, ResolvedIsEntry, LookupsFind DEF Sane, DbTypeOK, LiveEntries
<1>4. /\ p \in Paths /\ p[1] = entries[i].storage
      /\ p \notin DOMAIN disk => Len(p) > 1 /\ IsDir(Front(p))
  BY <1>1, <1>2, <1>3, ResolvedIs
<1>5. CASE events' = Queued(p, "modify") /\ UNCHANGED diskVars
  BY <1>4, <1>5 DEF Quiet, diskVars
<1>6. CASE p \notin DOMAIN disk /\ DiskGains(p, "file")
  <2>1. Gains(p, "file")
    BY <1>4, <1>6 DEF Gains
  <2> QED BY <1>2, <1>4, <2>1 DEF ChangesStorage, MayWrite
<1> QED BY <1>2, <1>5, <1>6

\* DeleteObject removes objects of the storage of the one it was asked for.
LEMMA DeleteObjectChanges ==
  ASSUME Sane, KernelOK, NEW h, DeleteObject(h)
  PROVE  \E st : st \notin ReadOnly /\ ChangesStorage(st)
<1>1. PICK e : e = get_entry_by_handle(h)
  OBVIOUS
<1>2. PICK left, dropped : /\ left = delete_tree(e).left
                           /\ DiskLoses(DOMAIN disk \ left, dropped)
  BY <1>1 DEF DeleteObject
<1>3. build_full_path(e) # <<>> /\ MayWrite(e)
  BY <1>1 DEF DeleteObject
<1>4. e \in LiveEntries
  BY <1>1, <1>3, ResolvedIsEntry, LookupsFind DEF Sane, DbTypeOK
<1>5. PICK s : s = entries[e].storage
  OBVIOUS
<1>6. /\ left \subseteq DOMAIN disk
      /\ \A r \in left : Len(r) > 1 => Front(r) \in left
      /\ \A r \in DOMAIN disk \ left : r[1] = s
  BY <1>2, <1>4, <1>5, DeleteTreeSound DEF KernelOK
<1>7. Loses(DOMAIN disk \ left, dropped)
  BY <1>2, <1>6 DEF Loses
<1> QED BY <1>3, <1>5, <1>6, <1>7 DEF ChangesStorage, MayWrite

\* The paths a rename has put together are on the storage of its object, which
\* is not read-only.
RequestPaths ==
  io.op \in {"naming", "moving"} =>
    /\ io.path \in Paths /\ io.path[1] = entries[io.idx].storage
    /\ entries[io.idx].storage \notin ReadOnly
    /\ io.op = "moving" => io.to \in Paths /\ io.to[1] = entries[io.idx].storage

\* The first path is the one of the entry.
LEMMA RenameStarts ==
  ASSUME Sane, KernelOK, NEW h, NEW n \in Names, RenameStart(h, n)
  PROVE  /\ io.op = "idle" /\ io'.op = "naming" /\ io'.name = n
         /\ io'.idx \in LiveEntries /\ entries[io'.idx].handle = h
         /\ io'.path = PathOf(io'.idx) /\ io'.path \in Paths
         /\ io'.path[1] = entries[io'.idx].storage
         /\ entries[io'.idx].storage \notin ReadOnly
         /\ UNCHANGED <<dbVars, diskVars, events, ino, unmirrored, overwritten>>
<1>1. PICK i, p : i = get_entry_by_handle(h) /\ p = build_full_path(i)
  OBVIOUS
<1>2. p # <<>> /\ MayWrite(i) /\ io.op = "idle"
  BY <1>1 DEF RenameStart, IoReady
<1>3. i \in LiveEntries /\ entries[i].handle = h /\ i \in DOMAIN entries
  BY <1>1, <1>2, ResolvedIsEntry, LookupsFind DEF Sane, DbTypeOK, LiveEntries
<1>4. p = PathOf(i) /\ p \in Paths /\ p[1] = entries[i].storage
  BY <1>1, <1>2, <1>3, ResolvedIs
<1>5. io' = [IoIdle EXCEPT !.op = "naming", !.idx = i, !.name = n, !.path = p]
  BY <1>1 DEF RenameStart
<1>6. io'.op = "naming" /\ io'.idx = i /\ io'.name = n /\ io'.path = p
  BY <1>5 DEF IoIdle
<1> QED BY <1>2, <1>3, <1>4, <1>6 DEF MayWrite, RenameStart

\* The second path is given up, or of the same storage.
LEMMA RenamePaths ==
  ASSUME Sane, KernelOK, RenamePath
  PROVE  /\ io.op = "naming" /\ io.idx \in DOMAIN entries /\ io.name \in Names
         /\ UNCHANGED <<dbVars, diskVars, events, ino, unmirrored, overwritten>>
         /\ \/ io' = IoIdle
            \/ /\ io'.op = "moving" /\ io'.idx = io.idx /\ io'.name = io.name
               /\ io'.path = io.path /\ io'.to = PathRenamed(io.idx, io.name)
               /\ io'.to # <<>> /\ io'.to \in Paths /\ io'.to[1] = entries[io.idx].storage
<1>1. PICK q : q = PathRenamed(io.idx, io.name)
  OBVIOUS
<1>2. io.op = "naming" /\ io.idx \in DOMAIN entries /\ io.name \in Names
  BY EntriesAreEntries DEF RenamePath, Sane, DbTypeOK, RenameOps
<1>3. CASE q = <<>>
  BY <1>1, <1>2, <1>3 DEF RenamePath
<1>4. CASE q # <<>>
  <2>1. io' = [io EXCEPT !.op = "moving", !.to = q] /\ DOMAIN io = DOMAIN IoIdle
    BY <1>1, <1>4 DEF RenamePath, Sane, DbTypeOK
  <2>2. /\ io'.op = "moving" /\ io'.idx = io.idx /\ io'.name = io.name
        /\ io'.path = io.path /\ io'.to = q
    BY <2>1 DEF IoIdle
  <2>3. q \in Paths /\ q[1] = entries[io.idx].storage
    BY <1>1, <1>2, <1>4, RenamedIs
  <2> QED BY <1>1, <1>2, <1>4, <2>2, <2>3 DEF RenamePath
<1> QED BY <1>3, <1>4

\* A step that is about another request, or no step of the host.
LEMMA RequestPathsStep ==
  ASSUME Sane, KernelOK, RequestPaths, [Next]_vars
  PROVE  RequestPaths'
<1>0. DbTypeOK
  BY DEF Sane
<1>1. CASE io'.op \notin {"naming", "moving"}
  BY <1>1 DEF RequestPaths
<1>2. CASE OpenSession \/ CloseSession
  <2>1. io' = io /\ io.op = "idle"
    BY <1>2 DEF OpenSession, CloseSession, IoReady
  <2> QED BY <1>1, <2>1
<1>3. CASE \E h \in 1..next_handle - 1 : \E n \in Names : RenameStart(h, n)
  BY <1>3, RenameStarts DEF RequestPaths, dbVars
<1>4. CASE RenamePath
  BY <1>1, <1>4, RenamePaths DEF RequestPaths, IoIdle, dbVars
<1>5. CASE DbStep /\ io' = io
  <2>1. io.op \in {"naming", "moving"} => io.idx \in DOMAIN entries
    BY <1>0, EntriesAreEntries DEF DbTypeOK, RenameOps
  <2> QED BY <1>5, <2>1 DEF RequestPaths, DbStep, Kept
<1>6. CASE RegisterWatch \/ RenameInsert \/ SendResponse
  <2>1. io' = IoIdle
    BY <1>6 DEF RegisterWatch, RenameInsert, SendResponse
  <2> QED BY <1>1, <2>1 DEF IoIdle
<1>8. CASE RenameOnDisk
  <2>1. CASE io' = IoIdle
    BY <1>1, <2>1 DEF IoIdle
  <2>2. CASE io' = [IoIdle EXCEPT !.op = "renaming", !.idx = io.idx, !.name = io.name]
    <3>1. io'.op = "renaming"
      BY <2>2 DEF IoIdle
    <3> QED BY <1>1, <3>1
  <2> QED BY <1>8, <2>1, <2>2 DEF RenameOnDisk
<1>9. ASSUME NEW h, NEW s, HostScans(h, s) PROVE RequestPaths'
  <2>1. CASE io' = IoIdle
    BY <1>1, <2>1 DEF IoIdle
  <2>2. ASSUME NEW i, NEW p, io' = [IoIdle EXCEPT !.op = "listing", !.idx = i, !.parent = h,
                                                  !.storage = s, !.path = p]
        PROVE  RequestPaths'
    <3>1. io'.op = "listing"
      BY <2>2 DEF IoIdle
    <3> QED BY <1>1, <3>1
  <2> QED BY <1>9, <2>1, <2>2 DEF HostScans, ScanFolder
<1>7. CASE RenameRemove \/ RenameName
  <2>1. io'.op \in {"removed", "named"}
    BY <1>0, <1>7 DEF RenameRemove, RenameName, RenameStep, DbTypeOK, IoIdle
  <2> QED BY <1>1, <2>1
<1> QED BY <1>0, <1>1, <1>2, <1>3, <1>4, <1>5, <1>6, <1>7, <1>8, <1>9, IoChanges, NextStep
        DEF Renamer

\* A rename on disk stays on the storage of the object.
LEMMA RenameOnDiskChanges ==
  ASSUME Sane, KernelOK, RequestPaths, RenameOnDisk
  PROVE  Quiet \/ \E st : st \notin ReadOnly /\ ChangesStorage(st)
<1>1. PICK p, q, s : p = io.path /\ q = io.to /\ s = entries[io.idx].storage
  OBVIOUS
<1>2. q \in Paths /\ p[1] = s /\ q[1] = s /\ s \notin ReadOnly
  BY <1>1 DEF RequestPaths, RenameOnDisk
<1>3. UNCHANGED <<diskVars, events>> \/ (CanMove(p, q) /\ DiskMoves(p, q))
  BY <1>1 DEF RenameOnDisk
<1>4. CASE UNCHANGED <<diskVars, events>>
  BY <1>4 DEF Quiet, diskVars
<1>5. CASE CanMove(p, q) /\ DiskMoves(p, q)
  <2>1. Moves(p, q)
    BY <1>2, <1>5 DEF Moves
  <2> QED BY <1>2, <2>1 DEF ChangesStorage
<1> QED BY <1>3, <1>4, <1>5

\* The host changes nothing on disk but on a storage that is not read-only.
LEMMA HostChanges ==
  ASSUME Sane, KernelOK, RequestPaths, Host
  PROVE  Quiet \/ \E st : st \notin ReadOnly /\ ChangesStorage(st)
<1>1. CASE OpenSession \/ CloseSession \/ RenameInsert \/ SendResponse
  BY <1>1 DEF OpenSession, CloseSession, RenameInsert, SendResponse, Quiet, diskVars
<1>5. CASE Renamer
  BY <1>5, RenamerKeeps DEF Quiet, diskVars
<1>2. CASE RegisterWatch
  BY <1>2 DEF RegisterWatch, Quiet
<1>3. ASSUME NEW h, NEW s, ScanFolder(h, s) PROVE Quiet
  BY <1>3 DEF ScanFolder, Quiet
<1>4. ASSUME NEW h, SendPartialObject(h) PROVE Quiet
  BY <1>4 DEF SendPartialObject, Quiet, diskVars
<1> QED BY <1>1, <1>2, <1>3, <1>4, <1>5, SendObjectChanges, SendObjectInfoChanges,
           DeleteObjectChanges, RenameOnDiskChanges DEF Host, Renamer

\* A watch is set on a folder that is there, with a new descriptor.
LEMMA RegisterWatchKeeps ==
  ASSUME KernelOK, RegisterWatch
  PROVE  KernelOK' /\ events' = events
<1>1. disk' = disk /\ events' = events
  BY DEF RegisterWatch
<1>2. \/ UNCHANGED <<watches, next_wd>>
      \/ /\ io.path \in DOMAIN disk /\ next_wd' = next_wd + 1
         /\ watches' = [w \in DOMAIN watches \cup {next_wd} |->
                          IF w = next_wd THEN io.path ELSE watches[w]]
  BY DEF RegisterWatch
<1>3. WatchesSet'
  <2>1. CASE UNCHANGED <<watches, next_wd>>
    BY <1>1, <2>1 DEF KernelOK, WatchesSet
  <2>2. CASE /\ io.path \in DOMAIN disk /\ next_wd' = next_wd + 1
             /\ watches' = [w \in DOMAIN watches \cup {next_wd} |->
                              IF w = next_wd THEN io.path ELSE watches[w]]
    <3>1. next_wd \in Nat \ {0} /\ next_wd' \in Nat \ {0}
      BY <2>2 DEF KernelOK, WatchesSet
    <3>2. ASSUME NEW w \in DOMAIN watches'
          PROVE  w \in Nat /\ w < next_wd' /\ watches'[w] \in DOMAIN disk'
      <4>1. CASE w = next_wd
        BY <1>1, <2>2, <3>1, <4>1
      <4>2. CASE w # next_wd
        <5>1. w \in DOMAIN watches /\ watches'[w] = watches[w]
          BY <2>2, <4>2
        <5>2. w \in Nat /\ w < next_wd /\ watches[w] \in DOMAIN disk
          BY <5>1 DEF KernelOK, WatchesSet
        <5> QED BY <1>1, <2>2, <3>1, <5>1, <5>2
      <4> QED BY <4>1, <4>2
    <3> QED BY <3>1, <3>2 DEF WatchesSet
  <2> QED BY <1>2, <2>1, <2>2
<1>4. DiskTree'
  BY <1>1 DEF KernelOK, DiskTree, IsDir
<1> QED BY <1>1, <1>3, <1>4 DEF KernelOK

\* Watches are dropped.
LEMMA DropKeeps ==
  ASSUME KernelOK, UNCHANGED <<disk, next_wd>>,
         NEW S, watches' = Restrict(watches, DOMAIN watches \ S)
  PROVE  DiskTree' /\ WatchesSet'
<1>1. \A w \in DOMAIN watches' : w \in DOMAIN watches /\ watches'[w] = watches[w]
  BY DEF Restrict
<1>2. WatchesSet'
  BY <1>1 DEF KernelOK, WatchesSet
<1>3. DiskTree'
  BY DEF KernelOK, DiskTree, IsDir
<1> QED BY <1>2, <1>3

\* Nor does a step that changes no disk break it.
LEMMA QuietKeeps ==
  ASSUME KernelOK, Quiet
  PROVE  KernelOK' /\ Len(events') >= Len(events) /\ DOMAIN disk' = DOMAIN disk
<1>1. disk' = disk /\ Len(events) \in Nat /\ events \in Seq(InotifyEvent)
  BY DEF Quiet, KernelOK
<1>2. ASSUME UNCHANGED <<watches, next_wd>>, events' \in Seq(InotifyEvent) PROVE KernelOK'
  <2>1. WatchesSet'
    BY <1>1, <1>2 DEF KernelOK, WatchesSet
  <2>2. DiskTree'
    BY <1>1 DEF KernelOK, DiskTree, IsDir
  <2> QED BY <1>2, <2>1, <2>2 DEF KernelOK
<1>3. CASE UNCHANGED <<watches, next_wd, events>>
  BY <1>1, <1>2, <1>3
<1>4. CASE UNCHANGED <<watches, next_wd>> /\ \E p \in Paths : events' = Queued(p, "modify")
  <2>1. events' \in Seq(InotifyEvent) /\ Len(events') >= Len(events)
    BY <1>4, QueuedTyped
  <2> QED BY <1>1, <1>2, <1>4, <2>1
<1>5. CASE UNCHANGED <<next_wd, events>> /\ \E S : watches' = Restrict(watches, DOMAIN watches \ S)
  <2>1. DiskTree' /\ WatchesSet'
    BY <1>1, <1>5, DropKeeps
  <2> QED BY <1>1, <1>5, <2>1 DEF KernelOK
<1>6. CASE RegisterWatch
  BY <1>1, <1>6, RegisterWatchKeeps
<1> QED BY <1>3, <1>4, <1>5, <1>6 DEF Quiet

\* The local users make, remove and move objects.
LEMMA LocalChanges ==
  ASSUME KernelOK, LocalUser
  PROVE  \/ Quiet \/ \E p, kind : Gains(p, kind)
         \/ \E gone, dropped : Loses(gone, dropped)
         \/ \E p, q : Moves(p, q)
<1>1. \A p \in DOMAIN disk : p \in Paths
  BY DEF KernelOK, DiskTree
<1>2. ASSUME NEW p \in DOMAIN disk, LocalRemove(p) PROVE Loses({p}, {})
  <2>1. DiskLoses({p}, {}) /\ Listing(p) = {}
    BY <1>2 DEF LocalRemove
  <2>2. ASSUME NEW r \in DOMAIN disk, Len(r) > 1, Front(r) = p PROVE FALSE
    <3>1. Append(p, Last(r)) = r /\ Last(r) \in Names
      BY <1>1, <2>2, PathEnds
    <3> QED BY <2>1, <3>1 DEF Listing
  <2> QED BY <2>1, <2>2 DEF Loses
<1>3. ASSUME NEW p \in DOMAIN disk, LocalWrite(p) PROVE Quiet
  BY <1>1, <1>3 DEF LocalWrite, Quiet, diskVars
<1>4. ASSUME NEW p \in DOMAIN disk, NEW n \in Names, NEW kind \in {"file", "dir"},
             IsDir(p), LocalCreate(Append(p, n), kind)
      PROVE  Gains(Append(p, n), kind)
  <2>1. PICK q : q = Append(p, n)
    OBVIOUS
  <2>2. q \in Paths /\ Len(q) > 1 /\ Front(q) = p
    BY <1>1, <2>1, PathGrows
  <2>3. q \notin DOMAIN disk /\ DiskGains(q, kind)
    BY <1>4, <2>1 DEF LocalCreate
  <2>4. Gains(q, kind)
    BY <1>4, <2>2, <2>3 DEF Gains
  <2> QED BY <2>1, <2>4
<1>5. ASSUME NEW p, NEW q \in DOMAIN disk, NEW n \in Names, LocalMove(p, Append(q, n))
      PROVE  Moves(p, Append(q, n))
  <2>1. PICK r : r = Append(q, n)
    OBVIOUS
  <2>2. r \in Paths
    BY <1>1, <2>1, PathGrows
  <2>3. CanMove(p, r) /\ DiskMoves(p, r)
    BY <1>5, <2>1 DEF LocalMove
  <2>4. Moves(p, r)
    BY <2>2, <2>3 DEF Moves
  <2> QED BY <2>1, <2>4
<1> QED BY <1>2, <1>3, <1>4, <1>5 DEF LocalUser

\* The commands of the message queue do not reach the disks.
LEMMA MsgQueueChanges ==
  ASSUME MsgQueue
  PROVE  Quiet
<1>1. ASSUME NEW s, umount_store(s), UNCHANGED <<disk, next_wd, events>> PROVE Quiet
  BY <1>1 DEF umount_store, Quiet
<1>2. ASSUME UNCHANGED <<disk, watches, next_wd, events>> PROVE Quiet
  BY <1>2 DEF Quiet
<1>3. ASSUME NEW s, Mount(s) \/ Unmount(s) PROVE Quiet
  BY <1>1, <1>2, <1>3 DEF Mount, Unmount, Command, mount_store
<1>4. ASSUME NEW cmd, LockCommand(cmd) PROVE Quiet
  BY <1>2, <1>4 DEF LockCommand, diskVars
<1>5. CASE LockStep
  BY <1>1, <1>2, <1>5 DEF LockStep, Command, mount_store
<1> QED BY <1>3, <1>4, <1>5 DEF MsgQueue

\* The changes of the disks, whoever makes them.
LEMMA ChangesKeep ==
  ASSUME KernelOK
  PROVE  /\ \A p, kind : Gains(p, kind) =>
              /\ KernelOK' /\ Len(events') >= Len(events)
              /\ DOMAIN disk' = DOMAIN disk \cup {p}
         /\ \A gone, dropped : Loses(gone, dropped) =>
              /\ KernelOK' /\ Len(events') >= Len(events)
              /\ DOMAIN disk' = DOMAIN disk \ gone
         /\ \A p, q : Moves(p, q) => KernelOK' /\ Len(events') >= Len(events)
<1>1. ASSUME NEW p, NEW kind, Gains(p, kind)
      PROVE  /\ KernelOK' /\ Len(events') >= Len(events)
             /\ DOMAIN disk' = DOMAIN disk \cup {p}
  BY <1>1, GainsKeep DEF Gains
<1>2. ASSUME NEW gone, NEW dropped, Loses(gone, dropped)
      PROVE  /\ KernelOK' /\ Len(events') >= Len(events)
             /\ DOMAIN disk' = DOMAIN disk \ gone
  BY <1>2, LosesKeep DEF Loses
<1>3. ASSUME NEW p, NEW q, Moves(p, q) PROVE KernelOK' /\ Len(events') >= Len(events)
  BY <1>3, MovesKeep DEF Moves
<1> QED BY <1>1, <1>2, <1>3

\* The inotify thread takes events, of which there is one when it is at work.
InoOK ==
  /\ ino.phase \in {"idle", "loop", "push"} /\ ino.pos \in 0..Len(entries)
  /\ ino.phase # "idle" => events # <<>>
  /\ ino.phase # "push" => ino.code = "none"
  /\ ino.code = "ObjectAdded" => ino.handle \in Nat

\* The inotify thread takes events from the head of the queue and drops watches.
LEMMA InotifyKeeps ==
  ASSUME DbTypeOK, KernelOK, InoOK, Inotify
  PROVE  KernelOK'
<1>1. /\ UNCHANGED <<disk, next_wd>>
      /\ UNCHANGED watches \/ \E S : watches' = Restrict(watches, DOMAIN watches \ S)
  BY DEF Inotify, InotifySkip, InotifyCreate, InotifyModify, InotifyDelete, InotifyPush,
         InotifyTurn, diskVars
<1>2. events # <<>> /\ (events' = events \/ events' = Tail(events))
  <2>1. CASE InotifyPush
    BY <2>1 DEF InotifyPush, InoOK
  <2>2. CASE InotifySkip \/ InotifyCreate \/ InotifyModify \/ InotifyDelete
    <3>1. events # <<>>
      BY <2>2 DEF InotifySkip, InotifyCreate, InotifyModify, InotifyDelete, InotifyTurn
    <3>2. \E i, code, h : InotifyMoves(i, code, h)
      BY <2>2 DEF InotifySkip, InotifyCreate, InotifyModify, InotifyDelete
    <3>3. events' = events \/ events' = Tail(events)
      BY <3>2 DEF InotifyMoves
    <3> QED BY <3>1, <3>3
  <2> QED BY <2>1, <2>2 DEF Inotify
<1>3. events' \in Seq(InotifyEvent)
  BY <1>2, HeadTailProperties DEF KernelOK
<1>4. DiskTree' /\ WatchesSet'
  <2>1. CASE UNCHANGED watches
    BY <1>1, <2>1 DEF KernelOK, DiskTree, WatchesSet, IsDir
  <2>2. CASE \E S : watches' = Restrict(watches, DOMAIN watches \ S)
    BY <1>1, <2>2, DropKeeps
  <2> QED BY <1>1, <2>1, <2>2
<1> QED BY <1>3, <1>4 DEF KernelOK

\* Every step keeps the disks trees; only the inotify thread takes events.
LEMMA KernelStep ==
  ASSUME Sane, KernelOK, InoOK, RequestPaths, [Next]_vars
  PROVE  KernelOK' /\ (Inotify \/ Len(events') >= Len(events))
<1>1. CASE Host
  BY <1>1, HostChanges, QuietKeeps, ChangesKeep DEF ChangesStorage
<1>2. CASE Inotify
  BY <1>2, InotifyKeeps DEF Sane
<1>3. CASE MsgQueue
  BY <1>3, MsgQueueChanges, QuietKeeps
<1>4. CASE LocalUser
  BY <1>4, LocalChanges, QuietKeeps, ChangesKeep
<1>5. CASE UNCHANGED vars
  <2>1. Quiet
    BY <1>5 DEF vars, diskVars, Quiet
  <2> QED BY <2>1, QuietKeeps
<1> QED BY <1>1, <1>2, <1>3, <1>4, <1>5 DEF Next

-----------------------------------------------------------------------------
(* The inotify thread, and the theorems.                                    *)

\* Only the inotify thread moves on in the queue.
LEMMA InoKept ==
  ASSUME [Next]_vars
  PROVE  Inotify \/ ino' = ino
<1>1. CASE Host
  <2>1. CASE OpenSession \/ CloseSession \/ RegisterWatch \/ RenameInsert \/ SendObject
               \/ SendResponse \/ RenameOnDisk
    BY <2>1 DEF OpenSession, CloseSession, RegisterWatch, RenameInsert, SendObject,
                SendResponse, RenameOnDisk
  <2>2. ASSUME NEW h, NEW s, ScanFolder(h, s) PROVE ino' = ino
    BY <2>2 DEF ScanFolder
  <2>3. ASSUME NEW s, NEW h, NEW n, NEW kind, SendObjectInfo(s, h, n, kind) PROVE ino' = ino
    BY <2>3 DEF SendObjectInfo
  <2>4. ASSUME NEW h, SendPartialObject(h) \/ DeleteObject(h) PROVE ino' = ino
    BY <2>4 DEF SendPartialObject, DeleteObject
  <2>5. CASE Renamer
    BY <2>5, RenamerKeeps
  <2> QED BY <1>1, <2>1, <2>2, <2>3, <2>4, <2>5 DEF Host, Renamer
<1>2. CASE MsgQueue
  BY <1>2 DEF MsgQueue, Mount, Unmount, LockCommand, LockStep, Command
<1>3. CASE LocalUser
  BY <1>3 DEF LocalUser, LocalCreate, LocalRemove, LocalMove, LocalWrite, Local
<1>4. CASE UNCHANGED vars
  BY <1>4 DEF vars
<1> QED BY <1>1, <1>2, <1>3, <1>4 DEF Next

\* The entry of a descriptor.
LEMMA TurnsEntry ==
  ASSUME DbTypeOK
  PROVE  InotifyEntry \in 0..Len(entries) /\ (InotifyEntry # 0 => InotifyEntry \in LiveEntries)
<1>1. InotifyEntry # 0 => InotifyEntry \in LiveEntries
  BY LookupsFind DEF InotifyEntry, DbTypeOK
<1> QED BY <1>1, EntriesAreEntries DEF LiveEntries

\* What the inotify thread keeps after one entry.
LEMMA MovesOn ==
  ASSUME DbTypeOK, events # <<>>, Len(entries') \in Nat, Len(entries') >= Len(entries),
         NEW i \in 0..Len(entries), NEW code, NEW h, InotifyMoves(i, code, h),
         code = "ObjectAdded" => h \in Nat
  PROVE  InoOK'
<1>1. PICK pos \in 0..Len(entries') : pos = IF i = 0 THEN 0 ELSE i - 1
  BY EntriesAreEntries
<1>2. CASE code # "none"
  <2>1. ino' = [phase |-> "push", pos |-> pos, handle |-> h, code |-> code] /\ events' = events
    BY <1>1, <1>2 DEF InotifyMoves
  <2> QED BY <2>1 DEF InoOK
<1>3. CASE code = "none" /\ pos # 0
  <2>1. ino' = [InoIdle EXCEPT !.phase = "loop", !.pos = pos] /\ events' = events
    BY <1>1, <1>3 DEF InotifyMoves
  <2>2. ino'.phase = "loop" /\ ino'.pos = pos /\ ino'.code = "none"
    BY <2>1 DEF InoIdle
  <2> QED BY <2>1, <2>2 DEF InoOK
<1>4. CASE code = "none" /\ pos = 0
  <2>1. ino' = InoIdle
    BY <1>1, <1>4 DEF InotifyMoves
  <2>2. ino'.phase = "idle" /\ ino'.pos = 0 /\ ino'.code = "none"
    BY <2>1 DEF InoIdle
  <2> QED BY <2>2 DEF InoOK
<1> QED BY <1>2, <1>3, <1>4

\* The thread never waits behind the queue, nor past the end of the list.
LEMMA InoStep ==
  ASSUME Sane, KernelOK, InoOK, RequestPaths, NoEntries, [Next]_vars
  PROVE  InoOK'
<1>0. DbTypeOK /\ Len(entries) \in Nat
  BY EntriesAreEntries DEF Sane
<1>1. CASE OpenSession \/ CloseSession
  <2>1. ino' = ino /\ events' = events /\ ino.pos = 0
    <3>1. CASE CloseSession
      BY <3>1 DEF CloseSession
    <3>2. CASE OpenSession
      <4>1. entries = <<>>
        BY <3>2 DEF OpenSession, NoEntries
      <4>2. ino.pos = 0
        BY <4>1 DEF InoOK
      <4> QED BY <3>2, <4>2 DEF OpenSession
    <3> QED BY <1>1, <3>1, <3>2
  <2>2. Len(entries') \in Nat
    BY <1>0, <1>1, NextStep DEF DbTypeOK
  <2> QED BY <2>1, <2>2 DEF InoOK
<1>2. CASE DbStep
  <2>1. Len(entries') \in Nat /\ Len(entries') >= Len(entries)
    BY <1>0, <1>2 DEF DbStep
  <2>2. CASE InotifySkip \/ InotifyCreate \/ InotifyModify \/ InotifyDelete
    <3>1. events # <<>>
      BY <2>2 DEF InotifySkip, InotifyCreate, InotifyModify, InotifyDelete, InotifyTurn
    <3>2. PICK i \in 0..Len(entries) : i = InotifyEntry
      BY <1>0, TurnsEntry
    <3>3. \E code, h : InotifyMoves(i, code, h) /\ (code = "ObjectAdded" => h \in Nat)
      <4>1. next_handle \in Nat
        BY <1>0 DEF DbTypeOK
      <4>2. InotifySkip => InotifyMoves(i, "none", NONE)
        BY <3>2 DEF InotifySkip
      <4>3. InotifyCreate => \/ InotifyMoves(i, "none", NONE)
                             \/ InotifyMoves(i, "ObjectAdded", next_handle)
        BY <3>2 DEF InotifyCreate
      <4>4. InotifyModify => \/ InotifyMoves(i, "none", NONE)
                             \/ \E h : InotifyMoves(i, "ObjectInfoChanged", h)
        BY <3>2 DEF InotifyModify
      <4>5. InotifyDelete => \/ InotifyMoves(i, "none", NONE)
                             \/ \E h : InotifyMoves(i, "ObjectRemoved", h)
        BY <3>2 DEF InotifyDelete
      <4> QED BY <2>2, <4>1, <4>2, <4>3, <4>4, <4>5
    <3> QED BY <1>0, <2>1, <3>1, <3>3, MovesOn
  <2>3. CASE InotifyPush
    <3>1. CASE ino.pos # 0
      <4>1. ino' = [InoIdle EXCEPT !.phase = "loop", !.pos = ino.pos] /\ events' = events
        BY <2>3, <3>1 DEF InotifyPush
      <4>2. ino'.phase = "loop" /\ ino'.pos = ino.pos /\ ino'.code = "none"
        BY <4>1 DEF InoIdle
      <4>3. events # <<>> /\ ino.pos \in 0..Len(entries')
        BY <1>0, <2>1, <2>3 DEF InotifyPush, InoOK
      <4> QED BY <4>1, <4>2, <4>3 DEF InoOK
    <3>2. CASE ino.pos = 0
      <4>1. ino' = InoIdle
        BY <2>3, <3>2 DEF InotifyPush
      <4>2. ino'.phase = "idle" /\ ino'.pos = 0 /\ ino'.code = "none"
        BY <4>1 DEF InoIdle
      <4> QED BY <2>1, <4>2 DEF InoOK
    <3> QED BY <3>1, <3>2
  <2>4. CASE ~Inotify
    <3>1. ino' = ino /\ KernelOK' /\ Len(events') >= Len(events)
      BY <2>4, InoKept, KernelStep
    <3>2. events # <<>> => events' # <<>>
      <4>1. events \in Seq(InotifyEvent) /\ events' \in Seq(InotifyEvent)
        BY <3>1 DEF KernelOK
      <4> QED BY <3>1, <4>1, EmptySeq
    <3>3. ino.pos \in 0..Len(entries')
      BY <1>0, <2>1 DEF InoOK
    <3> QED BY <3>1, <3>2, <3>3 DEF InoOK
  <2> QED BY <2>2, <2>3, <2>4 DEF Inotify
<1> QED BY <1>0, <1>1, <1>2, NextStep

\* The database, the disks, the inotify thread and the request under way.
Whole == Listed /\ NoEntries /\ KernelOK /\ InoOK /\ RequestPaths

\* At first there are the roots of the storages, and nothing else.
LEMMA InitWhole == Init => Whole
<1> SUFFICES ASSUME Init PROVE Whole
  OBVIOUS
<1>1. Listed
  BY InitTyped DEF Init, Listed, Sane, HandlesUnique, ParentsOlder, NamesKnown, IoIdle,
                    RenameOps
<1>2. NoEntries /\ InoOK /\ RequestPaths
  BY DEF Init, NoEntries, InoOK, InoIdle, RequestPaths, IoIdle
<1>3. DiskTree
  <2>1. PICK S : S = {<<s>> : s \in Storages}
    OBVIOUS
  <2>2. DOMAIN disk = S /\ \A p \in S : disk[p] = "dir"
    BY <2>1 DEF Init
  <2>3. \A p \in S : p \in Paths /\ Len(p) = 1
    <3> SUFFICES ASSUME NEW s \in Storages PROVE <<s>> \in Paths /\ Len(<<s>>) = 1
      BY <2>1
    <3>1. <<s>> \in Seq(Places) /\ Len(<<s>>) = 1 /\ <<s>>[1] = s
      BY DEF Places
    <3>2. 2..1 = {}
      OBVIOUS
    <3> QED BY <3>1, <3>2 DEF Paths
  <2>4. IsFiniteSet(S)
    <3>1. IsFiniteSet(Storages)
      <4>1. NbStorages \in Int
        BY ConstantsAssumption
      <4> QED BY <4>1, FS_Interval DEF Storages
    <3>2. PICK f : f = [s \in Storages |-> <<s>>]
      OBVIOUS
    <3>3. f \in [Storages -> S] /\ \A t \in S : \E s \in Storages : f[s] = t
      BY <2>1, <3>2
    <3>4. f \in Surjection(Storages, S)
      BY <3>3 DEF Surjection
    <3> QED BY <3>1, <3>4, FS_Surjection
  <2>5. ASSUME NEW p \in S PROVE p \in Paths /\ disk[p] = "dir" /\ ~(Len(p) > 1)
    <3>1. Len(p) = 1
      BY <2>3
    <3>2. ~(Len(p) > 1)
      BY <3>1
    <3> QED BY <2>2, <2>3, <3>2
  <2>6. \A p \in DOMAIN disk : /\ p \in Paths /\ disk[p] \in {"file", "dir"}
                               /\ Len(p) > 1 => IsDir(Front(p))
    BY <2>2, <2>5
  <2> QED BY <2>2, <2>4, <2>6 DEF DiskTree
<1>4. WatchesSet /\ events \in Seq(InotifyEvent)
  BY DEF Init, WatchesSet
<1> QED BY <1>1, <1>2, <1>3, <1>4 DEF Whole, KernelOK

\* Each part is kept, given the others.
LEMMA WholeStep ==
  ASSUME Whole, [Next]_vars
  PROVE  Whole'
<1>1. Listed'
  BY NextStep, HandlesUniqueStep, ParentsOlderStep, ResetIsFresh, NamesKnownStep
     DEF Whole, Listed, Sane
<1>2. NoEntries'
  BY NoEntriesStep DEF Whole, Listed, Sane
<1>3. KernelOK' /\ InoOK'
  BY KernelStep, InoStep DEF Whole, Listed
<1>4. RequestPaths'
  BY RequestPathsStep DEF Whole, Listed
<1> QED BY <1>1, <1>2, <1>3, <1>4 DEF Whole

\* Whole is the inductive invariant the theorems below rest on.
LEMMA WholeCorrect == Spec => []Whole
<1>1. Whole /\ [Next]_vars => Whole'
  BY WholeStep
<1> QED BY <1>1, InitWhole, PTL DEF Spec

\* A move on one storage is not seen on another.
LEMMA MoveElsewhere ==
  ASSUME KernelOK, NEW p, NEW q, Moves(p, q), p[1] = q[1], NEW s, s # p[1]
  PROVE  {x \in DOMAIN disk : x[1] = s} = {x \in DOMAIN disk' : x[1] = s}
<1>1. /\ p \in DOMAIN disk /\ p \in Paths /\ q \in Paths
      /\ DOMAIN disk' = {Moved(p, q, x) : x \in DOMAIN disk \ {q}}
      /\ \A x \in DOMAIN disk \ {q} : x \in Paths
  <2>1. q \in Paths /\ CanMove(p, q) /\ DiskMoves(p, q)
    BY DEF Moves
  <2>2. /\ p \in DOMAIN disk /\ p \in Paths /\ p # q
        /\ DOMAIN disk' = {Moved(p, q, x) : x \in DOMAIN disk \ {q}}
        /\ \A x \in DOMAIN disk \ {q} :
             /\ x \in Paths /\ Moved(p, q, x) \in Paths
             /\ disk'[Moved(p, q, x)] = disk[x]
             /\ ~IsPrefix(q, x)
    BY <2>1, MovesWhole
  <2> QED BY <2>1, <2>2
<1>2. ASSUME NEW x \in DOMAIN disk, x[1] = s PROVE x \in DOMAIN disk'
  <2>1. x # q /\ x \in Paths
    BY <1>1, <1>2
  <2>2. ~IsPrefix(p, x)
    BY <1>1, <1>2, <2>1, PathRebased
  <2>3. Moved(p, q, x) = x
    BY <2>2 DEF Moved
  <2> QED BY <1>1, <2>1, <2>3
<1>3. ASSUME NEW y \in DOMAIN disk', y[1] = s PROVE y \in DOMAIN disk
  <2>1. PICK x \in DOMAIN disk \ {q} : y = Moved(p, q, x)
    BY <1>1
  <2>2. CASE IsPrefix(p, x)
    <3>1. y[1] = q[1]
      BY <1>1, <2>1, <2>2, PathRebased DEF Moved
    <3> QED BY <1>3, <3>1
  <2>3. CASE ~IsPrefix(p, x)
    BY <2>1, <2>3 DEF Moved
  <2> QED BY <2>2, <2>3
<1> QED BY <1>2, <1>3

\* A change of what one storage holds is not seen on another.
LEMMA ElsewhereUntouched ==
  ASSUME KernelOK, NEW st, ChangesStorage(st), NEW s, s # st
  PROVE  {x \in DOMAIN disk : x[1] = s} = {x \in DOMAIN disk' : x[1] = s}
<1>1. ASSUME NEW p, NEW kind, Gains(p, kind), p[1] = st
      PROVE  {x \in DOMAIN disk : x[1] = s} = {x \in DOMAIN disk' : x[1] = s}
  BY <1>1, ChangesKeep
<1>2. ASSUME NEW gone, NEW dropped, Loses(gone, dropped), \A r \in gone : r[1] = st
      PROVE  {x \in DOMAIN disk : x[1] = s} = {x \in DOMAIN disk' : x[1] = s}
  BY <1>2, ChangesKeep
<1>3. ASSUME NEW p, NEW q, Moves(p, q), p[1] = st, q[1] = st
      PROVE  {x \in DOMAIN disk : x[1] = s} = {x \in DOMAIN disk' : x[1] = s}
  BY <1>3, MoveElsewhere
<1> QED BY <1>1, <1>2, <1>3 DEF ChangesStorage

\* No host request changes what a read-only storage holds: SendObjectInfo stays
\* in the folder it names, a rename on the storage of the object, and a removal,
\* with all it walks through, on the storage of the object.
THEOREM ReadOnlyUntouchedCorrect == Spec => ReadOnlyUntouched
<1>1. Whole /\ [Next]_vars =>
        [Host => \A s \in ReadOnly :
           {p \in DOMAIN disk : p[1] = s} = {p \in DOMAIN disk' : p[1] = s}]_vars
  <2> SUFFICES ASSUME Whole, Host, NEW s \in ReadOnly
               PROVE  {p \in DOMAIN disk : p[1] = s} = {p \in DOMAIN disk' : p[1] = s}
    OBVIOUS
  <2>1. Sane /\ KernelOK /\ RequestPaths
    BY DEF Whole, Listed
  <2>2. CASE Quiet
    BY <2>2 DEF Quiet
  <2>3. CASE \E st : st \notin ReadOnly /\ ChangesStorage(st)
    BY <2>1, <2>3, ElsewhereUntouched
  <2> QED BY <2>1, <2>2, <2>3, HostChanges
<1> QED BY <1>1, WholeCorrect, PTL DEF Spec, ReadOnlyUntouched

\* The host was told of every live entry, or is about to be.
Awaited == \A i \in LiveEntries : entries[i].handle # 0 => Coming(i)

\* What the host was told of it knows as long as the session lasts.
LEMMA ToldKept ==
  ASSUME [Next]_vars
  PROVE  OpenSession \/ CloseSession \/ told \subseteq told'
<1>1. CASE Host
  <2>1. CASE RegisterWatch \/ RenameInsert \/ SendObject \/ SendResponse \/ RenameOnDisk
    BY <2>1 DEF RegisterWatch, RenameInsert, SendObject, SendResponse, RenameOnDisk
  <2>2. ASSUME NEW h, NEW s, ScanFolder(h, s) PROVE told' = told
    BY <2>2 DEF ScanFolder
  <2>3. ASSUME NEW s, NEW h, NEW n, NEW kind, SendObjectInfo(s, h, n, kind)
        PROVE  told' = told
    BY <2>3 DEF SendObjectInfo
  <2>4. ASSUME NEW h, SendPartialObject(h) \/ DeleteObject(h) PROVE told' = told
    BY <2>4 DEF SendPartialObject, DeleteObject
  <2>5. CASE Renamer
    BY <2>5, RenamerKeeps
  <2> QED BY <1>1, <2>1, <2>2, <2>3, <2>4, <2>5 DEF Host, Renamer
<1>2. CASE Inotify
  BY <1>2 DEF Inotify, InotifySkip, InotifyCreate, InotifyModify, InotifyDelete,
              InotifyPush, InotifyTurn
<1>3. CASE MsgQueue
  BY <1>3 DEF MsgQueue, Mount, Unmount, LockCommand, LockStep, Command
<1>4. CASE LocalUser
  BY <1>4 DEF LocalUser, LocalCreate, LocalRemove, LocalMove, LocalWrite, Local
<1>5. CASE UNCHANGED vars
  BY <1>5 DEF vars
<1> QED BY <1>1, <1>2, <1>3, <1>4, <1>5 DEF Next

\* Within a listing or before a response no other request runs.
LEMMA NoRenameThen ==
  ASSUME io.op \in {"listing", "answering"}
  PROVE  /\ ~RenameInsert /\ ~Renamer /\ ~RenameOnDisk
         /\ \A h, s : ~HostScans(h, s)
BY DEF RenameInsert, Renamer, RenameStart, RenamePath, RenameRemove, RenameName, RenameStep,
       RenameOnDisk, HostScans, ScanFolder, IoReady

\* An entry that was there before is still coming, or was told of by the step.
LEMMA StillComing ==
  ASSUME Sane, NoEntries, DbStep, told \subseteq told', [Next]_vars,
         NEW i \in LiveEntries, entries[i].handle # 0, Coming(i)
  PROVE  Coming(i)'
<1>0. /\ i \in DOMAIN entries /\ DbTypeOK
      /\ entries'[i].handle = entries[i].handle /\ entries'[i].parent = entries[i].parent
      /\ entries'[i].storage = entries[i].storage
  BY DEF LiveEntries, DbStep, Kept, Sane
<1>1. CASE entries[i].handle \in told
  BY <1>0, <1>1 DEF Coming
<1>2. CASE ino.phase = "push" /\ ino.code = "ObjectAdded" /\ ino.handle = entries[i].handle
  <2>1. CASE ino' = ino
    BY <1>0, <1>2, <2>1 DEF Coming
  <2>2. CASE Inotify
    <3>1. InotifyPush
      BY <1>2, <2>2 DEF Inotify, InotifySkip, InotifyCreate, InotifyModify, InotifyDelete,
                        InotifyTurn
    <3>2. session
      BY <1>0 DEF NoEntries, DbTypeOK
    <3>3. told' = told \cup {ino.handle}
      BY <1>2, <3>1, <3>2 DEF InotifyPush
    <3> QED BY <1>0, <1>2, <3>3 DEF Coming
  <2> QED BY <2>1, <2>2, InoKept
<1>3. CASE io.op = "listing" /\ io.parent = entries[i].parent /\ io.storage = entries[i].storage
  <2>1. CASE io' = io
    BY <1>0, <1>3, <2>1 DEF Coming
  <2>2. CASE RegisterWatch
    <3>1. entries[i].handle # entries[i].parent
      <4>1. CASE entries[i].parent = 0
        BY <4>1
      <4>2. CASE entries[i].parent # 0
        <5>1. PICK j \in 1..(i - 1) : entries[j].handle = entries[i].parent
          BY <1>0, <4>2 DEF Sane, ParentsOlder
        <5>2. j \in DOMAIN entries /\ j # i
          BY <1>0, <5>1, EntriesAreEntries
        <5> QED BY <1>0, <5>1, <5>2 DEF Sane, HandlesUnique
      <4> QED BY <4>1, <4>2
    <3>2. i \in ChildrenInDb(io.parent, io.storage)
      BY <1>3, <3>1 DEF ChildrenInDb
    <3>3. entries[i].handle \in told'
      BY <2>2, <3>2 DEF RegisterWatch
    <3> QED BY <1>0, <3>3 DEF Coming
  <2>3. ~SendResponse
    BY <1>3 DEF SendResponse
  <2> QED BY <1>0, <1>3, <2>1, <2>2, <2>3, IoChanges, NoRenameThen
<1>4. CASE io.op = "answering" /\ io.idx = i
  <2>1. CASE io' = io
    BY <1>4, <2>1 DEF Coming
  <2>2. CASE SendResponse
    BY <1>0, <1>4, <2>2 DEF SendResponse, Coming
  <2>3. ~RegisterWatch
    BY <1>4 DEF RegisterWatch
  <2> QED BY <1>0, <1>4, <2>1, <2>2, <2>3, IoChanges, NoRenameThen
<1> QED BY <1>1, <1>2, <1>3, <1>4 DEF Coming

\* What a step adds it tells, and what was coming still comes.
LEMMA AwaitedStep ==
  ASSUME Whole, Awaited, [Next]_vars
  PROVE  Awaited'
<1>1. Sane /\ NoEntries /\ DbTypeOK
  BY DEF Whole, Listed, Sane
<1>2. CASE DbReset
  BY <1>2 DEF DbReset, Awaited, LiveEntries
<1>3. CASE OpenSession \/ CloseSession
  BY <1>1, <1>3, SessionStep, <1>2
<1>4. CASE DbStep /\ ~OpenSession /\ ~CloseSession
  <2>1. told \subseteq told' /\ NewEntriesKnown
    BY <1>1, <1>4, ToldKept, StepTells
  <2>2. ASSUME NEW i \in LiveEntries', entries'[i].handle # 0 PROVE Coming(i)'
    <3>1. i \in DOMAIN entries' /\ DOMAIN entries' = 1..Len(entries') /\ ~entries'[i].deleted
      BY <1>4 DEF DbStep, LiveEntries, Live
    <3>2. CASE i \in DOMAIN entries
      <4>1. i \in LiveEntries /\ entries[i].handle = entries'[i].handle
        BY <1>4, <3>1, <3>2 DEF DbStep, Kept, LiveEntries, Live
      <4>2. Coming(i)
        BY <2>2, <4>1 DEF Awaited
      <4> QED BY <1>1, <1>4, <2>1, <2>2, <4>1, <4>2, StillComing
    <3>3. CASE i \notin DOMAIN entries
      <4>1. i \in Len(entries) + 1..Len(entries')
        BY <1>1, <3>1, <3>3, EntriesAreEntries
      <4> QED BY <2>1, <2>2, <4>1 DEF NewEntriesKnown, NewKnown
    <3> QED BY <3>2, <3>3
  <2> QED BY <2>2 DEF Awaited
<1> QED BY <1>1, <1>2, <1>3, <1>4, NextStep

\* The ObjectRemoved event is about a handle the host was told of, or waits for
\* as the answer to the SendObjectInfo it has sent.
THEOREM RemovedWasToldCorrect == Spec => RemovedWasTold
<1>1. Init => Awaited
  BY DEF Init, Awaited, LiveEntries
<1>2. Whole /\ Awaited /\ [Next]_vars => Awaited'
  BY AwaitedStep
<1>3. Whole /\ Awaited /\ [Next]_vars =>
        [ino.phase # "push" /\ ino'.code = "ObjectRemoved"
           => ino'.handle \in told \cup Answering]_vars
  <2> SUFFICES ASSUME Whole, Awaited, [Next]_vars, ino.phase # "push",
                      ino'.code = "ObjectRemoved"
               PROVE  ino'.handle \in told \cup Answering
    OBVIOUS
  <2>1. DbTypeOK /\ NamesKnown /\ KernelOK /\ ino.code = "none"
    BY DEF Whole, Listed, Sane, InoOK
  <2>2. InotifySkip \/ InotifyCreate \/ InotifyModify \/ InotifyDelete
    BY <2>1, InoKept DEF Inotify, InotifyPush
  <2>3. ASSUME NEW i, NEW h, NEW code, InotifyMoves(i, code, h)
        PROVE  code = "ObjectRemoved" /\ ino'.handle = h
    <3>1. PICK pos : pos = IF i = 0 THEN 0 ELSE i - 1
      OBVIOUS
    <3>2. CASE code # "none"
      <4>1. ino' = [phase |-> "push", pos |-> pos, handle |-> h, code |-> code]
        BY <2>3, <3>1, <3>2 DEF InotifyMoves
      <4> QED BY <4>1
    <3>3. CASE code = "none"
      <4>1. ino' = [InoIdle EXCEPT !.phase = "loop", !.pos = pos] \/ ino' = InoIdle
        BY <2>3, <3>1, <3>3 DEF InotifyMoves
      <4>2. [InoIdle EXCEPT !.phase = "loop", !.pos = pos].code = "none" /\ InoIdle.code = "none"
        BY DEF InoIdle
      <4> QED BY <4>1, <4>2
    <3> QED BY <3>2, <3>3
  <2>4. ~InotifySkip /\ ~InotifyCreate /\ ~InotifyModify
    BY <2>3 DEF InotifySkip, InotifyCreate, InotifyModify
  <2>5. InotifyDelete
    BY <2>2, <2>4
  <2>6. PICK n, h, s, d : /\ n = Head(events).name /\ h = entries[InotifyEntry].handle
                          /\ s = entries[InotifyEntry].storage /\ d = FoundByInotify(n, h, s)
    OBVIOUS
  <2>7. d # 0 /\ InotifyMoves(InotifyEntry, "ObjectRemoved", entries[d].handle)
    BY <2>3, <2>5, <2>6 DEF InotifyDelete
  <2>8. d \in LiveEntries /\ NameNow(d) = n
    BY <2>1, <2>6, <2>7, InotifyFinds DEF DbTypeOK
  <2>9. n \in Names
    <3>1. events # <<>>
      BY <2>5 DEF InotifyDelete, InotifyTurn
    <3>2. Head(events) \in InotifyEvent
      BY <2>1, <3>1 DEF KernelOK
    <3> QED BY <2>6, <3>2 DEF InotifyEvent
  <2>10. entries[d].handle # 0
    <3>1. CASE d = io.idx /\ io.op \in RenameOps
      BY <2>1, <3>1 DEF NamesKnown
    <3>2. CASE ~(d = io.idx /\ io.op \in RenameOps)
      <4>1. entries[d].name = n
        BY <2>8, <3>2 DEF NameNow, RenameOps
      <4> QED BY <2>1, <2>8, <2>9, <4>1, ConstantsAssumption DEF NamesKnown, Named, LiveEntries
    <3> QED BY <3>1, <3>2
  <2>11. Coming(d) /\ io.op # "listing"
    BY <2>5, <2>8, <2>10 DEF Awaited, InotifyDelete, InotifyTurn, MutexFree
  <2>12. ino'.handle = entries[d].handle
    BY <2>3, <2>7
  <2>13. ino.phase # "push"
    OBVIOUS
  <2> QED BY <2>11, <2>12, <2>13 DEF Coming, Answering
<1> QED BY <1>1, <1>2, <1>3, WholeCorrect, PTL DEF Spec, RemovedWasTold

-----------------------------------------------------------------------------
(* The type invariant of all the variables.                                 *)

\* The storages' flags, the message queue thread and what the host sends next.
CfgOK ==
  /\ mounted \subseteq Storages /\ locked \subseteq Lockable
  /\ mq \in [cmd : {"none", "lock", "unlock"}, todo : SUBSET Storages]
  /\ cmds \in 0..MaxCmds /\ sendHandle \in Nat \cup {NONE}

\* The handles the host was told of and the folders that were not followed.
NotesOK == told \subseteq Nat /\ unmirrored \subseteq DOMAIN entries

\* The commands of the message queue.
LEMMA CommandsTyped ==
  ASSUME CfgOK, MsgQueue
  PROVE  CfgOK' /\ UNCHANGED <<told, unmirrored>>
<1>1. UNCHANGED <<told, unmirrored, sendHandle>>
  BY DEF MsgQueue, Mount, Unmount, LockCommand, LockStep, Command
<1>2. ASSUME NewCommand PROVE cmds' \in 0..MaxCmds
  <2>1. cmds \in 0..MaxCmds /\ cmds < MaxCmds /\ cmds' = cmds + 1 /\ MaxCmds \in Nat
    BY <1>2, ConstantsAssumption DEF NewCommand, CfgOK
  <2> QED BY <2>1
<1>3. ASSUME NEW s \in Storages, Mount(s) \/ Unmount(s) PROVE CfgOK'
  BY <1>1, <1>2, <1>3 DEF Mount, Unmount, CfgOK
<1>4. ASSUME NEW cmd \in {"lock", "unlock"}, LockCommand(cmd) PROVE CfgOK'
  BY <1>1, <1>2, <1>4 DEF LockCommand, CfgOK
<1>5. CASE LockStep
  <2>1. mounted' = mounted /\ cmds' = cmds
    BY <1>5 DEF LockStep
  <2>2. PICK s : s = Min(mq.todo)
    OBVIOUS
  <2>3. locked' \subseteq Lockable
    <3>1. \/ s \in Lockable /\ locked' = locked \cup {s}
          \/ locked' = locked \ {s} \/ locked' = locked
      BY <1>5, <2>2 DEF LockStep
    <3> QED BY <3>1 DEF CfgOK
  <2>4. mq' \in [cmd : {"none", "lock", "unlock"}, todo : SUBSET Storages]
    <3>1. mq' = [mq EXCEPT !.todo = @ \ {s}]
      BY <1>5, <2>2 DEF LockStep
    <3>2. mq \in [cmd : {"none", "lock", "unlock"}, todo : SUBSET Storages]
      BY DEF CfgOK
    <3> QED BY <3>1, <3>2
  <2> QED BY <1>1, <2>1, <2>3, <2>4 DEF CfgOK
<1> QED BY <1>1, <1>3, <1>4, <1>5 DEF MsgQueue

\* The requests of the host.
LEMMA RequestsTyped ==
  ASSUME DbTypeOK, CfgOK, NotesOK, Host, ~OpenSession, ~CloseSession
  PROVE  CfgOK' /\ told' \subseteq Nat /\ unmirrored' \subseteq DOMAIN entries
<1>0. UNCHANGED cfgVars
  <2>1. CASE RegisterWatch \/ RenameInsert \/ SendObject \/ SendResponse \/ RenameOnDisk
    BY <2>1 DEF RegisterWatch, RenameInsert, SendObject, SendResponse, RenameOnDisk
  <2>2. ASSUME NEW h, NEW s, ScanFolder(h, s) PROVE UNCHANGED cfgVars
    BY <2>2 DEF ScanFolder
  <2>3. ASSUME NEW s, NEW h, NEW n, NEW kind, SendObjectInfo(s, h, n, kind)
        PROVE  UNCHANGED cfgVars
    BY <2>3 DEF SendObjectInfo
  <2>4. ASSUME NEW h, SendPartialObject(h) \/ DeleteObject(h) PROVE UNCHANGED cfgVars
    BY <2>4 DEF SendPartialObject, DeleteObject
  <2>5. CASE Renamer
    BY <2>5, RenamerKeeps
  <2> QED BY <2>1, <2>2, <2>3, <2>4, <2>5 DEF Host, Renamer
<1>1. ASSUME sendHandle' \in Nat \cup {NONE} PROVE CfgOK'
  BY <1>0, <1>1 DEF CfgOK, cfgVars
<1>2. CASE UNCHANGED <<sendHandle, told, unmirrored>>
  BY <1>1, <1>2 DEF CfgOK, NotesOK
<1>3. CASE RegisterWatch
  <2>1. ASSUME NEW c \in ChildrenInDb(io.parent, io.storage) PROVE entries[c].handle \in Nat
    BY EntriesAreEntries DEF ChildrenInDb, LiveEntries, Entry, Handles
  <2>2. told' = told \cup {entries[c].handle : c \in ChildrenInDb(io.parent, io.storage)}
    BY <1>3 DEF RegisterWatch
  <2>3. told' \subseteq Nat
    BY <2>1, <2>2 DEF NotesOK
  <2>4. unmirrored' \subseteq unmirrored \/ (unmirrored' = unmirrored \cup {io.idx} /\ io.idx # 0)
    BY <1>3 DEF RegisterWatch, IsFolder
  <2>5. io.idx # 0 => io.idx \in DOMAIN entries
    <3>1. io.idx \in 0..Len(entries)
      BY <1>3 DEF RegisterWatch, DbTypeOK
    <3> QED BY <3>1, EntriesAreEntries
  <2>6. sendHandle' = sendHandle
    BY <1>3 DEF RegisterWatch
  <2> QED BY <1>1, <2>3, <2>4, <2>5, <2>6 DEF CfgOK, NotesOK
<1>4. ASSUME NEW s, NEW h, NEW n, NEW kind, SendObjectInfo(s, h, n, kind)
      PROVE  CfgOK' /\ told' \subseteq Nat /\ unmirrored' \subseteq DOMAIN entries
  <2>1. UNCHANGED <<unmirrored, told>>
    BY <1>4 DEF SendObjectInfo
  <2>4. PICK e : e = find_entry(n, h, s)
    OBVIOUS
  <2>5. \/ sendHandle' = sendHandle \/ sendHandle' = NONE \/ sendHandle' = next_handle
        \/ e # 0 /\ sendHandle' = entries[e].handle
    BY <1>4, <2>4 DEF SendObjectInfo
  <2>6. e # 0 => entries[e].handle \in Nat
    <3>1. e # 0 => e \in DOMAIN entries
      BY <2>4, LookupsFind DEF DbTypeOK, LiveEntries
    <3> QED BY <3>1, EntriesAreEntries DEF Entry, Handles
  <2>7. sendHandle' \in Nat \cup {NONE}
    BY <2>5, <2>6 DEF CfgOK, DbTypeOK
  <2> QED BY <1>1, <2>1, <2>7 DEF NotesOK
<1>5. ASSUME NEW h \in 1..next_handle - 1, SendPartialObject(h)
      PROVE  CfgOK' /\ told' \subseteq Nat /\ unmirrored' \subseteq DOMAIN entries
  <2>1. sendHandle' = h /\ h \in Nat /\ UNCHANGED <<told, unmirrored>>
    BY <1>5 DEF SendPartialObject, DbTypeOK
  <2> QED BY <1>1, <2>1 DEF NotesOK
<1>6. ASSUME NEW h, DeleteObject(h)
      PROVE  UNCHANGED <<sendHandle, told, unmirrored>>
  BY <1>6 DEF DeleteObject
<1>7. ASSUME NEW h, NEW s, ScanFolder(h, s)
      PROVE  UNCHANGED <<sendHandle, told, unmirrored>>
  BY <1>7 DEF ScanFolder
<1>8. CASE SendObject
  <2>1. UNCHANGED <<sendHandle, told, unmirrored>>
    BY <1>8 DEF SendObject
  <2> QED BY <1>2, <2>1
<1>9. CASE RenameInsert
  <2>1. UNCHANGED <<sendHandle, told>> /\ unmirrored' \subseteq unmirrored \cup LiveEntries
    BY <1>9 DEF RenameInsert
  <2>2. unmirrored' \subseteq DOMAIN entries
    BY <2>1 DEF NotesOK, LiveEntries
  <2> QED BY <1>1, <2>1, <2>2 DEF CfgOK, NotesOK
<1>10. CASE SendResponse
  <2>1. io.idx \in DOMAIN entries
    BY <1>10, EntriesAreEntries DEF SendResponse, DbTypeOK, RenameOps
  <2>2. entries[io.idx].handle \in Nat
    BY <2>1, EntriesAreEntries DEF Entry, Handles
  <2>3. told' = told \cup {entries[io.idx].handle} /\ UNCHANGED <<sendHandle, unmirrored>>
    BY <1>10 DEF SendResponse
  <2> QED BY <1>1, <2>2, <2>3 DEF CfgOK, NotesOK
<1>11. CASE RenameOnDisk
  <2>1. UNCHANGED <<sendHandle, told>> /\ unmirrored' \subseteq unmirrored \cup LiveEntries
    BY <1>11 DEF RenameOnDisk, WatchingUnder
  <2>2. unmirrored' \subseteq DOMAIN entries
    BY <2>1 DEF NotesOK, LiveEntries
  <2> QED BY <1>1, <2>1, <2>2 DEF CfgOK, NotesOK
<1>12. CASE Renamer
  BY <1>2, <1>12, RenamerKeeps
<1> QED BY <1>2, <1>3, <1>4, <1>5, <1>6, <1>7, <1>8, <1>9, <1>10, <1>11, <1>12 DEF Host, Renamer

\* The inotify thread.
LEMMA InotifyTyped ==
  ASSUME DbTypeOK, InoOK, CfgOK, NotesOK, Inotify
  PROVE  CfgOK' /\ told' \subseteq Nat /\ unmirrored' \subseteq DOMAIN entries
<1>1. UNCHANGED <<cfgVars, sendHandle>>
  BY DEF Inotify, InotifySkip, InotifyCreate, InotifyModify, InotifyDelete, InotifyPush,
         InotifyTurn
<1>2. CfgOK'
  BY <1>1 DEF CfgOK, cfgVars
<1>3. told' \subseteq Nat
  <2>1. told' = told \/ (told' = told \cup {ino.handle} /\ ino.code = "ObjectAdded")
    BY DEF Inotify, InotifySkip, InotifyCreate, InotifyModify, InotifyDelete, InotifyPush,
           InotifyTurn
  <2> QED BY <2>1 DEF InoOK, NotesOK
<1>4. unmirrored' \subseteq DOMAIN entries
  <2>1. CASE UNCHANGED unmirrored
    BY <2>1 DEF NotesOK
  <2>2. CASE InotifyEntry # 0 /\ NotesMisplaced(InotifyEntry)
    BY <2>2, TurnsEntry DEF NotesMisplaced, NotesOK, LiveEntries
  <2>3. PathForInotify(InotifyEntry) # <<>> => InotifyEntry # 0
    BY DEF PathForInotify
  <2> QED BY <2>1, <2>2, <2>3 DEF Inotify, InotifySkip, InotifyCreate, InotifyModify,
                                  InotifyDelete, InotifyPush
<1> QED BY <1>2, <1>3, <1>4

\* Every step.
LEMMA NotesStep ==
  ASSUME Whole, CfgOK, NotesOK, [Next]_vars
  PROVE  CfgOK' /\ NotesOK'
<1>0. DbTypeOK /\ InoOK /\ NoEntries
  BY DEF Whole, Listed, Sane
<1>1. CASE OpenSession
  <2>1. entries = <<>> /\ UNCHANGED <<cfgVars, sendHandle, told, unmirrored>>
    BY <1>0, <1>1 DEF OpenSession, NoEntries
  <2>2. unmirrored = {}
    BY <2>1 DEF NotesOK
  <2> QED BY <2>1, <2>2 DEF CfgOK, NotesOK, cfgVars
<1>2. CASE CloseSession
  BY <1>2 DEF CloseSession, CfgOK, NotesOK, cfgVars
<1>3. CASE DbStep /\ ~OpenSession /\ ~CloseSession
  <2>1. CfgOK' /\ told' \subseteq Nat /\ unmirrored' \subseteq DOMAIN entries
    <3>1. CASE Host
      BY <1>0, <1>3, <3>1, RequestsTyped
    <3>2. CASE Inotify
      BY <1>0, <3>2, InotifyTyped
    <3>3. CASE MsgQueue
      BY <3>3, CommandsTyped DEF NotesOK
    <3>4. CASE LocalUser
      <4>1. UNCHANGED <<cfgVars, sendHandle, told>>
        BY <3>4 DEF LocalUser, LocalCreate, LocalRemove, LocalMove, LocalWrite, Local
      <4>2. unmirrored' = unmirrored \/ \E p : unmirrored' = unmirrored \cup WatchingUnder(p)
        BY <3>4 DEF LocalUser, LocalCreate, LocalRemove, LocalMove, LocalWrite
      <4>3. \A p : WatchingUnder(p) \subseteq DOMAIN entries
        BY DEF WatchingUnder, LiveEntries
      <4> QED BY <4>1, <4>2, <4>3 DEF CfgOK, NotesOK, cfgVars
    <3>5. CASE UNCHANGED vars
      BY <3>5 DEF vars, cfgVars, CfgOK, NotesOK
    <3> QED BY <3>1, <3>2, <3>3, <3>4, <3>5 DEF Next
  <2>2. DOMAIN entries \subseteq DOMAIN entries'
    <3>1. Len(entries) <= Len(entries') /\ DOMAIN entries' = 1..Len(entries')
      BY <1>3 DEF DbStep
    <3>2. Len(entries') \in Nat
      BY <1>3 DEF DbStep
    <3> QED BY <1>0, <3>1, <3>2, EntriesAreEntries
  <2> QED BY <2>1, <2>2 DEF NotesOK
<1> QED BY <1>0, <1>1, <1>2, <1>3, NextStep

\* Every variable always has its type: the database, the disks, which stay
\* trees, the watches, which are on objects that are there, the queue, and what
\* the threads keep between two of their steps.
THEOREM TypeOKCorrect == Spec => []TypeOK
<1> DEFINE Typed == CfgOK /\ NotesOK /\ uses \in Uses
<1>1. Init => Typed
  BY ConstantsAssumption DEF Init, CfgOK, NotesOK
<1>2. Whole /\ Typed /\ [Next]_vars => Typed'
  <2>1. [Next]_vars => uses' = uses
    BY DEF Next, vars
  <2> QED BY <2>1, NotesStep
<1>3. Whole /\ Typed => TypeOK
  <2> SUFFICES ASSUME Whole, CfgOK, NotesOK, uses \in Uses PROVE TypeOK
    OBVIOUS
  <2>1. /\ DbTypeOK /\ mounted \subseteq Storages /\ locked \subseteq Lockable
        /\ mq.todo \subseteq Storages /\ cmds \in 0..MaxCmds /\ sendHandle \in Nat \cup {NONE}
    BY DEF Whole, Listed, Sane, CfgOK
  <2>2. /\ \A p \in DOMAIN disk : /\ disk[p] \in {"file", "dir"}
                                  /\ Len(p) > 1 => IsDir(Front(p))
        /\ \A w \in DOMAIN watches : w < next_wd /\ watches[w] \in DOMAIN disk
    BY DEF Whole, KernelOK, DiskTree, WatchesSet
  <2>3. \A k \in DOMAIN events : events[k].name \in Names
    <3>1. \A k \in DOMAIN events : events[k] \in InotifyEvent
      BY DEF Whole, KernelOK
    <3> QED BY <3>1 DEF InotifyEvent
  <2>4. /\ ino.phase \in {"idle", "loop", "push"} /\ ino.pos \in 0..Len(entries)
        /\ told \subseteq Nat /\ unmirrored \subseteq DOMAIN entries
    BY DEF Whole, InoOK, NotesOK
  <2> QED BY <2>1, <2>2, <2>3, <2>4 DEF TypeOK
<1> QED BY <1>1, <1>2, <1>3, WholeCorrect, PTL DEF Spec

=============================================================================
