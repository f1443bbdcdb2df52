---------------------------- MODULE QueriesProofs ----------------------------
(***************************************************************************)
(* Theorems about module Queries, for any names, sizes of files and number *)
(* of objects: its type invariant, that a size a host was told holds until *)
(* the file changes, that all that knows the properties agrees, and that a *)
(* host that names an object is told that name, cleaned, and names it by   *)
(* sending that back.  What the recursive functions of module ObjectNames  *)
(* compute is proved by the least place at which it would be wrong.        *)
(***************************************************************************)
EXTENDS Queries, TLAPS, FiniteSetTheorems, WellFoundedInduction, SequenceTheorems

-----------------------------------------------------------------------------
(* Types.                                                                    *)

\* A non-empty set of naturals has a least element.
LEMMA LeastNatural ==
  ASSUME NEW S, S \subseteq Nat, S # {}
  PROVE  /\ \E x \in S : \A y \in S : x <= y
         /\ Min(S) \in S /\ \A y \in S : Min(S) <= y
<1>1. PICK x \in S : \A y \in S : ~(<<y, x>> \in OpToRel(<, Nat))
  BY NatLessThanWellFounded, WFMin
<1>2. \A y \in S : x <= y
  <2> TAKE y \in S
  <2>1. <<y, x>> \in Nat \X Nat
    OBVIOUS
  <2>2. ~(y < x)
    BY <1>1, <2>1 DEF OpToRel
  <2> QED BY <2>2
<1> QED BY <1>2 DEF Min

\* The names a file can have: those local users give, and those a host sends, as
\* they are cleaned once or, under an entry's new name, twice.
FileNames ==
  conf.local \cup {NameSent(w) : w \in conf.sent} \cup {sanitize_name(NameSent(w)) : w \in conf.sent}

Object == [name : FileNames, dir : BOOLEAN, size : Sizes, live : BOOLEAN]

\* What the type invariant leaves out: the database is a list of records, the
\* disk a finite folder.
Shapes ==
  /\ entry \in Seq(Object)
  /\ IsFiniteSet(DOMAIN disk) /\ DOMAIN disk \subseteq FileNames
  /\ disk \in [DOMAIN disk -> [dir : BOOLEAN, size : Sizes]]
  /\ setprop \in [h : Handles \cup {None}, prop : {"OBJECT_FILE_NAME", "NAME"}]

Typed == TypeOK /\ Shapes

\* What the assumption says of the configuration that was chosen.
LEMMA ConfTyped ==
  ASSUME conf \in Confs
  PROVE  /\ Sizes \subseteq Nat /\ 0 \in Sizes /\ conf.room \in 0..MaxEntries
         /\ MaxEntries \in Nat /\ {conf.battery, conf.perceived, conf.readonly} \subseteq BOOLEAN
BY QueriesAssumption DEF Sizes

\* The types and the place of one entry.
LEMMA EntryTyped ==
  ASSUME Typed
  PROVE  /\ Len(entry) \in Nat /\ Len(entry) <= MaxEntries /\ DOMAIN entry = 1..Len(entry)
         /\ DOMAIN entry \subseteq Handles
         /\ \A h \in DOMAIN entry : entry[h] \in Object
<1>1. entry \in Seq(Object) /\ Len(entry) <= MaxEntries /\ MaxEntries \in Nat
  BY ConfTyped DEF Typed, TypeOK, Shapes
<1> QED BY <1>1 DEF Handles

\* Forgetting leaves the types of what was told.
LEMMA ForgottenTyped ==
  ASSUME Typed, NEW names
  PROVE  /\ Forgotten(names) \in [Handles -> Sizes \cup {None}]
         /\ \A h \in Handles : Forgotten(names)[h] \in {None, told[h]}
BY DEF Typed, TypeOK, Forgotten

\* A query changes nothing, or refreshes the size of an object that is there.
Asking ==
  /\ UNCHANGED <<conf, session, disk, sent, setprop>>
  /\ \/ UNCHANGED <<entry, told>>
     \/ \E h \in Handles : Live(h) /\ Found(entry[h].name) /\ Refreshed(h)

\* Every operation that only answers is one of these.
LEMMA QueryAsks ==
  ASSUME Query
  PROVE  Asking
<1>1. ASSUME NEW h \in Handles, NEW d, AsksAbout(h, d) PROVE Asking
  <2>1. UNCHANGED <<conf, session, setprop, disk, sent>>
    BY <1>1 DEF AsksAbout, Asks
  <2>2. \/ UNCHANGED <<entry, told>>
        \/ Live(h) /\ Found(entry[h].name) /\ Refreshed(h)
    BY <1>1 DEF AsksAbout
  <2> QED BY <2>1, <2>2 DEF Asking
<1>2. ASSUME NEW open, NEW h, NEW a, Asks(open, h, a), Unchanged PROVE Asking
  BY <1>2 DEF Asks, Unchanged, Asking
<1>3. CASE \E h \in Handles : GetObjectInfo(h)
  BY <1>1, <1>3 DEF GetObjectInfo
<1>4. ASSUME NEW h \in Handles, NEW p, NEW g, GetObjectPropList(h, p, g) PROVE Asking
  BY <1>1, <1>4 DEF GetObjectPropList, Unchanged, Asking
<1>5. CASE \E h : GetObjectReferences(h) \/ \E p : GetObjectPropValue(h, p)
  BY <1>2, <1>5 DEF GetObjectReferences, GetObjectPropValue
<1>6. CASE \E f : GetObjectPropsSupported(f) \/ \E p : GetObjectPropDesc(p, f)
  BY <1>2, <1>6 DEF GetObjectPropsSupported, GetObjectPropDesc
<1>7. CASE GetDeviceInfo \/ \E p : GetDevicePropDesc(p) \/ GetDevicePropValue(p)
  BY <1>2, <1>7 DEF GetDeviceInfo, GetDevicePropDesc, GetDevicePropValue
<1>8. CASE \E id : GetStorageInfo(id)
  BY <1>2, <1>8 DEF GetStorageInfo
<1> QED BY <1>3, <1>4, <1>5, <1>6, <1>7, <1>8 DEF Query

\* A new size for the entry the host asks about.
LEMMA QueryTyped ==
  ASSUME Typed, Query
  PROVE  Typed'
<1>1. Asking
  BY QueryAsks
<1>2. UNCHANGED <<conf, session, disk, sent, setprop>>
  BY <1>1 DEF Asking
<1>3. CASE UNCHANGED <<entry, told>>
  BY <1>2, <1>3 DEF Typed, TypeOK, Shapes, FileNames, Object, Sizes, SentNames
<1>4. ASSUME NEW h \in Handles, Live(h), Found(entry[h].name), Refreshed(h) PROVE Typed'
  <2>1. PICK s : s = FileOf(entry[h].name).size
    OBVIOUS
  <2>2. s \in Sizes
    BY <1>4, <2>1 DEF Typed, TypeOK, Found, FileOf
  <2>3. h \in DOMAIN entry /\ entry' = [entry EXCEPT ![h].size = s] /\ told' = [told EXCEPT ![h] = s]
    BY <1>4, <2>1 DEF Live, Refreshed
  <2>4. entry' \in Seq(Object) /\ Len(entry') = Len(entry) /\ DOMAIN entry' = DOMAIN entry
    BY <2>2, <2>3, EntryTyped DEF Typed, Shapes, Object
  <2>5. Object' = Object /\ Sizes' = Sizes /\ SentNames' = SentNames /\ FileNames' = FileNames
    BY <1>2 DEF Object, Sizes, SentNames, FileNames
  <2>6. \A k \in DOMAIN entry' : entry'[k] \in Object
    BY <2>4, EntryTyped
  <2>7. Shapes'
    BY <1>2, <2>4, <2>5 DEF Typed, Shapes
  <2>8. entry # <<>>
    BY <2>3, EntryTyped
  <2>9. TypeOK'
    BY <1>2, <2>2, <2>3, <2>4, <2>5, <2>6, <2>8 DEF Typed, TypeOK, Object
  <2> QED BY <2>7, <2>9 DEF Typed
<1> QED BY <1>1, <1>3, <1>4 DEF Asking

\* The start and the end of a session.
LEMMA SessionTyped ==
  ASSUME Typed, OpenSession \/ CloseSession
  PROVE  Typed'
<1>1. CASE OpenSession
  BY <1>1 DEF OpenSession, Unchanged, Typed, TypeOK, Shapes, FileNames, Object, Sizes, SentNames
<1>2. CASE CloseSession
  <2>1. entry' = <<>> /\ UNCHANGED <<conf, disk, setprop>> /\ session' = FALSE
        /\ told' = [h \in Handles |-> None] /\ sent' = [h \in Handles |-> None]
    BY <1>2 DEF CloseSession
  <2>2. Object' = Object /\ Sizes' = Sizes /\ SentNames' = SentNames /\ FileNames' = FileNames
    BY <2>1 DEF Object, Sizes, SentNames, FileNames
  <2>3. Shapes'
    BY <2>1, <2>2 DEF Typed, Shapes
  <2>4. Len(entry') = 0 /\ DOMAIN entry' = {}
    BY <2>1
  <2>5. told' \in [Handles -> Sizes \cup {None}] /\ sent' \in [Handles -> SentNames \cup {None}]
    BY <2>1
  <2>6. TypeOK'
    <3>1. conf' \in Confs /\ session' \in BOOLEAN
      BY <2>1 DEF Typed, TypeOK
    <3>5. Len(entry') <= MaxEntries
      BY <2>4, ConfTyped DEF Typed, TypeOK
    <3>2. \A n \in DOMAIN disk' : disk'[n].dir \in BOOLEAN /\ disk'[n].size \in Sizes
      BY <2>1 DEF Typed, TypeOK
    <3>3. setprop'.h \in Handles \cup {None}
      BY <2>1 DEF Typed, TypeOK
    <3>4. \A h \in Handles : told'[h] = None /\ sent'[h] = None
      BY <2>1
    <3> QED BY <2>1, <2>2, <2>4, <2>5, <3>1, <3>2, <3>3, <3>4, <3>5 DEF TypeOK
  <2> QED BY <2>3, <2>6 DEF Typed
<1> QED BY <1>1, <1>2

\* The entry of an object that GetObjectHandles found before.
Scanned(e) ==
  IF PathOf(e.name) = NoName THEN e
  ELSE IF ~Found(e.name) THEN [e EXCEPT !.live = FALSE]
  ELSE [e EXCEPT !.size = FileOf(e.name).size]

\* The entries before the scan stay where they are, the new ones are of files
\* that had none.
LEMMA ScanEntries ==
  ASSUME Typed, GetObjectHandles
  PROVE  /\ entry' \in Seq(Object) /\ Len(entry) <= Len(entry') /\ Len(entry') <= MaxEntries
         /\ \A h \in DOMAIN entry :
              entry'[h] = IF entry[h].live THEN Scanned(entry[h]) ELSE entry[h]
         /\ \A h \in DOMAIN entry' \ DOMAIN entry : entry'[h].name \in DOMAIN disk
<1> DEFINE new == {n \in DOMAIN disk : Find(n) = {}}
           Fresh(n) == [name |-> n, dir |-> disk[n].dir, size |-> disk[n].size, live |-> TRUE]
           Old(h) == IF entry[h].live THEN Scanned(entry[h]) ELSE entry[h]
           old == [h \in DOMAIN entry |-> Old(h)]
<1>1. Len(entry) + Cardinality(new) <= conf.room
  BY DEF GetObjectHandles
<1>2. PICK order \in SetToSeqs(new) : entry' = old \o [i \in DOMAIN order |-> Fresh(order[i])]
  BY DEF GetObjectHandles, Scanned
<1>3. new \subseteq DOMAIN disk /\ IsFiniteSet(new)
  BY FS_Subset DEF Typed, Shapes
<1>4. PICK c \in Nat : c = Cardinality(new)
  BY <1>3, FS_CardinalityType
<1>5. order \in [1..c -> new]
  BY <1>2, <1>4 DEF SetToSeqs
<1>6. \A n \in new : Fresh(n) \in Object
  BY <1>3 DEF Typed, Shapes, Object
<1> DEFINE fresh == [i \in DOMAIN order |-> Fresh(order[i])]
<1>7. fresh \in [1..c -> Object]
  BY <1>5, <1>6
<1>8. \A h \in DOMAIN entry : Old(h) \in Object
  <2> TAKE h \in DOMAIN entry
  <2>1. PICK e \in Object : e = entry[h]
    BY EntryTyped
  <2>2. Found(e.name) => FileOf(e.name).size \in Sizes
    BY DEF Found, FileOf, Typed, TypeOK
  <2>3. Scanned(e) \in Object
    BY <2>1, <2>2 DEF Scanned, Object
  <2> QED BY <2>1, <2>3
<1>9. PICK l \in Nat : l = Len(entry) /\ DOMAIN entry = 1..l
  BY EntryTyped
<1>10. old \in [1..l -> Object]
  BY <1>8, <1>9
<1>11. old \in Seq(Object) /\ Len(old) = l /\ fresh \in Seq(Object) /\ Len(fresh) = c
  <2> HIDE DEF old, fresh
  <2> QED BY <1>7, <1>10
<1>12. entry' = old \o fresh
  BY <1>2
<1>13. /\ entry' \in Seq(Object) /\ Len(entry') = l + c
       /\ \A h \in 1..l : entry'[h] = old[h]
       /\ \A i \in 1..c : entry'[l + i] = fresh[i]
  <2> HIDE DEF old, fresh
  <2>1. old \o fresh \in Seq(Object) /\ Len(old \o fresh) = l + c
    BY ONLY <1>11, l \in Nat, c \in Nat
  <2>2. \A h \in 1..l : (old \o fresh)[h] = old[h]
    BY ONLY <1>11, l \in Nat, c \in Nat
  <2>3. \A i \in 1..c : l + i \in 1..l + c /\ (l + i) - l = i /\ l + i > l
    OBVIOUS
  <2>4. \A i \in 1..c : (old \o fresh)[l + i] = fresh[i]
    BY ONLY <1>11, <2>3, l \in Nat, c \in Nat
  <2> QED BY ONLY <1>12, <2>1, <2>2, <2>4
<1>14. conf.room <= MaxEntries /\ conf.room \in Nat /\ MaxEntries \in Nat
  BY ConfTyped DEF Typed, TypeOK
<1>15. Len(entry) <= Len(entry') /\ Len(entry') <= MaxEntries
  BY <1>1, <1>4, <1>9, <1>13, <1>14
<1>16. \A h \in DOMAIN entry' \ DOMAIN entry : entry'[h].name \in DOMAIN disk
  <2> TAKE h \in DOMAIN entry' \ DOMAIN entry
  <2>1. PICK i \in 1..c : entry'[h] = fresh[i]
    <3>1. h \in 1..l + c /\ h \notin 1..l
      BY <1>9, <1>13
    <3>2. h - l \in 1..c /\ l + (h - l) = h
      BY <3>1
    <3> QED BY <1>13, <3>2
  <2>2. fresh[i] = Fresh(order[i]) /\ order[i] \in new
    BY <1>5
  <2> QED BY <1>3, <2>1, <2>2
<1> QED BY <1>9, <1>13, <1>15, <1>16

\* Neither the rest nor the handles change with the list.
LEMMA ScanTyped ==
  ASSUME Typed, GetObjectHandles
  PROVE  Typed'
<1>1. session /\ UNCHANGED <<conf, session, disk, setprop, told, sent>>
  BY DEF GetObjectHandles
<1>2. Object' = Object /\ Sizes' = Sizes /\ SentNames' = SentNames /\ FileNames' = FileNames
  BY <1>1 DEF Object, Sizes, SentNames, FileNames
<1>3. /\ entry' \in Seq(Object) /\ Len(entry) \in Nat /\ Len(entry') \in Nat
      /\ DOMAIN entry = 1..Len(entry) /\ DOMAIN entry' = 1..Len(entry')
      /\ Len(entry) <= Len(entry') /\ Len(entry') <= MaxEntries
  BY ScanEntries, EntryTyped
<1>4. \A h \in DOMAIN entry' : entry'[h] \in Object
  BY <1>3
<1>5. DOMAIN entry \subseteq DOMAIN entry'
  BY <1>3
<1>6. Shapes'
  BY <1>1, <1>2, <1>3 DEF Typed, Shapes
<1>7. TypeOK'
  BY <1>1, <1>2, <1>3, <1>4, <1>5 DEF Typed, TypeOK, Object
<1> QED BY <1>6, <1>7 DEF Typed

\* The removal of an entry, and the command of a SetObjectPropValue.
LEMMA SmallTyped ==
  ASSUME Typed,
         \/ \E h \in DOMAIN entry : InotifyDelete(h)
         \/ \E h \in Handles, p \in {"OBJECT_FILE_NAME", "NAME"} : SetObjectPropValue(h, p)
  PROVE  Typed'
<1>1. ASSUME NEW h \in DOMAIN entry, InotifyDelete(h) PROVE Typed'
  <2>1. /\ entry' = [entry EXCEPT ![h].live = FALSE]
        /\ UNCHANGED <<conf, session, disk, setprop, told, sent>>
    BY <1>1 DEF InotifyDelete
  <2>2. Object' = Object /\ Sizes' = Sizes /\ SentNames' = SentNames /\ FileNames' = FileNames
    BY <2>1 DEF Object, Sizes, SentNames, FileNames
  <2>3. entry' \in Seq(Object) /\ Len(entry') = Len(entry) /\ DOMAIN entry' = DOMAIN entry
    <3>1. [entry[h] EXCEPT !.live = FALSE] \in Object
      BY <1>1, EntryTyped DEF Object
    <3> QED BY <1>1, <2>1, <3>1 DEF Typed, Shapes
  <2>4. \A k \in DOMAIN entry' : entry'[k] \in Object
    BY <2>3, EntryTyped
  <2>5. Shapes'
    BY <2>1, <2>2, <2>3 DEF Typed, Shapes
  <2>6. entry # <<>>
    BY <1>1, EntryTyped
  <2>7. TypeOK'
    BY <2>1, <2>2, <2>3, <2>4, <2>6 DEF Typed, TypeOK, Object
  <2> QED BY <2>5, <2>7 DEF Typed
<1>2. ASSUME NEW h \in Handles, NEW p \in {"OBJECT_FILE_NAME", "NAME"}, SetObjectPropValue(h, p)
      PROVE  Typed'
  <2>1. UNCHANGED <<conf, session, disk, entry, told, sent>>
        /\ setprop' \in {setprop, [h |-> h, prop |-> p]}
    BY <1>2 DEF SetObjectPropValue, Unchanged
  <2>2. Object' = Object /\ Sizes' = Sizes /\ SentNames' = SentNames /\ FileNames' = FileNames
    BY <2>1 DEF Object, Sizes, SentNames, FileNames
  <2>3. Shapes'
    BY <1>2, <2>1, <2>2 DEF Typed, Shapes
  <2>4. TypeOK'
    BY <1>2, <2>1, <2>2 DEF Typed, TypeOK
  <2> QED BY <2>3, <2>4 DEF Typed
<1> QED BY <1>1, <1>2

\* The disk with one more file, or another in its place.
LEMMA WrittenTyped ==
  ASSUME Typed, UNCHANGED conf, NEW n \in FileNames, NEW f \in [dir : BOOLEAN, size : Sizes],
         disk' = [m \in DOMAIN disk \cup {n} |-> IF m = n THEN f ELSE disk[m]]
  PROVE  /\ IsFiniteSet(DOMAIN disk') /\ DOMAIN disk' \subseteq FileNames
         /\ disk' \in [DOMAIN disk' -> [dir : BOOLEAN, size : Sizes]]
<1>1. DOMAIN disk' = DOMAIN disk \cup {n}
  OBVIOUS
<1>2. IsFiniteSet(DOMAIN disk')
  BY <1>1, FS_AddElement DEF Typed, Shapes
<1> QED BY <1>1, <1>2 DEF Typed, Shapes

\* What the types ask of a step that leaves the configuration, the session and
\* the number of entries, once the lists and the disk have theirs.
LEMMA TypedNext ==
  ASSUME Typed, UNCHANGED <<conf, session>>,
         entry' \in Seq(Object), Len(entry) <= Len(entry'), Len(entry') <= MaxEntries,
         entry' # <<>> => session,
         IsFiniteSet(DOMAIN disk'), DOMAIN disk' \subseteq FileNames,
         disk' \in [DOMAIN disk' -> [dir : BOOLEAN, size : Sizes]],
         setprop' \in [h : Handles \cup {None}, prop : {"OBJECT_FILE_NAME", "NAME"}],
         told' \in [Handles -> Sizes \cup {None}], sent' \in [Handles -> SentNames \cup {None}],
         \A h \in Handles : told'[h] # None \/ sent'[h] # None => h \in DOMAIN entry'
  PROVE  Typed'
<1>1. Object' = Object /\ Sizes' = Sizes /\ SentNames' = SentNames /\ FileNames' = FileNames
  BY DEF Object, Sizes, SentNames, FileNames
<1>2. Shapes'
  BY <1>1 DEF Shapes
<1>3. \A h \in DOMAIN entry' : entry'[h] \in Object
  OBVIOUS
<1>4. \A n \in DOMAIN disk' : disk'[n].dir \in BOOLEAN /\ disk'[n].size \in Sizes
  OBVIOUS
<1>5. TypeOK'
  BY <1>1, <1>3, <1>4 DEF Typed, TypeOK, Object
<1> QED BY <1>2, <1>5 DEF Typed

\* The local users.
LEMMA LocalTyped ==
  ASSUME Typed, Local
  PROVE  Typed'
<1>1. /\ entry \in Seq(Object) /\ Len(entry) \in Nat /\ Len(entry) <= MaxEntries
      /\ DOMAIN entry = 1..Len(entry) /\ DOMAIN entry \subseteq Handles
      /\ entry # <<>> => session
      /\ IsFiniteSet(DOMAIN disk) /\ DOMAIN disk \subseteq FileNames
      /\ disk \in [DOMAIN disk -> [dir : BOOLEAN, size : Sizes]]
      /\ setprop \in [h : Handles \cup {None}, prop : {"OBJECT_FILE_NAME", "NAME"}]
      /\ sent \in [Handles -> SentNames \cup {None}]
      /\ \A h \in Handles : told[h] # None \/ sent[h] # None => h \in DOMAIN entry
  BY EntryTyped DEF Typed, TypeOK, Shapes
<1>2. ASSUME NEW n \in LocalNames \cup DOMAIN disk, NEW d \in BOOLEAN, NEW s \in Sizes,
             LocalWrite(n, d, s)
      PROVE  Typed'
  <2>1. /\ disk' = [m \in DOMAIN disk \cup {n} |->
                       IF m = n THEN [dir |-> d, size |-> s] ELSE disk[m]]
        /\ told' = Forgotten({n})
        /\ UNCHANGED <<conf, session, entry, setprop, sent>>
    BY <1>2 DEF LocalWrite
  <2>2. n \in FileNames
    BY <1>1, <1>2 DEF LocalNames, FileNames
  <2>3. /\ IsFiniteSet(DOMAIN disk') /\ DOMAIN disk' \subseteq FileNames
        /\ disk' \in [DOMAIN disk' -> [dir : BOOLEAN, size : Sizes]]
    BY <1>2, <2>1, <2>2, WrittenTyped
  <2>4. told' \in [Handles -> Sizes \cup {None}] /\ \A h \in Handles : told'[h] \in {None, told[h]}
    BY <2>1, ForgottenTyped
  <2>5. \A h \in Handles : told'[h] # None \/ sent'[h] # None => h \in DOMAIN entry'
    BY <1>1, <2>1, <2>4
  <2>6. /\ entry' \in Seq(Object) /\ Len(entry) <= Len(entry') /\ Len(entry') <= MaxEntries
        /\ entry' # <<>> => session
        /\ setprop' \in [h : Handles \cup {None}, prop : {"OBJECT_FILE_NAME", "NAME"}]
        /\ sent' \in [Handles -> SentNames \cup {None}]
        /\ UNCHANGED <<conf, session>>
    BY <1>1, <2>1
  <2> QED BY <2>3, <2>4, <2>5, <2>6, TypedNext
<1>3. ASSUME NEW n \in DOMAIN disk, LocalRemove(n) PROVE Typed'
  <2>1. /\ disk' = [m \in DOMAIN disk \ {n} |-> disk[m]]
        /\ told' = Forgotten({n})
        /\ UNCHANGED <<conf, session, entry, setprop, sent>>
    BY <1>3 DEF LocalRemove
  <2>2. IsFiniteSet(DOMAIN disk \ {n})
    BY <1>1, FS_RemoveElement
  <2>3. /\ IsFiniteSet(DOMAIN disk') /\ DOMAIN disk' \subseteq FileNames
        /\ disk' \in [DOMAIN disk' -> [dir : BOOLEAN, size : Sizes]]
    BY <1>1, <2>1, <2>2
  <2>4. told' \in [Handles -> Sizes \cup {None}] /\ \A h \in Handles : told'[h] \in {None, told[h]}
    BY <2>1, ForgottenTyped
  <2>5. \A h \in Handles : told'[h] # None \/ sent'[h] # None => h \in DOMAIN entry'
    BY <1>1, <2>1, <2>4
  <2>6. /\ entry' \in Seq(Object) /\ Len(entry) <= Len(entry') /\ Len(entry') <= MaxEntries
        /\ entry' # <<>> => session
        /\ setprop' \in [h : Handles \cup {None}, prop : {"OBJECT_FILE_NAME", "NAME"}]
        /\ sent' \in [Handles -> SentNames \cup {None}]
        /\ UNCHANGED <<conf, session>>
    BY <1>1, <2>1
  <2> QED BY <2>3, <2>4, <2>5, <2>6, TypedNext
<1> QED BY <1>2, <1>3, SmallTyped DEF Local

\* SendObjectInfo made a file of the name and has an entry for it, the one of that
\* name or a new one at the end of the list.
Names(h, w, d, s) ==
  /\ session /\ h \in Handles /\ NameSent(w) # NoName
  /\ disk' = [m \in DOMAIN disk \cup {NameSent(w)} |->
                 IF m = NameSent(w) THEN [dir |-> d, size |-> 0] ELSE disk[m]]
  /\ \/ h \in Find(NameSent(w)) /\ entry' = entry
     \/ /\ h = Len(entry) + 1
        /\ entry' = Append(entry, [name |-> NameSent(w), dir |-> d,
                                   size |-> IF d THEN 0 ELSE s, live |-> TRUE])
  /\ told' = [Forgotten({NameSent(w)}) EXCEPT ![h] = None]
  /\ sent' = [sent EXCEPT ![h] = w]

\* SendObjectInfo refuses, or does this.
LEMMA SendCases ==
  ASSUME Typed, NEW w, NEW d, NEW s, SendObjectInfo(w, d, s)
  PROVE  /\ UNCHANGED <<conf, session, setprop>>
         /\ Unchanged \/ \E h : Names(h, w, d, s)
<1>1. UNCHANGED <<conf, session, setprop>>
  BY DEF SendObjectInfo
<1> DEFINE n == NameSent(w)
           h == IF Find(n) = {} THEN Len(entry) + 1 ELSE Min(Find(n))
<1>2. \/ Unchanged
      \/ /\ session /\ n # NoName /\ h <= conf.room
         /\ disk' = [m \in DOMAIN disk \cup {n} |-> IF m = n THEN [dir |-> d, size |-> 0] ELSE disk[m]]
         /\ entry' = IF h <= Len(entry) THEN entry
                     ELSE Append(entry, [name |-> n, dir |-> d, size |-> IF d THEN 0 ELSE s, live |-> TRUE])
         /\ told' = [Forgotten({n}) EXCEPT ![h] = None]
         /\ sent' = [sent EXCEPT ![h] = w]
  BY DEF SendObjectInfo
<1>3. /\ Len(entry) \in Nat /\ DOMAIN entry = 1..Len(entry) /\ Find(n) \subseteq DOMAIN entry
      /\ conf.room <= MaxEntries /\ conf.room \in Nat /\ MaxEntries \in Nat
  BY EntryTyped, ConfTyped DEF Find, Typed, TypeOK
<1>4. Find(n) # {} => Min(Find(n)) \in Find(n)
  <2>1. Find(n) \subseteq Nat
    BY <1>3
  <2> QED BY <2>1, LeastNatural
<1>5. PICK g : g = h
  OBVIOUS
<1>6. g \in Find(n) \/ g = Len(entry) + 1
  BY <1>4, <1>5
<1>7. g <= conf.room => g \in Handles
  BY <1>3, <1>6 DEF Handles
<1>8. g \in Find(n) <=> g <= Len(entry)
  BY <1>3, <1>6
<1>9. Unchanged \/ Names(g, w, d, s)
  <2> HIDE DEF h
  <2> QED BY <1>2, <1>5, <1>6, <1>7, <1>8 DEF Names
<1> QED BY <1>1, <1>9

\* setObjectPropValue gave a file and its entry a name.
Renames(h, w) ==
  LET path  == PathOf(entry[h].name)
      path2 == PathOf(NameSent(w))
  IN /\ Live(h) /\ h \in Handles
     /\ path # NoName /\ NameSent(w) # NoName /\ path2 # NoName /\ CanRename(path, path2)
     /\ disk' = [m \in (DOMAIN disk \ {path}) \cup {path2} |-> IF m = path2 THEN disk[path] ELSE disk[m]]
     /\ entry' = [entry EXCEPT ![h].name = NameSent(w)]
     /\ told' = [Forgotten({path, path2}) EXCEPT ![h] = told[h]]
     /\ sent' = [sent EXCEPT ![h] = w]

\* The data of a SetObjectPropValue is refused, or does this.
LEMMA PropDataCases ==
  ASSUME Typed, NEW w, SetObjectPropData(w)
  PROVE  /\ UNCHANGED <<conf, session>>
         /\ setprop' \in {setprop, [setprop EXCEPT !.h = None]}
         /\ Unchanged \/ \E h : Renames(h, w)
<1>1. UNCHANGED <<conf, session>> /\ setprop' \in {setprop, [setprop EXCEPT !.h = None]}
  BY Zenon DEF SetObjectPropData
<1>2. Unchanged \/ (Live(setprop.h) /\ Rename(setprop.h, w))
  BY DEF SetObjectPropData
<1>3. \A h : Live(h) => h \in Handles
  BY EntryTyped DEF Live
<1> QED BY <1>1, <1>2, <1>3 DEF Rename, Renames

\* A name the host gives is that of a file, and its object's.
LEMMA NamedTyped ==
  ASSUME Typed, NEW w \in SentNames
  PROVE  /\ NameSent(w) \in FileNames
         /\ PathOf(NameSent(w)) # NoName => PathOf(NameSent(w)) \in FileNames
BY DEF FileNames, SentNames, PathOf, Typed, Shapes

\* Whoever names an object.
LEMMA NamingTyped ==
  ASSUME Typed, NEW w \in SentNames,
         SetObjectPropData(w) \/ \E d \in BOOLEAN, s \in Sizes : SendObjectInfo(w, d, s)
  PROVE  Typed'
<1>1. /\ entry \in Seq(Object) /\ Len(entry) \in Nat /\ Len(entry) <= MaxEntries
      /\ DOMAIN entry = 1..Len(entry) /\ DOMAIN entry \subseteq Handles
      /\ MaxEntries \in Nat /\ Sizes \subseteq Nat /\ 0 \in Sizes
      /\ entry # <<>> => session
      /\ IsFiniteSet(DOMAIN disk) /\ DOMAIN disk \subseteq FileNames
      /\ disk \in [DOMAIN disk -> [dir : BOOLEAN, size : Sizes]]
      /\ setprop \in [h : Handles \cup {None}, prop : {"OBJECT_FILE_NAME", "NAME"}]
      /\ told \in [Handles -> Sizes \cup {None}] /\ sent \in [Handles -> SentNames \cup {None}]
      /\ \A h \in Handles : told[h] # None \/ sent[h] # None => h \in DOMAIN entry
  BY EntryTyped, ConfTyped DEF Typed, TypeOK, Shapes
<1>2. ASSUME UNCHANGED <<conf, session>>, Unchanged,
             setprop' \in {setprop, [setprop EXCEPT !.h = None]}
      PROVE  Typed'
  BY <1>1, <1>2, TypedNext DEF Unchanged
<1>3. ASSUME NEW d \in BOOLEAN, NEW s \in Sizes, NEW h, Names(h, w, d, s),
             UNCHANGED <<conf, session, setprop>>
      PROVE  Typed'
  <2>1. NameSent(w) \in FileNames
    BY NamedTyped
  <2>2. [dir |-> d, size |-> 0] \in [dir : BOOLEAN, size : Sizes]
    BY <1>1
  <2>3. /\ IsFiniteSet(DOMAIN disk') /\ DOMAIN disk' \subseteq FileNames
        /\ disk' \in [DOMAIN disk' -> [dir : BOOLEAN, size : Sizes]]
    BY <1>3, <2>1, <2>2, WrittenTyped DEF Names
  <2>4. PICK e : e = [name |-> NameSent(w), dir |-> d, size |-> IF d THEN 0 ELSE s, live |-> TRUE]
    OBVIOUS
  <2>5. e \in Object
    BY <1>1, <2>1, <2>4 DEF Object
  <2>6. h \in Handles /\ h <= MaxEntries
    BY <1>1, <1>3 DEF Names, Handles
  <2>7. /\ entry' \in Seq(Object) /\ Len(entry') \in Nat /\ DOMAIN entry' = 1..Len(entry')
        /\ Len(entry) <= Len(entry') /\ Len(entry') <= MaxEntries /\ h \in DOMAIN entry'
    <3>1. CASE h \in Find(NameSent(w)) /\ entry' = entry
      BY <1>1, <3>1 DEF Find
    <3>2. CASE h = Len(entry) + 1 /\ entry' = Append(entry, e)
      <4>1. entry' \in Seq(Object) /\ Len(entry') = Len(entry) + 1
        BY <1>1, <2>5, <3>2
      <4> QED BY <1>1, <2>6, <3>2, <4>1
    <3> QED BY <1>3, <2>4, <3>1, <3>2 DEF Names
  <2>8. told' \in [Handles -> Sizes \cup {None}] /\ \A k \in Handles : told'[k] \in {None, told[k]}
    BY <1>3, <2>6, ForgottenTyped DEF Names
  <2>9. sent' \in [Handles -> SentNames \cup {None}] /\ \A k \in Handles \ {h} : sent'[k] = sent[k]
    BY <1>1, <1>3, <2>6 DEF Names
  <2>10. \A k \in Handles : told'[k] # None \/ sent'[k] # None => k \in DOMAIN entry'
    BY <1>1, <2>7, <2>8, <2>9
  <2>11. session /\ setprop' \in [h : Handles \cup {None}, prop : {"OBJECT_FILE_NAME", "NAME"}]
    BY <1>1, <1>3 DEF Names
  <2> QED BY <1>3, <2>3, <2>7, <2>8, <2>9, <2>10, <2>11, TypedNext
<1>4. ASSUME NEW h, Renames(h, w), UNCHANGED <<conf, session>>,
             setprop' \in {setprop, [setprop EXCEPT !.h = None]}
      PROVE  Typed'
  <2>1. PICK p, q : p = PathOf(entry[h].name) /\ q = PathOf(NameSent(w))
    OBVIOUS
  <2>2. /\ p \in DOMAIN disk /\ q # NoName /\ h \in DOMAIN entry
        /\ disk' = [m \in (DOMAIN disk \ {p}) \cup {q} |-> IF m = q THEN disk[p] ELSE disk[m]]
        /\ entry' = [entry EXCEPT ![h].name = NameSent(w)]
        /\ told' = [Forgotten({p, q}) EXCEPT ![h] = told[h]]
        /\ sent' = [sent EXCEPT ![h] = w]
    BY <1>4, <2>1 DEF Renames, CanRename, Live
  <2>3. NameSent(w) \in FileNames /\ q \in FileNames
    BY <2>1, <2>2, NamedTyped
  <2>4. IsFiniteSet((DOMAIN disk \ {p}) \cup {q})
    BY <1>1, FS_RemoveElement, FS_AddElement
  <2>5. /\ IsFiniteSet(DOMAIN disk') /\ DOMAIN disk' \subseteq FileNames
        /\ disk' \in [DOMAIN disk' -> [dir : BOOLEAN, size : Sizes]]
    BY <1>1, <2>2, <2>3, <2>4
  <2>6. entry' \in Seq(Object) /\ Len(entry') = Len(entry) /\ DOMAIN entry' = DOMAIN entry
    <3>1. entry[h] \in Object
      BY <2>2, EntryTyped
    <3>2. [entry[h] EXCEPT !.name = NameSent(w)] \in Object
      BY <2>3, <3>1 DEF Object
    <3> QED BY <1>1, <2>2, <3>2
  <2>7. told' \in [Handles -> Sizes \cup {None}] /\ \A k \in Handles : told'[k] \in {None, told[k]}
    BY <1>1, <2>2, ForgottenTyped
  <2>8. sent' \in [Handles -> SentNames \cup {None}] /\ \A k \in Handles \ {h} : sent'[k] = sent[k]
    BY <1>1, <2>2
  <2>9. \A k \in Handles : told'[k] # None \/ sent'[k] # None => k \in DOMAIN entry'
    BY <1>1, <2>2, <2>6, <2>7, <2>8
  <2>10. session /\ setprop' \in [h : Handles \cup {None}, prop : {"OBJECT_FILE_NAME", "NAME"}]
    BY <1>1, <1>4, <2>2
  <2> QED BY <1>1, <1>4, <2>5, <2>6, <2>7, <2>8, <2>9, <2>10, TypedNext
<1>5. CASE \E d \in BOOLEAN, s \in Sizes : SendObjectInfo(w, d, s)
  BY <1>2, <1>3, <1>5, SendCases
<1>6. CASE SetObjectPropData(w)
  BY <1>2, <1>4, <1>6, PropDataCases
<1> QED BY <1>5, <1>6

\* At the start there is nothing.
LEMMA InitTyped == Init => Typed
<1> SUFFICES ASSUME Init PROVE Typed
  OBVIOUS
<1>1. /\ conf \in Confs /\ session = FALSE /\ disk = <<>> /\ entry = <<>>
      /\ setprop = [h |-> None, prop |-> "OBJECT_FILE_NAME"]
      /\ told = [h \in Handles |-> None] /\ sent = [h \in Handles |-> None]
  BY DEF Init
<1>2. Len(entry) = 0 /\ DOMAIN entry = {} /\ entry \in Seq(Object) /\ DOMAIN disk = {}
  BY <1>1
<1>3. disk \in [DOMAIN disk -> [dir : BOOLEAN, size : Sizes]] /\ IsFiniteSet(DOMAIN disk)
  BY <1>1, <1>2, FS_EmptySet
<1>4. setprop \in [h : Handles \cup {None}, prop : {"OBJECT_FILE_NAME", "NAME"}]
  BY <1>1
<1>5. told \in [Handles -> Sizes \cup {None}] /\ sent \in [Handles -> SentNames \cup {None}]
      /\ \A h \in Handles : told[h] = None /\ sent[h] = None
  BY <1>1
<1>6. MaxEntries \in Nat
  BY QueriesAssumption
<1>7. Shapes
  BY <1>2, <1>3, <1>4 DEF Shapes
<1>8. TypeOK
  <2>1. conf \in Confs /\ session \in BOOLEAN
    BY <1>1
  <2>2. Len(entry) <= MaxEntries /\ (entry # <<>> => session)
    BY <1>1, <1>2, <1>6
  <2>3. setprop.h \in Handles \cup {None}
    BY <1>4
  <2> QED BY <1>2, <1>5, <2>1, <2>2, <2>3 DEF TypeOK
<1> QED BY <1>7, <1>8 DEF Typed

\* One step of anybody.
LEMMA StepTyped == Typed /\ [Next]_vars => Typed'
<1> SUFFICES ASSUME Typed, [Next]_vars PROVE Typed'
  OBVIOUS
<1>1. CASE Query
  BY <1>1, QueryTyped
<1>2. CASE Host
  BY <1>2, SessionTyped, ScanTyped, SmallTyped, NamingTyped DEF Host
<1>3. CASE Local
  BY <1>3, LocalTyped
<1>4. CASE UNCHANGED vars
  BY <1>4 DEF vars, Typed, TypeOK, Shapes, FileNames, Object, Sizes, SentNames
<1> QED BY <1>1, <1>2, <1>3, <1>4 DEF Next

\* Typed is an invariant.
LEMMA TypedAlways == Spec => []Typed
BY InitTyped, StepTyped, PTL DEF Spec

\* Every variable keeps its type, the list of entries its bound, and an entry is
\* only there with a session.
THEOREM TypeCorrect == Spec => []TypeOK
<1>1. Typed => TypeOK
  BY DEF Typed
<1> QED BY <1>1, TypedAlways, PTL

-----------------------------------------------------------------------------
(* The size the host was told.                                               *)

\* What the host was told is the size of the entry and, where that is there, of
\* the file; so that reading it again makes no difference.
SizeInv ==
  \A h \in DOMAIN entry : Live(h) /\ told[h] # None =>
    /\ entry[h].size = told[h]
    /\ Found(entry[h].name) => FileOf(entry[h].name).size = told[h]

\* A step that changes files leaves those of the others as they were, when it
\* forgets what was told of the ones it changes.
LEMMA ForgetsChanged ==
  ASSUME NEW names, NEW n,
         \A m : m \notin names =>
           /\ m \in DOMAIN disk' <=> m \in DOMAIN disk
           /\ m \in DOMAIN disk => disk'[m] = disk[m],
         {n, PathOf(n)} \cap names = {}
  PROVE  PathOf(n)' = PathOf(n) /\ (Found(n)' <=> Found(n)) /\ (Found(n) => FileOf(n)' = FileOf(n))
<1>1. n \in DOMAIN disk' <=> n \in DOMAIN disk
  OBVIOUS
<1>2. PathOf(n)' = PathOf(n)
  BY <1>1 DEF PathOf
<1> QED BY <1>2 DEF Found, FileOf

\* What Forgotten leaves was told, and its file is none of these.
LEMMA NotForgotten ==
  ASSUME NEW names, NEW h \in Handles, Forgotten(names)[h] # None
  PROVE  /\ Forgotten(names)[h] = told[h]
         /\ h \in DOMAIN entry => {entry[h].name, PathOf(entry[h].name)} \cap names = {}
BY DEF Forgotten

\* An answer tells the size it has just stored.
LEMMA QuerySize ==
  ASSUME Typed, SizeInv, Query
  PROVE  SizeInv'
<1>1. Asking
  BY QueryAsks
<1>2. \A n : PathOf(n)' = PathOf(n) /\ (Found(n)' <=> Found(n)) /\ FileOf(n)' = FileOf(n)
  BY <1>1 DEF Asking, PathOf, Found, FileOf
<1>3. CASE UNCHANGED <<entry, told>>
  BY <1>2, <1>3 DEF SizeInv, Live
<1>4. ASSUME NEW h \in Handles, Live(h), Found(entry[h].name), Refreshed(h) PROVE SizeInv'
  <2>1. PICK s : s = FileOf(entry[h].name).size
    OBVIOUS
  <2>2. h \in DOMAIN entry /\ entry' = [entry EXCEPT ![h].size = s] /\ told' = [told EXCEPT ![h] = s]
    BY <1>4, <2>1 DEF Live, Refreshed
  <2>3. told \in [Handles -> Sizes \cup {None}] /\ DOMAIN entry' = DOMAIN entry /\ entry[h] \in Object
    BY <2>2, EntryTyped DEF Typed, TypeOK
  <2>4. entry'[h].size = s /\ entry'[h].name = entry[h].name /\ told'[h] = s
    BY <2>2, <2>3 DEF Object
  <2>5. \A k \in DOMAIN entry \ {h} : entry'[k] = entry[k] /\ told'[k] = told[k]
    BY <2>2, <2>3
  <2> QED BY <1>2, <2>1, <2>3, <2>4, <2>5 DEF SizeInv, Live
<1> QED BY <1>1, <1>3, <1>4 DEF Asking

\* A listing gives the entries the sizes their files have.
LEMMA ScanSize ==
  ASSUME Typed, SizeInv, GetObjectHandles
  PROVE  SizeInv'
<1>1. UNCHANGED <<disk, told>>
  BY DEF GetObjectHandles
<1>2. \A n : PathOf(n)' = PathOf(n) /\ (Found(n)' <=> Found(n)) /\ FileOf(n)' = FileOf(n)
  BY <1>1 DEF PathOf, Found, FileOf
<1>3. SUFFICES ASSUME NEW h \in DOMAIN entry', Live(h)', told[h] # None
      PROVE  /\ entry'[h].size = told[h]
             /\ Found(entry'[h].name) => FileOf(entry'[h].name).size = told[h]
  BY <1>1, <1>2 DEF SizeInv
<1>4. h \in Handles
  <2>1. DOMAIN entry' = 1..Len(entry') /\ Len(entry') <= MaxEntries /\ Len(entry') \in Nat
    BY ScanEntries
  <2> QED BY <2>1, ConfTyped DEF Handles, Typed, TypeOK
<1>5. h \in DOMAIN entry
  BY <1>3, <1>4 DEF Typed, TypeOK
<1>6. PICK e \in Object : e = entry[h]
  BY <1>5, EntryTyped
<1>7. entry'[h] = IF e.live THEN Scanned(e) ELSE e
  BY <1>5, <1>6, ScanEntries
<1>8. e.live /\ entry'[h] = Scanned(e) /\ entry'[h].live
  BY <1>3, <1>7 DEF Live
<1>9. e.size = told[h] /\ (Found(e.name) => FileOf(e.name).size = told[h])
  BY <1>3, <1>5, <1>6, <1>8 DEF SizeInv, Live
<1> QED BY <1>6, <1>8, <1>9 DEF Scanned, Object

\* Local users: what was told of the file they change is forgotten.
LEMMA LocalSize ==
  ASSUME Typed, SizeInv, Local
  PROVE  SizeInv'
<1>1. ASSUME NEW n, told' = Forgotten({n}), UNCHANGED entry,
             \A m : m # n =>
               /\ m \in DOMAIN disk' <=> m \in DOMAIN disk
               /\ m \in DOMAIN disk => disk'[m] = disk[m]
      PROVE  SizeInv'
  <2>1. SUFFICES ASSUME NEW h \in DOMAIN entry, Live(h), told'[h] # None
        PROVE  /\ entry[h].size = told'[h]
               /\ Found(entry[h].name)' => FileOf(entry[h].name)'.size = told'[h]
    BY <1>1 DEF SizeInv, Live
  <2>2. h \in Handles
    BY <2>1, EntryTyped
  <2>3. told'[h] = told[h] /\ {entry[h].name, PathOf(entry[h].name)} \cap {n} = {}
    BY <1>1, <2>1, <2>2, NotForgotten
  <2>4. PICK e : e = entry[h].name
    OBVIOUS
  <2>5. (Found(e)' <=> Found(e)) /\ (Found(e) => FileOf(e)' = FileOf(e))
    BY <1>1, <2>3, <2>4, ForgetsChanged
  <2>6. entry[h].size = told[h] /\ (Found(e) => FileOf(e).size = told[h])
    BY <2>1, <2>3, <2>4 DEF SizeInv
  <2>7. Found(e)' => FileOf(e)'.size = told'[h]
    BY <2>3, <2>5, <2>6
  <2>8. (Found(entry[h].name)' <=> Found(e)') /\ FileOf(entry[h].name)' = FileOf(e)'
    BY <1>1, <2>4 DEF Found, FileOf, PathOf
  <2> QED BY <2>3, <2>6, <2>7, <2>8
<1>2. ASSUME NEW n, NEW d, NEW s, LocalWrite(n, d, s) PROVE SizeInv'
  BY <1>1, <1>2 DEF LocalWrite
<1>3. ASSUME NEW n \in DOMAIN disk, LocalRemove(n) PROVE SizeInv'
  BY <1>1, <1>3 DEF LocalRemove
<1>4. ASSUME NEW h \in DOMAIN entry, InotifyDelete(h) PROVE SizeInv'
  <2>1. entry' = [entry EXCEPT ![h].live = FALSE] /\ UNCHANGED <<disk, told>>
    BY <1>4 DEF InotifyDelete
  <2>2. \A n : PathOf(n)' = PathOf(n) /\ (Found(n)' <=> Found(n)) /\ FileOf(n)' = FileOf(n)
    BY <2>1 DEF PathOf, Found, FileOf
  <2>3. entry[h] \in Object /\ DOMAIN entry' = DOMAIN entry
    BY <1>4, <2>1, EntryTyped
  <2>4. entry'[h].size = entry[h].size /\ entry'[h].name = entry[h].name /\ ~entry'[h].live
    BY <1>4, <2>1, <2>3 DEF Object
  <2>5. \A k \in DOMAIN entry \ {h} : entry'[k] = entry[k]
    BY <2>1
  <2> QED BY <2>1, <2>2, <2>3, <2>4, <2>5 DEF SizeInv, Live
<1> QED BY <1>2, <1>3, <1>4 DEF Local

\* SendObjectInfo: nothing was told of the object it makes or empties.
LEMMA SendSize ==
  ASSUME Typed, SizeInv, NEW w \in SentNames, NEW d, NEW s, NEW g, Names(g, w, d, s)
  PROVE  SizeInv'
<1>1. PICK n : n = NameSent(w)
  OBVIOUS
<1>2. /\ g \in Handles /\ told' = [Forgotten({n}) EXCEPT ![g] = None]
      /\ disk' = [m \in DOMAIN disk \cup {n} |-> IF m = n THEN [dir |-> d, size |-> 0] ELSE disk[m]]
  BY <1>1 DEF Names
<1>3. /\ Forgotten({n}) \in [Handles -> Sizes \cup {None}]
      /\ entry \in Seq(Object) /\ DOMAIN entry \subseteq Handles
  BY ForgottenTyped, EntryTyped DEF Typed, Shapes
<1>4. told'[g] = None /\ \A h \in Handles \ {g} : told'[h] = Forgotten({n})[h]
  BY <1>2, <1>3
<1>5. \A h \in DOMAIN entry' \ {g} : h \in DOMAIN entry /\ entry'[h] = entry[h]
  <2>1. CASE entry' = entry
    BY <2>1
  <2>2. CASE g = Len(entry) + 1 /\ \E e : entry' = Append(entry, e)
    BY <1>3, <2>2
  <2> QED BY <2>1, <2>2 DEF Names
<1>6. SUFFICES ASSUME NEW h \in DOMAIN entry, h # g, Live(h), told'[h] # None, entry'[h] = entry[h]
      PROVE  /\ entry[h].size = told'[h]
             /\ Found(entry[h].name)' => FileOf(entry[h].name)'.size = told'[h]
  BY <1>4, <1>5 DEF SizeInv, Live, Found, FileOf, PathOf
<1>7. told'[h] = told[h] /\ {entry[h].name, PathOf(entry[h].name)} \cap {n} = {}
  BY <1>3, <1>4, <1>6, NotForgotten
<1>8. PICK e : e = entry[h].name
  OBVIOUS
<1>9. \A m : m # n => (m \in DOMAIN disk' <=> m \in DOMAIN disk) /\ (m \in DOMAIN disk => disk'[m] = disk[m])
  BY <1>2
<1>10. (Found(e)' <=> Found(e)) /\ (Found(e) => FileOf(e)' = FileOf(e))
  BY <1>7, <1>8, <1>9, ForgetsChanged
<1>11. entry[h].size = told[h] /\ (Found(e) => FileOf(e).size = told[h])
  BY <1>6, <1>7, <1>8 DEF SizeInv
<1>12. Found(e)' => FileOf(e)'.size = told'[h]
  BY <1>7, <1>10, <1>11
<1> QED BY <1>6, <1>7, <1>8, <1>11, <1>12

\* A rename: the file goes where the path of the new name leads.
LEMMA RenamedPath ==
  ASSUME NEW n, NEW p, NEW q, q = PathOf(n), q # NoName,
         disk' = [m \in (DOMAIN disk \ {p}) \cup {q} |-> IF m = q THEN disk[p] ELSE disk[m]]
  PROVE  PathOf(n)' = q /\ FileOf(n)' = disk[p]
<1>1. DOMAIN disk' = (DOMAIN disk \ {p}) \cup {q} /\ disk'[q] = disk[p]
  OBVIOUS
<1>2. PathOf(n)' = q
  <2>1. CASE n \in DOMAIN disk
    <3>1. q = n
      BY <2>1 DEF PathOf
    <3> QED BY <1>1, <3>1 DEF PathOf
  <2>2. CASE n \notin DOMAIN disk
    <3>1. ~(Len(n) > NameMax) /\ q = sanitize_name(n)
      BY <2>2 DEF PathOf
    <3>2. n \in DOMAIN disk' <=> n = q
      BY <1>1, <2>2
    <3> QED BY <3>1, <3>2 DEF PathOf
  <2> QED BY <2>1, <2>2
<1> QED BY <1>1, <1>2 DEF FileOf

\* A rename keeps what was told of the object, and forgets the one it replaced.
LEMMA RenameSize ==
  ASSUME Typed, SizeInv, NEW w \in SentNames, NEW g, Renames(g, w)
  PROVE  SizeInv'
<1>1. PICK n, p, q : n = NameSent(w) /\ p = PathOf(entry[g].name) /\ q = PathOf(n)
  OBVIOUS
<1>2. /\ Live(g) /\ g \in Handles /\ g \in DOMAIN entry /\ p \in DOMAIN disk /\ q # NoName
      /\ disk' = [m \in (DOMAIN disk \ {p}) \cup {q} |-> IF m = q THEN disk[p] ELSE disk[m]]
      /\ entry' = [entry EXCEPT ![g].name = n]
      /\ told' = [Forgotten({p, q}) EXCEPT ![g] = told[g]]
  BY <1>1 DEF Renames, CanRename, Live
<1>3. /\ Forgotten({p, q}) \in [Handles -> Sizes \cup {None}]
      /\ entry[g] \in Object /\ DOMAIN entry' = DOMAIN entry /\ DOMAIN entry \subseteq Handles
  BY <1>2, ForgottenTyped, EntryTyped
<1>4. /\ entry'[g].name = n /\ entry'[g].size = entry[g].size /\ entry'[g].live = entry[g].live
      /\ \A h \in DOMAIN entry \ {g} : entry'[h] = entry[h]
  BY <1>2, <1>3 DEF Object
<1>5. told'[g] = told[g] /\ \A h \in Handles \ {g} : told'[h] = Forgotten({p, q})[h]
  BY <1>2, <1>3
<1>6. ASSUME told[g] # None PROVE entry[g].size = told[g] /\ FileOf(n)'.size = told[g]
  <2>1. entry[g].size = told[g] /\ (Found(entry[g].name) => FileOf(entry[g].name).size = told[g])
    BY <1>2, <1>6 DEF SizeInv
  <2>2. Found(entry[g].name) /\ FileOf(entry[g].name) = disk[p]
    BY <1>1, <1>2 DEF Found, FileOf
  <2>3. FileOf(n)' = disk[p]
    BY <1>1, <1>2, RenamedPath
  <2> QED BY <2>1, <2>2, <2>3
<1>7. ASSUME NEW h \in DOMAIN entry, h # g, Live(h), told'[h] # None
      PROVE  /\ entry[h].size = told'[h]
             /\ Found(entry[h].name)' => FileOf(entry[h].name)'.size = told'[h]
  <2>1. told'[h] = told[h] /\ {entry[h].name, PathOf(entry[h].name)} \cap {p, q} = {}
    BY <1>3, <1>5, <1>7, NotForgotten
  <2>2. PICK e : e = entry[h].name
    OBVIOUS
  <2>3. \A m : m \notin {p, q} =>
          (m \in DOMAIN disk' <=> m \in DOMAIN disk) /\ (m \in DOMAIN disk => disk'[m] = disk[m])
    BY <1>2
  <2>4. (Found(e)' <=> Found(e)) /\ (Found(e) => FileOf(e)' = FileOf(e))
    BY <2>1, <2>2, <2>3, ForgetsChanged
  <2>5. entry[h].size = told[h] /\ (Found(e) => FileOf(e).size = told[h])
    BY <1>7, <2>1, <2>2 DEF SizeInv
  <2>6. Found(e)' => FileOf(e)'.size = told'[h]
    BY <2>1, <2>4, <2>5
  <2>7. entry'[h].name = e
    BY <1>4, <1>7, <2>2
  <2> QED BY <1>4, <1>7, <2>1, <2>5, <2>6, <2>7
<1>8. SUFFICES ASSUME NEW h \in DOMAIN entry', Live(h)', told'[h] # None
      PROVE  /\ entry'[h].size = told'[h]
             /\ Found(entry[h].name)' => FileOf(entry[h].name)'.size = told'[h]
  BY DEF SizeInv
<1>9. h \in DOMAIN entry /\ Live(h)
  BY <1>3, <1>4, <1>8 DEF Live
<1>10. CASE h = g
  BY <1>4, <1>5, <1>6, <1>8, <1>10
<1>11. CASE h # g
  BY <1>4, <1>7, <1>8, <1>9, <1>11
<1> QED BY <1>10, <1>11

\* One step of anybody.
LEMMA SizeStep == Typed /\ SizeInv /\ [Next]_vars => SizeInv'
<1> SUFFICES ASSUME Typed, SizeInv, [Next]_vars PROVE SizeInv'
  OBVIOUS
<1>1. ASSUME UNCHANGED <<disk, entry, told>> PROVE SizeInv'
  BY <1>1 DEF SizeInv, Live, Found, FileOf, PathOf
<1>2. CASE Query
  BY <1>2, QuerySize
<1>3. CASE Local
  BY <1>3, LocalSize
<1>4. CASE UNCHANGED vars
  BY <1>1, <1>4 DEF vars
<1>5. ASSUME NEW w \in SentNames, SetObjectPropData(w) PROVE SizeInv'
  BY <1>1, <1>5, PropDataCases, RenameSize DEF Unchanged
<1>6. ASSUME NEW w \in SentNames, NEW d \in BOOLEAN, NEW s \in Sizes, SendObjectInfo(w, d, s)
      PROVE  SizeInv'
  BY <1>1, <1>6, SendCases, SendSize DEF Unchanged
<1>7. CASE GetObjectHandles
  BY <1>7, ScanSize
<1>8. CASE OpenSession
  BY <1>1, <1>8 DEF OpenSession, Unchanged
<1>9. CASE CloseSession
  BY <1>9 DEF CloseSession, SizeInv
<1>10. CASE \E h, p : SetObjectPropValue(h, p)
  BY <1>1, <1>10 DEF SetObjectPropValue, Unchanged
<1>11. CASE Host
  BY <1>5, <1>6, <1>7, <1>8, <1>9, <1>10, <1>11 DEF Host
<1> QED BY <1>2, <1>3, <1>4, <1>11 DEF Next

\* The size a host was told is the one GetObject sends by and GetObjectPropValue
\* tells, through listings, renames, removals and files that replace each other,
\* until someone changes that file: for any names, any cleaning of them and any
\* number of objects.
THEOREM SizeHoldsCorrect == Spec => []SizeHolds
<1>1. Init => SizeInv
  BY DEF Init, SizeInv
<1>2. Typed /\ SizeInv => SizeHolds
  BY DEF SizeInv, SizeHolds
<1> QED BY <1>1, <1>2, SizeStep, TypedAlways, PTL DEF Spec

-----------------------------------------------------------------------------
(* The tables of properties and what is answered from them.                  *)

Has(s, x) == \E i \in DOMAIN s : s[i] = x

\* A list put together from two has what they have.
LEMMA ConcatHas ==
  ASSUME NEW S, NEW s \in Seq(S), NEW t \in Seq(S)
  PROVE  /\ s \o t \in Seq(S) /\ Len(s \o t) = Len(s) + Len(t)
         /\ \A x : Has(s, x) \/ Has(t, x) => Has(s \o t, x)
<1>1. /\ s \o t \in Seq(S) /\ Len(s \o t) = Len(s) + Len(t)
      /\ \A i \in 1..Len(s) : (s \o t)[i] = s[i]
      /\ \A i \in 1..Len(t) : (s \o t)[Len(s) + i] = t[i]
  BY ConcatProperties
<1>2. PICK l, m \in Nat : l = Len(s) /\ m = Len(t)
  OBVIOUS
<1>3. DOMAIN s = 1..l /\ DOMAIN t = 1..m /\ DOMAIN (s \o t) = 1..l + m
  BY <1>1, <1>2
<1>4. \A i \in 1..l : i \in 1..l + m
  BY <1>2
<1>5. \A i \in 1..m : l + i \in 1..l + m
  BY <1>2
<1> QED BY <1>1, <1>2, <1>3, <1>4, <1>5 DEF Has

\* The data type of a property in every row that has it.
RowType(p) ==
  IF p = "OBJECT_SIZE" THEN "UINT64"
  ELSE IF p \in {"STORAGE_ID", "PARENT_OBJECT", "ASSOCIATION_DESC", "0xFFFF"} THEN "UINT32"
  ELSE IF p \in {"OBJECT_FORMAT", "PROTECTION_STATUS", "HIDDEN"} THEN "UINT16"
  ELSE IF p = "PERSISTENT_UID" THEN "UINT128"
  ELSE "STR"

Listed ==
  {"STORAGE_ID", "OBJECT_FORMAT", "PROTECTION_STATUS", "OBJECT_SIZE", "OBJECT_FILE_NAME",
   "DATE_MODIFIED", "PARENT_OBJECT", "PERSISTENT_UID", "NAME", "DISPLAY_NAME", "DATE_CREATED"}

\* The rows that are like this, and set the one property that can be set.
GoodRows ==
  {r \in [prop : Listed \cup {"ASSOCIATION_DESC", "HIDDEN", "0xFFFF"},
          type : {"UINT16", "UINT32", "UINT64", "UINT128", "STR"}, set : BOOLEAN,
          format : {"any", "end", "UNDEFINED", "ASSOCIATION", "TEXT"}] :
     r.type = RowType(r.prop) /\ (r.set <=> r.prop = "OBJECT_FILE_NAME")}

HasRow(s, p, f) == \E i \in DOMAIN s : s[i].prop = p /\ s[i].format = f

\* The ten rows of a format.
LEMMA RowsGood ==
  ASSUME NEW f \in {"UNDEFINED", "ASSOCIATION"}
  PROVE  /\ Rows(f) \in Seq(GoodRows)
         /\ \A p \in Listed \ {"STORAGE_ID", "OBJECT_FORMAT"} : HasRow(Rows(f), p, f)
<1> DEFINE R(p, t, s) == Row(p, t, s, f)
<1>1. PICK r1, r2, r3, r4, r5, r6, r7, r8, r9, r10 :
        /\ r1 = R("OBJECT_SIZE", "UINT64", FALSE) /\ r2 = R("STORAGE_ID", "UINT32", FALSE)
        /\ r3 = R("PROTECTION_STATUS", "UINT16", FALSE) /\ r4 = R("DISPLAY_NAME", "STR", FALSE)
        /\ r5 = R("OBJECT_FILE_NAME", "STR", TRUE) /\ r6 = R("DATE_CREATED", "STR", FALSE)
        /\ r7 = R("DATE_MODIFIED", "STR", FALSE) /\ r8 = R("PARENT_OBJECT", "UINT32", FALSE)
        /\ r9 = R("PERSISTENT_UID", "UINT128", FALSE) /\ r10 = R("NAME", "STR", FALSE)
  OBVIOUS
<1>2. Rows(f) = <<r1, r2, r3, r4, r5, r6, r7, r8, r9, r10>>
  BY <1>1 DEF Rows
<1>3. {r1, r2, r3, r4, r5, r6, r7, r8, r9, r10} \subseteq GoodRows
  <2>1. r1 \in GoodRows
    BY <1>1 DEF GoodRows, Row, RowType, Listed
  <2>2. r2 \in GoodRows
    BY <1>1 DEF GoodRows, Row, RowType, Listed
  <2>3. r3 \in GoodRows
    BY <1>1 DEF GoodRows, Row, RowType, Listed
  <2>4. r4 \in GoodRows
    BY <1>1 DEF GoodRows, Row, RowType, Listed
  <2>5. r5 \in GoodRows
    BY <1>1 DEF GoodRows, Row, RowType, Listed
  <2>6. r6 \in GoodRows
    BY <1>1 DEF GoodRows, Row, RowType, Listed
  <2>7. r7 \in GoodRows
    BY <1>1 DEF GoodRows, Row, RowType, Listed
  <2>8. r8 \in GoodRows
    BY <1>1 DEF GoodRows, Row, RowType, Listed
  <2>9. r9 \in GoodRows
    BY <1>1 DEF GoodRows, Row, RowType, Listed
  <2>10. r10 \in GoodRows
    BY <1>1 DEF GoodRows, Row, RowType, Listed
  <2> QED BY <2>1, <2>2, <2>3, <2>4, <2>5, <2>6, <2>7, <2>8, <2>9, <2>10
<1>4. /\ r1.prop = "OBJECT_SIZE" /\ r3.prop = "PROTECTION_STATUS" /\ r4.prop = "DISPLAY_NAME"
      /\ r5.prop = "OBJECT_FILE_NAME" /\ r6.prop = "DATE_CREATED" /\ r7.prop = "DATE_MODIFIED"
      /\ r8.prop = "PARENT_OBJECT" /\ r9.prop = "PERSISTENT_UID" /\ r10.prop = "NAME"
      /\ \A r \in {r1, r3, r4, r5, r6, r7, r8, r9, r10} : r.format = f
  BY <1>1 DEF Row
<1> HIDE DEF R
<1>5. PICK t : t = Rows(f)
  OBVIOUS
<1>6. t \in Seq(GoodRows)
  BY <1>2, <1>3, <1>5
<1>7. /\ DOMAIN t = 1..10 /\ t[1] = r1 /\ t[3] = r3 /\ t[4] = r4 /\ t[5] = r5 /\ t[6] = r6
      /\ t[7] = r7 /\ t[8] = r8 /\ t[9] = r9 /\ t[10] = r10
  BY <1>2, <1>5
<1>8. \A p \in Listed \ {"STORAGE_ID", "OBJECT_FORMAT"} : HasRow(t, p, f)
  BY <1>4, <1>7 DEF Listed, HasRow
<1> QED BY <1>5, <1>6, <1>8

\* Every row of the table is good, and each listed property has one for both
\* kinds of objects or for any.
LEMMA TableGood ==
  /\ properties \in Seq(GoodRows)
  /\ \A p \in Listed, f \in {"UNDEFINED", "ASSOCIATION"} :
       \E g \in {f, "any"} : HasRow(properties, p, g)
<1>1. PICK a, b1, b2, b3, c1, c2, c3, c4, ra, ru :
        /\ a = Row("STORAGE_ID", "UINT32", FALSE, "any")
        /\ b1 = Row("OBJECT_FORMAT", "UINT16", FALSE, "UNDEFINED")
        /\ b2 = Row("OBJECT_FORMAT", "UINT16", FALSE, "ASSOCIATION")
        /\ b3 = Row("OBJECT_FORMAT", "UINT16", FALSE, "TEXT")
        /\ c1 = Row("ASSOCIATION_DESC", "UINT32", FALSE, "any")
        /\ c2 = Row("PROTECTION_STATUS", "UINT16", FALSE, "any")
        /\ c3 = Row("HIDDEN", "UINT16", FALSE, "any")
        /\ c4 = Row("0xFFFF", "UINT32", FALSE, "end")
        /\ ra = Rows("ASSOCIATION") /\ ru = Rows("UNDEFINED")
  OBVIOUS
<1>2. properties = ((((<<a>> \o <<b1, b2, b3>>) \o ra) \o ru) \o <<c1, c2, c3, c4>>)
  BY <1>1 DEF properties
<1>3. {a, b1, b2, b3, c1, c2, c3, c4} \subseteq GoodRows
  <2>1. a \in GoodRows
    BY <1>1 DEF GoodRows, Row, RowType, Listed
  <2>2. b1 \in GoodRows
    BY <1>1 DEF GoodRows, Row, RowType, Listed
  <2>3. b2 \in GoodRows
    BY <1>1 DEF GoodRows, Row, RowType, Listed
  <2>4. b3 \in GoodRows
    BY <1>1 DEF GoodRows, Row, RowType, Listed
  <2>5. c1 \in GoodRows
    BY <1>1 DEF GoodRows, Row, RowType, Listed
  <2>6. c2 \in GoodRows
    BY <1>1 DEF GoodRows, Row, RowType, Listed
  <2>7. c3 \in GoodRows
    BY <1>1 DEF GoodRows, Row, RowType, Listed
  <2>8. c4 \in GoodRows
    BY <1>1 DEF GoodRows, Row, RowType, Listed
  <2> QED BY <2>1, <2>2, <2>3, <2>4, <2>5, <2>6, <2>7, <2>8
<1>4. <<a>> \in Seq(GoodRows) /\ <<b1, b2, b3>> \in Seq(GoodRows) /\ <<c1, c2, c3, c4>> \in Seq(GoodRows)
  BY <1>3
<1>5. ra \in Seq(GoodRows) /\ ru \in Seq(GoodRows)
  BY <1>1, RowsGood
<1>6. PICK s1, s2, s3 : s1 = <<a>> \o <<b1, b2, b3>> /\ s2 = s1 \o ra /\ s3 = s2 \o ru
  OBVIOUS
<1>7. s1 \in Seq(GoodRows) /\ \A x : Has(<<a>>, x) \/ Has(<<b1, b2, b3>>, x) => Has(s1, x)
  BY <1>4, <1>6, ConcatHas
<1>8. s2 \in Seq(GoodRows) /\ \A x : Has(s1, x) \/ Has(ra, x) => Has(s2, x)
  BY <1>5, <1>6, <1>7, ConcatHas
<1>9. s3 \in Seq(GoodRows) /\ \A x : Has(s2, x) \/ Has(ru, x) => Has(s3, x)
  BY <1>5, <1>6, <1>8, ConcatHas
<1>10. properties \in Seq(GoodRows) /\ \A x : Has(s3, x) => Has(properties, x)
  BY <1>2, <1>4, <1>6, <1>9, ConcatHas
<1>11. Has(<<a>>, a) /\ Has(<<b1, b2, b3>>, b1) /\ Has(<<b1, b2, b3>>, b2)
  BY DEF Has
<1>12. Has(properties, a) /\ Has(properties, b1) /\ Has(properties, b2)
  BY <1>7, <1>8, <1>9, <1>10, <1>11
<1>13. \A p, g : HasRow(ra, p, g) \/ HasRow(ru, p, g) => HasRow(properties, p, g)
  <2>1. ASSUME NEW x, Has(ra, x) \/ Has(ru, x) PROVE Has(properties, x)
    BY <1>8, <1>9, <1>10, <2>1
  <2>2. \A i \in DOMAIN ra : Has(properties, ra[i])
    BY <2>1 DEF Has
  <2>3. \A i \in DOMAIN ru : Has(properties, ru[i])
    BY <2>1 DEF Has
  <2>4. PICK t : t = properties
    OBVIOUS
  <2>5. \A p, g : HasRow(ra, p, g) => HasRow(t, p, g)
    BY <2>2, <2>4 DEF Has, HasRow
  <2>6. \A p, g : HasRow(ru, p, g) => HasRow(t, p, g)
    BY <2>3, <2>4 DEF Has, HasRow
  <2> QED BY <2>4, <2>5, <2>6
<1>14. /\ HasRow(properties, "STORAGE_ID", "any") /\ HasRow(properties, "OBJECT_FORMAT", "UNDEFINED")
       /\ HasRow(properties, "OBJECT_FORMAT", "ASSOCIATION")
  <2>1. /\ a.prop = "STORAGE_ID" /\ a.format = "any"
        /\ b1.prop = "OBJECT_FORMAT" /\ b1.format = "UNDEFINED"
        /\ b2.prop = "OBJECT_FORMAT" /\ b2.format = "ASSOCIATION"
    BY <1>1 DEF Row
  <2> QED BY <1>12, <2>1 DEF Has, HasRow
<1>15. \A p \in Listed \ {"STORAGE_ID", "OBJECT_FORMAT"}, f \in {"UNDEFINED", "ASSOCIATION"} :
         HasRow(properties, p, f)
  BY <1>1, <1>13, RowsGood
<1> QED BY <1>10, <1>14, <1>15

\* What is looked for in a table is a row of it, if there is one.
LEMMA FirstIs ==
  ASSUME NEW S, NEW table \in Seq(S), NEW is, is \subseteq DOMAIN table, is # {}
  PROVE  \E i \in is : First(table, is) = <<table[i]>>
<1>1. is \subseteq Nat
  OBVIOUS
<1>2. Min(is) \in is
  BY <1>1, LeastNatural
<1> QED BY <1>2 DEF First

\* GetObjectPropDesc of a listed property answers with one row of it.
LEMMA DescIs ==
  ASSUME NEW p \in Listed, NEW f \in {"UNDEFINED", "ASSOCIATION"}
  PROVE  \E r \in GoodRows : r.prop = p /\ build_properties_dataset(p, f) = <<r>>
<1> DEFINE of(g) == {i \in DOMAIN properties : properties[i].prop = p /\ properties[i].format = g}
           last == {i \in DOMAIN properties : properties[i].prop = p /\ p = "0xFFFF"}
<1>1. PICK t \in Seq(GoodRows) : t = properties
  BY TableGood
<1>2. \A g : of(g) # {} => \E r \in GoodRows : r.prop = p /\ First(properties, of(g)) = <<r>>
  <2>1. SUFFICES ASSUME NEW g, of(g) # {}
                 PROVE  \E r \in GoodRows : r.prop = p /\ First(properties, of(g)) = <<r>>
    OBVIOUS
  <2>2. of(g) \subseteq DOMAIN t
    BY <1>1
  <2>3. PICK i \in of(g) : First(t, of(g)) = <<t[i]>>
    <3> HIDE DEF of
    <3> QED BY <2>1, <2>2, FirstIs
  <2>4. t[i] \in GoodRows /\ t[i].prop = p
    BY <1>1, <2>3
  <2> QED BY <1>1, <2>3, <2>4
<1>3. of(f) # {} \/ of("any") # {}
  <2>1. PICK g \in {f, "any"} : HasRow(properties, p, g)
    BY TableGood
  <2>2. of(g) # {}
    BY <2>1 DEF HasRow
  <2> QED BY <2>1, <2>2
<1>4. \A g : of(g) = {} => First(properties, of(g)) = <<>>
  BY DEF First
<1>5. \A r : <<r>> # <<>>
  OBVIOUS
<1>6. build_properties_dataset(p, f) =
        IF First(properties, of(f)) # <<>> THEN First(properties, of(f))
        ELSE IF First(properties, of("any")) # <<>> THEN First(properties, of("any"))
        ELSE First(properties, last)
  BY DEF build_properties_dataset
<1> HIDE DEF of, last
<1>7. CASE of(f) # {}
  BY <1>2, <1>5, <1>6, <1>7
<1>8. CASE of(f) = {}
  <2>1. of("any") # {}
    BY <1>3, <1>8
  <2> QED BY <1>2, <1>4, <1>5, <1>6, <1>8, <2>1
<1> QED BY <1>7, <1>8

\* GetObjectPropList answers about a listed property with its type.
LEMMA ElementIs ==
  ASSUME NEW p, NEW v
  PROVE  /\ p \in Listed => objectproplist_element(p, v, "all") = <<Field(p, RowType(p), v)>>
         /\ p = "ASSOCIATION_TYPE" => objectproplist_element(p, v, "all") = <<>>
<1> DEFINE is == {i \in DOMAIN properties : properties[i].prop = p}
<1>1. objectproplist_element(p, v, "all") =
        IF First(properties, is) = <<>> THEN <<>>
        ELSE <<Field(p, First(properties, is)[1].type, v)>>
  BY DEF objectproplist_element
<1>2. PICK t \in Seq(GoodRows) : t = properties
  BY TableGood
<1>3. ASSUME p \in Listed PROVE objectproplist_element(p, v, "all") = <<Field(p, RowType(p), v)>>
  <2>1. is # {} /\ is \subseteq DOMAIN t
    BY <1>2, <1>3, TableGood DEF HasRow
  <2>2. PICK i \in is : First(t, is) = <<t[i]>>
    <3> HIDE DEF is
    <3> QED BY <2>1, FirstIs
  <2>3. t[i] \in GoodRows /\ t[i].prop = p
    BY <1>2, <2>2
  <2>4. t[i].type = RowType(p)
    BY <2>3 DEF GoodRows
  <2> HIDE DEF is
  <2> QED BY <1>1, <1>2, <2>2, <2>4
<1>4. ASSUME p = "ASSOCIATION_TYPE" PROVE objectproplist_element(p, v, "all") = <<>>
  <2>1. \A i \in DOMAIN t : t[i] \in GoodRows
    OBVIOUS
  <2>2. \A r \in GoodRows : r.prop # p
    BY <1>4 DEF GoodRows, Listed
  <2>3. is = {}
    BY <1>2, <2>1, <2>2
  <2> HIDE DEF is
  <2> QED BY <1>1, <2>3 DEF First
<1> QED BY <1>3, <1>4

\* One more element in a list of fields.
LEMMA OneMoreField ==
  ASSUME NEW S, NEW s \in Seq(S), NEW x \in S, NEW t, t = s \o <<x>>
  PROVE  t \in Seq(S) /\ Len(t) = Len(s) + 1 /\ Has(t, x) /\ \A y : Has(s, y) => Has(t, y)
<1>1. PICK o : o = <<x>>
  OBVIOUS
<1>2. o \in Seq(S) /\ Len(o) = 1 /\ Has(o, x)
  BY ONLY <1>1, x \in S DEF Has
<1>3. t = s \o o
  BY ONLY <1>1, t = s \o <<x>>
<1>4. t \in Seq(S) /\ Len(t) = Len(s) + Len(o) /\ \A y : Has(s, y) \/ Has(o, y) => Has(t, y)
  BY ONLY s \in Seq(S), <1>2, <1>3, ConcatHas
<1> QED BY ONLY s \in Seq(S), <1>2, <1>4

\* The value of a listed property in the list of all.
ValueOf(h, size, p) ==
  CASE p = "STORAGE_ID" -> Storage
    [] p = "OBJECT_FORMAT" -> FormatOf(entry[h])
    [] p = "PARENT_OBJECT" -> Root
    [] p = "OBJECT_SIZE" -> size
    [] p = "PROTECTION_STATUS" -> 0
    [] p \in {"OBJECT_FILE_NAME", "NAME"} -> char2unicodestring(entry[h].name)
    [] p = "DISPLAY_NAME" -> <<>>
    [] p \in {"DATE_CREATED", "DATE_MODIFIED"} -> "mtime"
    [] p = "PERSISTENT_UID" -> [i \in 1..4 |-> h + i - 1]

\* The list of all properties has each listed one, once.
LEMMA ListIs ==
  ASSUME NEW h, NEW size, NEW l, l = build_objectproplist_dataset(h, size, "all")
  PROVE  /\ Len(l) = 11
         /\ \A p \in Listed : Has(l, Field(p, RowType(p), ValueOf(h, size, p)))
<1> DEFINE E(p, v) == objectproplist_element(p, v, "all")
           F(p) == Field(p, RowType(p), ValueOf(h, size, p))
<1>1. PICK S : S = {F(p) : p \in Listed}
  OBVIOUS
<1>2. /\ E("STORAGE_ID", Storage) = <<F("STORAGE_ID")>>
      /\ E("OBJECT_FORMAT", FormatOf(entry[h])) = <<F("OBJECT_FORMAT")>>
      /\ E("ASSOCIATION_TYPE", IF entry[h].dir THEN 1 ELSE 0) = <<>>
      /\ E("PARENT_OBJECT", Root) = <<F("PARENT_OBJECT")>>
      /\ E("OBJECT_SIZE", size) = <<F("OBJECT_SIZE")>>
      /\ E("PROTECTION_STATUS", 0) = <<F("PROTECTION_STATUS")>>
  BY ElementIs DEF ValueOf, Listed
<1>3. /\ E("OBJECT_FILE_NAME", char2unicodestring(entry[h].name)) = <<F("OBJECT_FILE_NAME")>>
      /\ E("NAME", char2unicodestring(entry[h].name)) = <<F("NAME")>>
      /\ E("DISPLAY_NAME", <<>>) = <<F("DISPLAY_NAME")>>
      /\ E("DATE_CREATED", "mtime") = <<F("DATE_CREATED")>>
      /\ E("DATE_MODIFIED", "mtime") = <<F("DATE_MODIFIED")>>
      /\ E("PERSISTENT_UID", [i \in 1..4 |-> h + i - 1]) = <<F("PERSISTENT_UID")>>
  BY ElementIs DEF ValueOf, Listed
<1>4. l = ((((((((((((E("STORAGE_ID", Storage) \o E("OBJECT_FORMAT", FormatOf(entry[h])))
            \o E("ASSOCIATION_TYPE", IF entry[h].dir THEN 1 ELSE 0)) \o E("PARENT_OBJECT", Root))
            \o E("OBJECT_SIZE", size)) \o E("PROTECTION_STATUS", 0))
            \o E("OBJECT_FILE_NAME", char2unicodestring(entry[h].name)))
            \o E("NAME", char2unicodestring(entry[h].name))) \o E("DISPLAY_NAME", <<>>))
            \o E("DATE_CREATED", "mtime")) \o E("DATE_MODIFIED", "mtime"))
            \o E("PERSISTENT_UID", [i \in 1..4 |-> h + i - 1])))
  BY DEF build_objectproplist_dataset
<1> HIDE DEF E
<1>5. PICK f1, f2, f3, f4, f5, f6, f7, f8, f9, f10, f11 :
        /\ f1 = F("STORAGE_ID") /\ f2 = F("OBJECT_FORMAT")
        /\ f3 = F("PARENT_OBJECT") /\ f4 = F("OBJECT_SIZE")
        /\ f5 = F("PROTECTION_STATUS") /\ f6 = F("OBJECT_FILE_NAME")
        /\ f7 = F("NAME") /\ f8 = F("DISPLAY_NAME")
        /\ f9 = F("DATE_CREATED") /\ f10 = F("DATE_MODIFIED")
        /\ f11 = F("PERSISTENT_UID")
  OBVIOUS
<1>6. {f1, f2, f3, f4, f5, f6, f7, f8, f9, f10, f11} \subseteq S
  BY <1>1, <1>5 DEF Listed
<1> HIDE DEF F
<1>7. /\ f1 \in S /\ f2 \in S /\ f3 \in S /\ f4 \in S /\ f5 \in S /\ f6 \in S
      /\ f7 \in S /\ f8 \in S /\ f9 \in S /\ f10 \in S /\ f11 \in S
  BY <1>6
<1>8. (<<f1>> \o <<f2>>) \o <<>> = <<f1>> \o <<f2>>
  <2>1. <<f1>> \o <<f2>> \in Seq(S)
    BY <1>7
  <2> QED BY ONLY <2>1
<1>9. l = ((((((((((<<f1>> \o <<f2>>) \o <<f3>>) \o <<f4>>) \o <<f5>>) \o <<f6>>)
               \o <<f7>>) \o <<f8>>) \o <<f9>>) \o <<f10>>) \o <<f11>>)
  BY <1>2, <1>3, <1>4, <1>5, <1>8
<1>10. Len(l) = 11 /\ \A f \in {f1, f2, f3, f4, f5, f6, f7, f8, f9, f10, f11} : Has(l, f)
  <2>1. PICK s1 : s1 = <<f1>>
    OBVIOUS
  <2>2. PICK s2 : s2 = s1 \o <<f2>>
    OBVIOUS
  <2>3. PICK s3 : s3 = s2 \o <<f3>>
    OBVIOUS
  <2>4. PICK s4 : s4 = s3 \o <<f4>>
    OBVIOUS
  <2>5. PICK s5 : s5 = s4 \o <<f5>>
    OBVIOUS
  <2>6. PICK s6 : s6 = s5 \o <<f6>>
    OBVIOUS
  <2>7. PICK s7 : s7 = s6 \o <<f7>>
    OBVIOUS
  <2>8. PICK s8 : s8 = s7 \o <<f8>>
    OBVIOUS
  <2>9. PICK s9 : s9 = s8 \o <<f9>>
    OBVIOUS
  <2>10. PICK s10 : s10 = s9 \o <<f10>>
    OBVIOUS
  <2>11. l = s10 \o <<f11>>
    BY ONLY <1>9, <2>1, <2>2, <2>3, <2>4, <2>5, <2>6, <2>7, <2>8, <2>9, <2>10
  <2>12. s1 \in Seq(S) /\ Len(s1) = 1 /\ Has(s1, f1)
    <3>1. \A x \in S : <<x>> \in Seq(S) /\ Len(<<x>>) = 1 /\ Has(<<x>>, x)
      BY ONLY TRUE DEF Has
    <3> QED BY ONLY <3>1, <2>1, <1>7
  <2>13. s2 \in Seq(S) /\ Len(s2) = 2 /\ Has(s2, f2) /\ \A y : Has(s1, y) => Has(s2, y)
    <3>1. s2 \in Seq(S) /\ Len(s2) = Len(s1) + 1 /\ Has(s2, f2)
          /\ \A y : Has(s1, y) => Has(s2, y)
      BY ONLY <2>12, <2>2, <1>7, OneMoreField
    <3>2. Len(s2) = 2
      BY ONLY <2>12, <3>1
    <3> QED BY ONLY <3>1, <3>2
  <2>14. s3 \in Seq(S) /\ Len(s3) = 3 /\ Has(s3, f3) /\ \A y : Has(s2, y) => Has(s3, y)
    <3>1. s3 \in Seq(S) /\ Len(s3) = Len(s2) + 1 /\ Has(s3, f3)
          /\ \A y : Has(s2, y) => Has(s3, y)
      BY ONLY <2>13, <2>3, <1>7, OneMoreField
    <3>2. Len(s3) = 3
      BY ONLY <2>13, <3>1
    <3> QED BY ONLY <3>1, <3>2
  <2>15. s4 \in Seq(S) /\ Len(s4) = 4 /\ Has(s4, f4) /\ \A y : Has(s3, y) => Has(s4, y)
    <3>1. s4 \in Seq(S) /\ Len(s4) = Len(s3) + 1 /\ Has(s4, f4)
          /\ \A y : Has(s3, y) => Has(s4, y)
      BY ONLY <2>14, <2>4, <1>7, OneMoreField
    <3>2. Len(s4) = 4
      BY ONLY <2>14, <3>1
    <3> QED BY ONLY <3>1, <3>2
  <2>16. s5 \in Seq(S) /\ Len(s5) = 5 /\ Has(s5, f5) /\ \A y : Has(s4, y) => Has(s5, y)
    <3>1. s5 \in Seq(S) /\ Len(s5) = Len(s4) + 1 /\ Has(s5, f5)
          /\ \A y : Has(s4, y) => Has(s5, y)
      BY ONLY <2>15, <2>5, <1>7, OneMoreField
    <3>2. Len(s5) = 5
      BY ONLY <2>15, <3>1
    <3> QED BY ONLY <3>1, <3>2
  <2>17. s6 \in Seq(S) /\ Len(s6) = 6 /\ Has(s6, f6) /\ \A y : Has(s5, y) => Has(s6, y)
    <3>1. s6 \in Seq(S) /\ Len(s6) = Len(s5) + 1 /\ Has(s6, f6)
          /\ \A y : Has(s5, y) => Has(s6, y)
      BY ONLY <2>16, <2>6, <1>7, OneMoreField
    <3>2. Len(s6) = 6
      BY ONLY <2>16, <3>1
    <3> QED BY ONLY <3>1, <3>2
  <2>18. s7 \in Seq(S) /\ Len(s7) = 7 /\ Has(s7, f7) /\ \A y : Has(s6, y) => Has(s7, y)
    <3>1. s7 \in Seq(S) /\ Len(s7) = Len(s6) + 1 /\ Has(s7, f7)
          /\ \A y : Has(s6, y) => Has(s7, y)
      BY ONLY <2>17, <2>7, <1>7, OneMoreField
    <3>2. Len(s7) = 7
      BY ONLY <2>17, <3>1
    <3> QED BY ONLY <3>1, <3>2
  <2>19. s8 \in Seq(S) /\ Len(s8) = 8 /\ Has(s8, f8) /\ \A y : Has(s7, y) => Has(s8, y)
    <3>1. s8 \in Seq(S) /\ Len(s8) = Len(s7) + 1 /\ Has(s8, f8)
          /\ \A y : Has(s7, y) => Has(s8, y)
      BY ONLY <2>18, <2>8, <1>7, OneMoreField
    <3>2. Len(s8) = 8
      BY ONLY <2>18, <3>1
    <3> QED BY ONLY <3>1, <3>2
  <2>20. s9 \in Seq(S) /\ Len(s9) = 9 /\ Has(s9, f9) /\ \A y : Has(s8, y) => Has(s9, y)
    <3>1. s9 \in Seq(S) /\ Len(s9) = Len(s8) + 1 /\ Has(s9, f9)
          /\ \A y : Has(s8, y) => Has(s9, y)
      BY ONLY <2>19, <2>9, <1>7, OneMoreField
    <3>2. Len(s9) = 9
      BY ONLY <2>19, <3>1
    <3> QED BY ONLY <3>1, <3>2
  <2>21. s10 \in Seq(S) /\ Len(s10) = 10 /\ Has(s10, f10) /\ \A y : Has(s9, y) => Has(s10, y)
    <3>1. s10 \in Seq(S) /\ Len(s10) = Len(s9) + 1 /\ Has(s10, f10)
          /\ \A y : Has(s9, y) => Has(s10, y)
      BY ONLY <2>20, <2>10, <1>7, OneMoreField
    <3>2. Len(s10) = 10
      BY ONLY <2>20, <3>1
    <3> QED BY ONLY <3>1, <3>2
  <2>22. l \in Seq(S) /\ Len(l) = 11 /\ Has(l, f11) /\ \A y : Has(s10, y) => Has(l, y)
    <3>1. l \in Seq(S) /\ Len(l) = Len(s10) + 1 /\ Has(l, f11)
          /\ \A y : Has(s10, y) => Has(l, y)
      BY ONLY <2>21, <2>11, <1>7, OneMoreField
    <3>2. Len(l) = 11
      BY ONLY <2>21, <3>1
    <3> QED BY ONLY <3>1, <3>2
  <2>23. /\ Has(l, f1) /\ Has(l, f2) /\ Has(l, f3) /\ Has(l, f4) /\ Has(l, f5) /\ Has(l, f6)
         /\ Has(l, f7) /\ Has(l, f8) /\ Has(l, f9) /\ Has(l, f10) /\ Has(l, f11)
    BY ONLY <2>12, <2>13, <2>14, <2>15, <2>16, <2>17, <2>18, <2>19, <2>20, <2>21, <2>22
  <2> QED BY ONLY <2>22, <2>23
<1>11. \A p \in Listed : Has(l, F(p))
  BY <1>5, <1>10 DEF Listed
<1> QED BY <1>10, <1>11 DEF F

\* The value of a listed property, but for the dates and the unique id.
LEMMA ValueIs ==
  ASSUME NEW h, NEW p \in Listed
  PROVE  \E v : /\ build_ObjectPropValue_dataset(h, p) = <<Field(p, RowType(p), v)>>
                /\ p \notin {"DATE_CREATED", "DATE_MODIFIED", "PERSISTENT_UID"}
                     => v = ValueOf(h, entry[h].size, p)
<1>1. CASE p = "STORAGE_ID"
  <2>1. build_ObjectPropValue_dataset(h, p) = <<Field(p, "UINT32", Storage)>>
    BY <1>1 DEF build_ObjectPropValue_dataset
  <2>2. RowType(p) = "UINT32"
    BY <1>1 DEF RowType
  <2>3. ValueOf(h, entry[h].size, p) = Storage
    BY <1>1 DEF ValueOf
  <2> QED BY <2>1, <2>2, <2>3
<1>2. CASE p = "OBJECT_FORMAT"
  <2>1. build_ObjectPropValue_dataset(h, p) = <<Field(p, "UINT16", FormatOf(entry[h]))>>
    BY <1>2 DEF build_ObjectPropValue_dataset
  <2>2. RowType(p) = "UINT16"
    BY <1>2 DEF RowType
  <2>3. ValueOf(h, entry[h].size, p) = FormatOf(entry[h])
    BY <1>2 DEF ValueOf
  <2> QED BY <2>1, <2>2, <2>3
<1>3. CASE p = "PARENT_OBJECT"
  <2>1. build_ObjectPropValue_dataset(h, p) = <<Field(p, "UINT32", Root)>>
    BY <1>3 DEF build_ObjectPropValue_dataset
  <2>2. RowType(p) = "UINT32"
    BY <1>3 DEF RowType
  <2>3. ValueOf(h, entry[h].size, p) = Root
    BY <1>3 DEF ValueOf
  <2> QED BY <2>1, <2>2, <2>3
<1>4. CASE p = "OBJECT_SIZE"
  <2>1. build_ObjectPropValue_dataset(h, p) = <<Field(p, "UINT64", entry[h].size)>>
    BY <1>4 DEF build_ObjectPropValue_dataset
  <2>2. RowType(p) = "UINT64"
    BY <1>4 DEF RowType
  <2>3. ValueOf(h, entry[h].size, p) = entry[h].size
    BY <1>4 DEF ValueOf
  <2> QED BY <2>1, <2>2, <2>3
<1>5. CASE p = "PROTECTION_STATUS"
  <2>1. build_ObjectPropValue_dataset(h, p) = <<Field(p, "UINT16", 0)>>
    BY <1>5 DEF build_ObjectPropValue_dataset
  <2>2. RowType(p) = "UINT16"
    BY <1>5 DEF RowType
  <2>3. ValueOf(h, entry[h].size, p) = 0
    BY <1>5 DEF ValueOf
  <2> QED BY <2>1, <2>2, <2>3
<1>6. CASE p = "OBJECT_FILE_NAME"
  <2>1. build_ObjectPropValue_dataset(h, p) = <<Field(p, "STR", char2unicodestring(entry[h].name))>>
    BY <1>6 DEF build_ObjectPropValue_dataset
  <2>2. RowType(p) = "STR"
    BY <1>6 DEF RowType
  <2>3. ValueOf(h, entry[h].size, p) = char2unicodestring(entry[h].name)
    BY <1>6 DEF ValueOf
  <2> QED BY <2>1, <2>2, <2>3
<1>7. CASE p = "NAME"
  <2>1. build_ObjectPropValue_dataset(h, p) = <<Field(p, "STR", char2unicodestring(entry[h].name))>>
    BY <1>7 DEF build_ObjectPropValue_dataset
  <2>2. RowType(p) = "STR"
    BY <1>7 DEF RowType
  <2>3. ValueOf(h, entry[h].size, p) = char2unicodestring(entry[h].name)
    BY <1>7 DEF ValueOf
  <2> QED BY <2>1, <2>2, <2>3
<1>8. CASE p = "DISPLAY_NAME"
  <2>1. build_ObjectPropValue_dataset(h, p) = <<Field(p, "STR", <<>>)>>
    BY <1>8 DEF build_ObjectPropValue_dataset
  <2>2. RowType(p) = "STR"
    BY <1>8 DEF RowType
  <2>3. ValueOf(h, entry[h].size, p) = <<>>
    BY <1>8 DEF ValueOf
  <2> QED BY <2>1, <2>2, <2>3
<1>9. CASE p = "DATE_CREATED"
  <2>1. build_ObjectPropValue_dataset(h, p) = <<Field(p, "STR", "20100102T101112")>>
    BY <1>9 DEF build_ObjectPropValue_dataset
  <2>2. RowType(p) = "STR"
    BY <1>9 DEF RowType
  <2> QED BY <1>9, <2>1, <2>2
<1>10. CASE p = "DATE_MODIFIED"
  <2>1. build_ObjectPropValue_dataset(h, p) = <<Field(p, "STR", "20100102T101112")>>
    BY <1>10 DEF build_ObjectPropValue_dataset
  <2>2. RowType(p) = "STR"
    BY <1>10 DEF RowType
  <2> QED BY <1>10, <2>1, <2>2
<1>11. CASE p = "PERSISTENT_UID"
  <2>1. build_ObjectPropValue_dataset(h, p) = <<Field(p, "UINT128", <<h, Root, Storage, 0>>)>>
    BY <1>11 DEF build_ObjectPropValue_dataset
  <2>2. RowType(p) = "UINT128"
    BY <1>11 DEF RowType
  <2> QED BY <1>11, <2>1, <2>2
<1> QED BY <1>1, <1>2, <1>3, <1>4, <1>5, <1>6, <1>7, <1>8, <1>9, <1>10, <1>11 DEF Listed

\* Both formats of an object list the same eleven properties.
LEMMA FormatsList ==
  ASSUME NEW f \in {"UNDEFINED", "ASSOCIATION"}
  PROVE  Len(fmt_properties(f)) = 11 /\ ToSet(fmt_properties(f)) = Listed
<1>1. PICK s : s = <<"STORAGE_ID", "OBJECT_FORMAT", "PROTECTION_STATUS", "OBJECT_SIZE",
                     "OBJECT_FILE_NAME", "DATE_MODIFIED", "PARENT_OBJECT", "PERSISTENT_UID",
                     "NAME", "DISPLAY_NAME", "DATE_CREATED">>
  OBVIOUS
<1>2. fmt_properties(f) = s
  BY <1>1 DEF fmt_properties
<1>3. Len(s) = 11 /\ DOMAIN s = 1..11
  BY <1>1
<1>4. /\ s[1] = "STORAGE_ID" /\ s[2] = "OBJECT_FORMAT" /\ s[3] = "PROTECTION_STATUS"
      /\ s[4] = "OBJECT_SIZE" /\ s[5] = "OBJECT_FILE_NAME" /\ s[6] = "DATE_MODIFIED"
      /\ s[7] = "PARENT_OBJECT" /\ s[8] = "PERSISTENT_UID" /\ s[9] = "NAME"
      /\ s[10] = "DISPLAY_NAME" /\ s[11] = "DATE_CREATED"
  BY <1>1
<1>5. ToSet(s) = {s[i] : i \in 1..11}
  BY <1>3 DEF ToSet
<1>6. {s[i] : i \in 1..11} = Listed
  <2>1. \A i \in 1..11 : s[i] \in Listed
    BY <1>4 DEF Listed
  <2>2. \A p \in Listed : \E i \in 1..11 : s[i] = p
    BY <1>4 DEF Listed
  <2> QED BY <2>1, <2>2
<1> QED BY <1>2, <1>3, <1>5, <1>6

\* What is answered about an object's listed property agrees.
LEMMA ObjectAgrees ==
  ASSUME NEW h, NEW f, f = FormatOf(entry[h]),
         NEW list, list = build_objectproplist_dataset(h, entry[h].size, "all"), NEW p \in Listed
  PROVE  LET desc  == build_properties_dataset(p, f)
             value == build_ObjectPropValue_dataset(h, p)
         IN /\ desc # <<>> /\ Len(value) = 1
            /\ value[1].type = desc[1].type
            /\ desc[1].set <=> Settable(p)
            /\ \E i \in DOMAIN list :
                 /\ list[i].prop = p /\ list[i].type = desc[1].type
                 /\ p \notin {"DATE_CREATED", "DATE_MODIFIED", "PERSISTENT_UID"}
                      => list[i].value = value[1].value
<1>1. f \in {"UNDEFINED", "ASSOCIATION"}
  BY DEF FormatOf
<1>2. PICK r \in GoodRows : r.prop = p /\ build_properties_dataset(p, f) = <<r>>
  BY <1>1, DescIs
<1>3. PICK v : /\ build_ObjectPropValue_dataset(h, p) = <<Field(p, RowType(p), v)>>
               /\ p \notin {"DATE_CREATED", "DATE_MODIFIED", "PERSISTENT_UID"}
                    => v = ValueOf(h, entry[h].size, p)
  BY ValueIs
<1>4. PICK i \in DOMAIN list : list[i] = Field(p, RowType(p), ValueOf(h, entry[h].size, p))
  BY ListIs DEF Has
<1>5. r.type = RowType(p) /\ (r.set <=> Settable(p))
  BY <1>2 DEF GoodRows, Settable
<1>6. list[i].prop = p /\ list[i].type = RowType(p)
      /\ list[i].value = ValueOf(h, entry[h].size, p)
  BY <1>4 DEF Field
<1>7. PICK x : x = Field(p, RowType(p), v)
  OBVIOUS
<1>8. x.type = RowType(p) /\ x.value = v
  BY <1>7 DEF Field
<1>9. <<r>> # <<>> /\ <<r>>[1] = r /\ Len(<<x>>) = 1 /\ <<x>>[1] = x
  OBVIOUS
<1>10. PICK desc, value : desc = <<r>> /\ value = <<x>>
  OBVIOUS
<1>11. desc # <<>> /\ desc[1] = r /\ Len(value) = 1 /\ value[1] = x
  BY <1>9, <1>10
<1>12. build_properties_dataset(p, f) = desc /\ build_ObjectPropValue_dataset(h, p) = value
  BY <1>2, <1>3, <1>7, <1>10
<1> QED BY <1>3, <1>5, <1>6, <1>8, <1>11, <1>12

DeviceListed ==
  {"SYNCHRONIZATION_PARTNER", "BATTERY_LEVEL", "DEVICE_FRIENDLY_NAME", "PERCEIVED_DEVICE_TYPE"}

\* The table of the device's properties, row by row.
LEMMA DeviceRows ==
  /\ DOMAIN dev_properties = 1..5 /\ dev_properties[5].prop = "0xFFFF"
  /\ dev_properties[1].prop = "SYNCHRONIZATION_PARTNER" /\ dev_properties[1].type = "STR"
  /\ dev_properties[2].prop = "BATTERY_LEVEL" /\ dev_properties[2].type = "UINT8"
  /\ dev_properties[3].prop = "DEVICE_FRIENDLY_NAME" /\ dev_properties[3].type = "STR"
  /\ dev_properties[4].prop = "PERCEIVED_DEVICE_TYPE" /\ dev_properties[4].type = "UINT32"
<1>1. PICK r1, r2, r3, r4, r5 :
        /\ r1 = DevRow("SYNCHRONIZATION_PARTNER", "STR", "none")
        /\ r2 = DevRow("BATTERY_LEVEL", "UINT8", "range")
        /\ r3 = DevRow("DEVICE_FRIENDLY_NAME", "STR", "none")
        /\ r4 = DevRow("PERCEIVED_DEVICE_TYPE", "UINT32", "none")
        /\ r5 = DevRow("0xFFFF", "UINT32", "none")
  OBVIOUS
<1>2. dev_properties = <<r1, r2, r3, r4, r5>>
  BY <1>1 DEF dev_properties
<1>3. PICK t : t = dev_properties
  OBVIOUS
<1>4. DOMAIN t = 1..5 /\ t[1] = r1 /\ t[2] = r2 /\ t[3] = r3 /\ t[4] = r4 /\ t[5] = r5
  BY <1>2, <1>3
<1> QED BY <1>1, <1>3, <1>4 DEF DevRow

\* What a host can ask the device for.
LEMMA DeviceAsked == DevAsked \ {"0xFFFF"} = DeviceListed \cup {"IMAGE_SIZE"}
<1>1. PICK t : t = dev_properties
  OBVIOUS
<1>2. {t[i].prop : i \in DOMAIN t} = DeviceListed \cup {"0xFFFF"}
  <2>1. \A i \in 1..5 : t[i].prop \in DeviceListed \cup {"0xFFFF"}
    BY <1>1, DeviceRows DEF DeviceListed
  <2>2. \A p \in DeviceListed \cup {"0xFFFF"} : \E i \in 1..5 : t[i].prop = p
    BY <1>1, DeviceRows DEF DeviceListed
  <2>3. DOMAIN t = 1..5
    BY <1>1, DeviceRows
  <2> QED BY <2>1, <2>2, <2>3
<1> QED BY <1>1, <1>2 DEF DevAsked, DeviceListed

\* What is in a list put together from two.
LEMMA ConcatRange ==
  ASSUME NEW S, NEW s \in Seq(S), NEW t \in Seq(S)
  PROVE  s \o t \in Seq(S) /\ Range(s \o t) = Range(s) \cup Range(t)
BY ConcatHas, RangeConcatenation

\* The properties the device lists are those of the table that are supported.
LEMMA DeviceInfoIs ==
  ASSUME NEW p
  PROVE  p \in ToSet(build_deviceinfo_dataset) <=> p \in DeviceListed /\ is_device_property_supported(p)
<1> DEFINE If(q) == IF is_device_property_supported(q) THEN <<q>> ELSE <<>>
<1>1. \A q \in DeviceListed :
        If(q) \in Seq(DeviceListed) /\ \A x : x \in Range(If(q)) <=> x = q /\ is_device_property_supported(q)
  <2> TAKE q \in DeviceListed
  <2>1. CASE is_device_property_supported(q)
    <3>1. If(q) = <<q>>
      BY <2>1
    <3>2. <<q>> \in Seq(DeviceListed) /\ Range(<<q>>) = {q}
      BY DEF Range
    <3> QED BY <2>1, <3>1, <3>2
  <2>2. CASE ~is_device_property_supported(q)
    <3>1. If(q) = <<>>
      BY <2>2
    <3>2. <<>> \in Seq(DeviceListed) /\ Range(<<>>) = {}
      BY DEF Range
    <3> QED BY <2>2, <3>1, <3>2
  <2> QED BY <2>1, <2>2
<1>2. PICK a, b, c, d :
        /\ a = If("SYNCHRONIZATION_PARTNER") /\ b = If("BATTERY_LEVEL")
        /\ c = If("DEVICE_FRIENDLY_NAME") /\ d = If("PERCEIVED_DEVICE_TYPE")
  OBVIOUS
<1>3. build_deviceinfo_dataset = ((a \o b) \o c) \o d
  BY <1>2, DeviceRows DEF build_deviceinfo_dataset
<1> HIDE DEF If
<1>4. /\ a \in Seq(DeviceListed) /\ b \in Seq(DeviceListed)
      /\ c \in Seq(DeviceListed) /\ d \in Seq(DeviceListed)
  BY <1>1, <1>2 DEF DeviceListed
<1>5. Range(((a \o b) \o c) \o d) = Range(a) \cup Range(b) \cup Range(c) \cup Range(d)
  <2>1. PICK ab : ab = a \o b
    OBVIOUS
  <2>2. ab \in Seq(DeviceListed) /\ Range(ab) = Range(a) \cup Range(b)
    BY ONLY <1>4, <2>1, ConcatRange
  <2>3. PICK abc : abc = ab \o c
    OBVIOUS
  <2>4. abc \in Seq(DeviceListed) /\ Range(abc) = Range(ab) \cup Range(c)
    BY ONLY <1>4, <2>2, <2>3, ConcatRange
  <2>5. Range(abc \o d) = Range(abc) \cup Range(d)
    BY ONLY <1>4, <2>4, ConcatRange
  <2> QED BY ONLY <2>1, <2>2, <2>3, <2>4, <2>5
<1>6. p \in Range(a) \cup Range(b) \cup Range(c) \cup Range(d)
        <=> p \in DeviceListed /\ is_device_property_supported(p)
  <2>1. \A q \in DeviceListed : p \in Range(If(q)) <=> p = q /\ is_device_property_supported(q)
    BY <1>1
  <2>2. p \in Range(a) \cup Range(b) \cup Range(c) \cup Range(d)
          <=> \E q \in DeviceListed : p \in Range(If(q))
    BY <1>2 DEF DeviceListed
  <2> QED BY <2>1, <2>2
<1>7. \A s : ToSet(s) = Range(s)
  BY DEF ToSet, Range
<1> QED BY <1>3, <1>5, <1>6, <1>7

\* What is answered about a property of the device agrees.
LEMMA DeviceAgrees ==
  ASSUME NEW p \in DevAsked \ {"0xFFFF"}
  PROVE  LET desc  == build_device_properties_dataset(p)
             value == build_DevicePropValue_dataset(p)
         IN IF p \in ToSet(build_deviceinfo_dataset)
            THEN Len(desc) = 1 /\ Len(value) = 1 /\ desc[1].type = value[1].type
            ELSE desc = <<>> /\ value = <<>>
<1>1. PICK t : t = dev_properties
  OBVIOUS
<1>2. p \in DeviceListed \cup {"IMAGE_SIZE"}
  BY DeviceAsked
<1> DEFINE is == {i \in DOMAIN t : t[i].prop = p}
<1>3. build_device_properties_dataset(p) =
        IF is_device_property_supported(p) THEN First(t, is) ELSE <<>>
  BY <1>1 DEF build_device_properties_dataset
<1>4. \A i \in 1..5 : Min({i}) = i
  BY LeastNatural
<1>5. \A i \in 1..5 : is = {i} => First(t, is) = <<t[i]>>
  BY <1>4 DEF First
<1>6. CASE p = "SYNCHRONIZATION_PARTNER"
  <2>1. is = {1} /\ t[1].type = "STR"
    BY <1>1, <1>6, DeviceRows
  <2>2. CASE is_device_property_supported(p)
    <3>1. build_DevicePropValue_dataset(p) = <<Field(p, "STR", "string")>>
      BY <1>6, <2>2 DEF build_DevicePropValue_dataset
    <3>2. build_device_properties_dataset(p) = <<t[1]>>
      BY <1>3, <1>5, <2>1, <2>2
    <3>3. p \in ToSet(build_deviceinfo_dataset)
      BY <1>6, <2>2, DeviceInfoIs DEF DeviceListed
    <3>4. PICK x : x = Field(p, "STR", "string")
      OBVIOUS
    <3>5. x.type = "STR"
      BY <3>4 DEF Field
    <3>6. PICK desc, value : desc = <<t[1]>> /\ value = <<x>>
      OBVIOUS
    <3>7. Len(desc) = 1 /\ Len(value) = 1 /\ desc[1] = t[1] /\ value[1] = x
      BY <3>6
    <3> HIDE DEF is
    <3> QED BY <2>1, <3>1, <3>2, <3>3, <3>4, <3>5, <3>6, <3>7
  <2>3. CASE ~is_device_property_supported(p)
    BY <1>6, <2>3 DEF is_device_property_supported
  <2> QED BY <2>2, <2>3
<1>7. CASE p = "BATTERY_LEVEL"
  <2>1. is = {2} /\ t[2].type = "UINT8"
    BY <1>1, <1>7, DeviceRows
  <2>2. CASE is_device_property_supported(p)
    <3>1. build_DevicePropValue_dataset(p) = <<Field(p, "UINT8", "level")>>
      BY <1>7, <2>2 DEF build_DevicePropValue_dataset
    <3>2. build_device_properties_dataset(p) = <<t[2]>>
      BY <1>3, <1>5, <2>1, <2>2
    <3>3. p \in ToSet(build_deviceinfo_dataset)
      BY <1>7, <2>2, DeviceInfoIs DEF DeviceListed
    <3>4. PICK x : x = Field(p, "UINT8", "level")
      OBVIOUS
    <3>5. x.type = "UINT8"
      BY <3>4 DEF Field
    <3>6. PICK desc, value : desc = <<t[2]>> /\ value = <<x>>
      OBVIOUS
    <3>7. Len(desc) = 1 /\ Len(value) = 1 /\ desc[1] = t[2] /\ value[1] = x
      BY <3>6
    <3> HIDE DEF is
    <3> QED BY <2>1, <3>1, <3>2, <3>3, <3>4, <3>5, <3>6, <3>7
  <2>3. CASE ~is_device_property_supported(p)
    <3>1. build_DevicePropValue_dataset(p) = <<>>
      BY <1>7, <2>3 DEF build_DevicePropValue_dataset
    <3>2. build_device_properties_dataset(p) = <<>>
      BY <1>3, <2>3
    <3>3. p \notin ToSet(build_deviceinfo_dataset)
      BY <2>3, DeviceInfoIs
    <3> QED BY <3>1, <3>2, <3>3
  <2> QED BY <2>2, <2>3
<1>8. CASE p = "DEVICE_FRIENDLY_NAME"
  <2>1. is = {3} /\ t[3].type = "STR"
    BY <1>1, <1>8, DeviceRows
  <2>2. CASE is_device_property_supported(p)
    <3>1. build_DevicePropValue_dataset(p) = <<Field(p, "STR", "string")>>
      BY <1>8, <2>2 DEF build_DevicePropValue_dataset
    <3>2. build_device_properties_dataset(p) = <<t[3]>>
      BY <1>3, <1>5, <2>1, <2>2
    <3>3. p \in ToSet(build_deviceinfo_dataset)
      BY <1>8, <2>2, DeviceInfoIs DEF DeviceListed
    <3>4. PICK x : x = Field(p, "STR", "string")
      OBVIOUS
    <3>5. x.type = "STR"
      BY <3>4 DEF Field
    <3>6. PICK desc, value : desc = <<t[3]>> /\ value = <<x>>
      OBVIOUS
    <3>7. Len(desc) = 1 /\ Len(value) = 1 /\ desc[1] = t[3] /\ value[1] = x
      BY <3>6
    <3> HIDE DEF is
    <3> QED BY <2>1, <3>1, <3>2, <3>3, <3>4, <3>5, <3>6, <3>7
  <2>3. CASE ~is_device_property_supported(p)
    BY <1>8, <2>3 DEF is_device_property_supported
  <2> QED BY <2>2, <2>3
<1>9. CASE p = "PERCEIVED_DEVICE_TYPE"
  <2>1. is = {4} /\ t[4].type = "UINT32"
    BY <1>1, <1>9, DeviceRows
  <2>2. CASE is_device_property_supported(p)
    <3>1. build_DevicePropValue_dataset(p) = <<Field(p, "UINT32", "type")>>
      BY <1>9, <2>2 DEF build_DevicePropValue_dataset
    <3>2. build_device_properties_dataset(p) = <<t[4]>>
      BY <1>3, <1>5, <2>1, <2>2
    <3>3. p \in ToSet(build_deviceinfo_dataset)
      BY <1>9, <2>2, DeviceInfoIs DEF DeviceListed
    <3>4. PICK x : x = Field(p, "UINT32", "type")
      OBVIOUS
    <3>5. x.type = "UINT32"
      BY <3>4 DEF Field
    <3>6. PICK desc, value : desc = <<t[4]>> /\ value = <<x>>
      OBVIOUS
    <3>7. Len(desc) = 1 /\ Len(value) = 1 /\ desc[1] = t[4] /\ value[1] = x
      BY <3>6
    <3> HIDE DEF is
    <3> QED BY <2>1, <3>1, <3>2, <3>3, <3>4, <3>5, <3>6, <3>7
  <2>3. CASE ~is_device_property_supported(p)
    <3>1. build_DevicePropValue_dataset(p) = <<>>
      BY <1>9, <2>3 DEF build_DevicePropValue_dataset
    <3>2. build_device_properties_dataset(p) = <<>>
      BY <1>3, <2>3
    <3>3. p \notin ToSet(build_deviceinfo_dataset)
      BY <2>3, DeviceInfoIs
    <3> QED BY <3>1, <3>2, <3>3
  <2> QED BY <2>2, <2>3
<1>10. CASE p = "IMAGE_SIZE"
  <2>1. is = {}
    BY <1>1, <1>10, DeviceRows
  <2>2. build_device_properties_dataset(p) = <<>>
    BY <1>3, <2>1 DEF First
  <2>3. build_DevicePropValue_dataset(p) = <<>>
    BY <1>10 DEF build_DevicePropValue_dataset
  <2>4. p \notin ToSet(build_deviceinfo_dataset)
    BY <1>10, DeviceInfoIs DEF DeviceListed
  <2> QED BY <2>2, <2>3, <2>4
<1> QED BY <1>2, <1>6, <1>7, <1>8, <1>9, <1>10 DEF DeviceListed

\* The places that know the properties agree on every one they list, whatever
\* entries there are (the tables of mtp_properties.c, the cases of
\* build_ObjectPropValue_dataset and objectproplist_element's callers).
THEOREM AnswersAgreeCorrect == Spec => []AnswersAgree
<1>1. AnswersAgree
  <2>1. ASSUME NEW h \in DOMAIN entry, NEW f, f = FormatOf(entry[h]),
               NEW list, list = build_objectproplist_dataset(h, entry[h].size, "all")
        PROVE  /\ Len(list) = Len(fmt_properties(f))
               /\ \A p \in ToSet(fmt_properties(f)) :
                    LET desc  == build_properties_dataset(p, f)
                        value == build_ObjectPropValue_dataset(h, p)
                    IN /\ desc # <<>> /\ Len(value) = 1
                       /\ value[1].type = desc[1].type
                       /\ desc[1].set <=> Settable(p)
                       /\ \E i \in DOMAIN list :
                            /\ list[i].prop = p /\ list[i].type = desc[1].type
                            /\ p \notin {"DATE_CREATED", "DATE_MODIFIED", "PERSISTENT_UID"}
                                 => list[i].value = value[1].value
    <3>1. f \in {"UNDEFINED", "ASSOCIATION"}
      BY <2>1 DEF FormatOf
    <3>2. Len(fmt_properties(f)) = 11 /\ ToSet(fmt_properties(f)) = Listed
      BY <3>1, FormatsList
    <3>3. Len(list) = 11
      BY <2>1, ListIs
    <3>4. \A p \in Listed :
            LET desc  == build_properties_dataset(p, f)
                value == build_ObjectPropValue_dataset(h, p)
            IN /\ desc # <<>> /\ Len(value) = 1
               /\ value[1].type = desc[1].type
               /\ desc[1].set <=> Settable(p)
               /\ \E i \in DOMAIN list :
                    /\ list[i].prop = p /\ list[i].type = desc[1].type
                    /\ p \notin {"DATE_CREATED", "DATE_MODIFIED", "PERSISTENT_UID"}
                         => list[i].value = value[1].value
      <4> TAKE p \in Listed
      <4> QED BY <2>1, ObjectAgrees
    <3> QED BY <3>2, <3>3, <3>4
  <2> QED BY <2>1, DeviceAgrees DEF AnswersAgree
<1> QED BY <1>1, PTL

-----------------------------------------------------------------------------
(* Names: a unit and its bytes.                                              *)

\* The bytes of a name; the 0 that ends it is none of them.
Byte == 1..255

\* A bounded set of naturals has a greatest element.
LEMMA GreatestNatural ==
  ASSUME NEW n \in Nat, NEW S, S \subseteq 0..n, S # {}
  PROVE  Max(S) \in S /\ \A y \in S : y <= Max(S)
<1> DEFINE T == {n - x : x \in S}
<1>1. T \subseteq Nat /\ T # {}
  <2>1. \A x \in S : n - x \in Nat
    OBVIOUS
  <2> QED BY <2>1
<1>2. PICK t \in T : \A y \in T : t <= y
  <2> HIDE DEF T
  <2> QED BY <1>1, LeastNatural
<1>3. PICK x \in S : t = n - x
  OBVIOUS
<1>4. \A y \in S : y <= x
  <2> TAKE y \in S
  <2>1. n - y \in T
    OBVIOUS
  <2>2. t <= n - y
    BY <1>2, <2>1
  <2> QED BY <1>3, <2>2
<1> QED BY <1>4 DEF Max

\* The bytes of a unit.
LEMMA UnitIs ==
  ASSUME NEW u \in Unit
  PROVE  u \in Nat /\ 1 <= u /\ u <= 65535
BY DEF Unit

\* One byte.
LEMMA EncodeOne ==
  ASSUME NEW u \in Unit, u < 128
  PROVE  utf8_encode(u) = <<u>> /\ u \in 1..127
<1>1. utf8_encode(u) = <<u>>
  BY DEF utf8_encode
<1> QED BY <1>1, UnitIs

\* Two bytes.
LEMMA EncodeTwo ==
  ASSUME NEW u \in Unit, ~(u < 128), u < 2048
  PROVE  /\ utf8_encode(u) = <<192 + (u \div 64), 128 + (u % 64)>>
         /\ 192 + (u \div 64) \in 194..223 /\ 128 + (u % 64) \in 128..191
<1>1. utf8_encode(u) = <<192 + (u \div 64), 128 + (u % 64)>>
  BY DEF utf8_encode
<1>2. 192 + (u \div 64) \in 194..223 /\ 128 + (u % 64) \in 128..191
  BY UnitIs
<1> QED BY <1>1, <1>2

\* Three bytes.
LEMMA EncodeThree ==
  ASSUME NEW u \in Unit, ~(u < 128), ~(u < 2048)
  PROVE  /\ utf8_encode(u) = <<224 + (u \div 4096), 128 + ((u \div 64) % 64), 128 + (u % 64)>>
         /\ 224 + (u \div 4096) \in 224..239 /\ 128 + ((u \div 64) % 64) \in 128..191
         /\ 128 + (u % 64) \in 128..191
<1>1. utf8_encode(u) = <<224 + (u \div 4096), 128 + ((u \div 64) % 64), 128 + (u % 64)>>
  BY DEF utf8_encode
<1>2. /\ 224 + (u \div 4096) \in 224..239 /\ 128 + ((u \div 64) % 64) \in 128..191
      /\ 128 + (u % 64) \in 128..191
  BY UnitIs
<1> QED BY <1>1, <1>2

\* A unit has up to three bytes, those of a unit above 127 are above 127.
LEMMA EncodeTyped ==
  ASSUME NEW u \in Unit
  PROVE  /\ utf8_encode(u) \in Seq(Byte) /\ Len(utf8_encode(u)) \in 1..3
         /\ ~(u < 128) => \A j \in 1..Len(utf8_encode(u)) : ~(utf8_encode(u)[j] < 128)
<1>1. PICK s : s = utf8_encode(u)
  OBVIOUS
<1>2. CASE u < 128
  <2>1. s = <<u>> /\ u \in Byte
    BY <1>1, <1>2, EncodeOne DEF Byte
  <2> QED BY <1>1, <1>2, <2>1
<1>3. CASE ~(u < 128) /\ u < 2048
  <2>1. PICK a, b : s = <<a, b>> /\ a \in 194..223 /\ b \in 128..191
    BY <1>1, <1>3, EncodeTwo
  <2>2. a \in Byte /\ b \in Byte /\ ~(a < 128) /\ ~(b < 128)
    BY <2>1 DEF Byte
  <2>3. s \in Seq(Byte) /\ Len(s) = 2 /\ \A j \in 1..Len(s) : ~(s[j] < 128)
    BY ONLY <2>1, <2>2
  <2> QED BY <1>1, <2>3
<1>4. CASE ~(u < 128) /\ ~(u < 2048)
  <2>1. PICK a, b, c : s = <<a, b, c>> /\ a \in 224..239 /\ b \in 128..191 /\ c \in 128..191
    BY <1>1, <1>4, EncodeThree
  <2>2. a \in Byte /\ b \in Byte /\ c \in Byte /\ ~(a < 128) /\ ~(b < 128) /\ ~(c < 128)
    BY <2>1 DEF Byte
  <2>3. s \in Seq(Byte) /\ Len(s) = 3 /\ \A j \in 1..Len(s) : ~(s[j] < 128)
    BY ONLY <2>1, <2>2
  <2> QED BY <1>1, <2>3
<1> QED BY <1>2, <1>3, <1>4

-----------------------------------------------------------------------------
(* Names: the bytes of a whole name.                                         *)

\* The lists put together from the first of n lists, the first two, and so on.
Flat(n, e, f) ==
  /\ f \in [1..n -> Seq(Byte)]
  /\ \A i \in 1..n : f[i] = IF i = 1 THEN e[1] ELSE f[i - 1] \o e[i]

\* There are such lists: an induction over their number.
LEMMA FlatExists ==
  ASSUME NEW n \in Nat, NEW e \in [1..n -> Seq(Byte)]
  PROVE  \E f : Flat(n, e, f)
<1> DEFINE Bad == {m \in 0..n : ~ \E f : Flat(m, e, f)}
<1>1. ASSUME Bad # {} PROVE FALSE
  <2>1. PICK m \in Bad : \A k \in Bad : m <= k
    <3>1. Bad \subseteq Nat
      OBVIOUS
    <3> HIDE DEF Bad
    <3> QED BY <1>1, <3>1, LeastNatural
  <2>2. m \in 0..n /\ ~ \E f : Flat(m, e, f)
    OBVIOUS
  <2>3. CASE m = 0
    <3>1. Flat(0, e, [i \in 1..0 |-> e[1]])
      BY DEF Flat
    <3> QED BY <2>2, <2>3, <3>1
  <2>4. CASE m # 0
    <3>1. m - 1 \in 0..n /\ ~(m <= m - 1)
      BY <2>2, <2>4
    <3>2. m - 1 \notin Bad
      <4> HIDE DEF Bad
      <4> QED BY <2>1, <3>1
    <3>3. PICK f : Flat(m - 1, e, f)
      BY <3>1, <3>2
    <3> DEFINE last == IF m = 1 THEN e[1] ELSE f[m - 1] \o e[m]
               g == [i \in 1..m |-> IF i = m THEN last ELSE f[i]]
    <3>4. m \in 1..n /\ 1 \in 1..n /\ (m # 1 => m - 1 \in 1..m - 1)
      BY <2>2, <2>4
    <3>5. last \in Seq(Byte)
      <4>1. e[1] \in Seq(Byte) /\ e[m] \in Seq(Byte)
        BY <3>4
      <4>2. m # 1 => f[m - 1] \in Seq(Byte)
        BY <3>3, <3>4 DEF Flat
      <4> QED BY <4>1, <4>2, ConcatProperties
    <3>6. \A i \in 1..m : i # m => i \in 1..m - 1
      BY <2>2, <2>4
    <3>7. g \in [1..m -> Seq(Byte)]
      <4> HIDE DEF last
      <4> QED BY <3>3, <3>5, <3>6 DEF Flat
    <3>8. ASSUME NEW i \in 1..m PROVE g[i] = IF i = 1 THEN e[1] ELSE g[i - 1] \o e[i]
      <4>1. CASE i = m
        <5>1. m # 1 => g[m - 1] = f[m - 1]
          BY <3>4
        <5>2. g[m] = last
          BY <3>4
        <5> HIDE DEF g
        <5> QED BY <4>1, <5>1, <5>2
      <4>2. CASE i # m
        <5>1. g[i] = f[i]
          BY <4>2
        <5>2. i # 1 => i - 1 \in 1..m /\ i - 1 # m
          BY <2>2
        <5>3. i # 1 => g[i - 1] = f[i - 1]
          BY <5>2
        <5>4. f[i] = IF i = 1 THEN e[1] ELSE f[i - 1] \o e[i]
          BY <3>3, <3>6, <4>2 DEF Flat
        <5> HIDE DEF g
        <5> QED BY <5>1, <5>3, <5>4
      <4> QED BY <4>1, <4>2
    <3>9. Flat(m, e, g)
      <4> HIDE DEF g
      <4> QED BY <3>7, <3>8 DEF Flat
    <3> QED BY <2>2, <3>9
  <2> QED BY <2>3, <2>4
<1>2. n \notin Bad
  BY <1>1
<1> QED BY <1>2

\* FlattenSeq goes over them.
LEMMA FlattenIs ==
  ASSUME NEW n \in Nat, n # 0, NEW e \in [1..n -> Seq(Byte)]
  PROVE  \E f : Flat(n, e, f) /\ FlattenSeq(e) = f[n]
<1> DEFINE Def(f) == f = [i \in 1..Len(e) |-> IF i = 1 THEN e[i] ELSE f[i - 1] \o e[i]]
           F == CHOOSE f : Def(f)
<1>1. Len(e) = n
  OBVIOUS
<1>2. FlattenSeq(e) = F[n]
  BY <1>1 DEF FlattenSeq
<1>3. PICK f : Flat(n, e, f)
  BY FlatExists
<1>4. Def(f)
  BY <1>1, <1>3 DEF Flat
<1>5. Def(F)
  BY <1>4
<1>6. \A i \in 1..n : F[i] = IF i = 1 THEN e[1] ELSE F[i - 1] \o e[i]
  BY <1>1, <1>5
<1>7. F = [i \in 1..n |-> F[i]]
  BY <1>1, <1>5
<1> HIDE DEF F
<1>8. F \in [1..n -> Seq(Byte)]
  <2> DEFINE Bad == {i \in 1..n : F[i] \notin Seq(Byte)}
  <2>1. ASSUME Bad # {} PROVE FALSE
    <3>1. PICK m \in Bad : \A k \in Bad : m <= k
      <4>1. Bad \subseteq Nat
        OBVIOUS
      <4> HIDE DEF Bad
      <4> QED BY <2>1, <4>1, LeastNatural
    <3>2. m \in 1..n /\ F[m] \notin Seq(Byte)
      OBVIOUS
    <3>3. m # 1 => m - 1 \in 1..n /\ ~(m <= m - 1)
      BY <3>2
    <3>4. m # 1 => F[m - 1] \in Seq(Byte)
      BY <3>1, <3>3
    <3>5. e[1] \in Seq(Byte) /\ e[m] \in Seq(Byte)
      BY <3>2
    <3>6. F[m] \in Seq(Byte)
      BY <1>6, <3>2, <3>4, <3>5, ConcatProperties
    <3> QED BY <3>2, <3>6
  <2>2. \A i \in 1..n : F[i] \in Seq(Byte)
    BY <2>1
  <2> QED BY <1>7, <2>2
<1>9. Flat(n, e, F)
  BY <1>6, <1>8 DEF Flat
<1> QED BY <1>2, <1>9

\* Two lists, element by element.
LEMMA ConcatIs ==
  ASSUME NEW S, NEW s \in Seq(S), NEW t \in Seq(S), NEW r, r = s \o t
  PROVE  /\ r \in Seq(S) /\ Len(s) \in Nat /\ Len(t) \in Nat /\ Len(r) = Len(s) + Len(t)
         /\ \A i \in 1..Len(s) : r[i] = s[i]
         /\ \A i \in 1..Len(t) : r[Len(s) + i] = t[i]
<1>1. PICK l, m \in Nat : l = Len(s) /\ m = Len(t)
  OBVIOUS
<1>2. /\ r \in Seq(S) /\ Len(r) = l + m
      /\ \A i \in 1..l + m : r[i] = IF i <= l THEN s[i] ELSE t[i - l]
  BY <1>1, ConcatProperties
<1>3. \A i \in 1..l : r[i] = s[i]
  <2>1. \A i \in 1..l : i \in 1..l + m /\ i <= l
    OBVIOUS
  <2> QED BY ONLY <1>2, <2>1
<1>4. \A i \in 1..m : r[l + i] = t[i]
  <2>1. \A i \in 1..m : l + i \in 1..l + m /\ ~(l + i <= l) /\ (l + i) - l = i
    OBVIOUS
  <2> QED BY ONLY <1>2, <2>1
<1> QED BY ONLY <1>1, <1>2, <1>3, <1>4

\* The lists of Flat with the empty one in front.
Runs(n, e, g) ==
  /\ g \in [0..n -> Seq(Byte)] /\ g[0] = <<>>
  /\ \A i \in 1..n : g[i] = g[i - 1] \o e[i]

\* What FlattenSeq gives is the last.
LEMMA FlattenRuns ==
  ASSUME NEW n \in Nat, NEW e \in [1..n -> Seq(Byte)]
  PROVE  \E g : Runs(n, e, g) /\ FlattenSeq(e) = g[n]
<1>1. CASE n = 0
  <2>1. e = <<>> /\ Len(e) = 0
    BY <1>1
  <2>2. FlattenSeq(e) = <<>>
    BY <2>1 DEF FlattenSeq
  <2>3. PICK g : g = [i \in 0..0 |-> <<>>]
    OBVIOUS
  <2>4. g \in [0..0 -> Seq(Byte)] /\ g[0] = <<>>
    BY <2>3
  <2>5. 1..0 = {}
    OBVIOUS
  <2> QED BY <1>1, <2>2, <2>4, <2>5 DEF Runs
<1>2. CASE n # 0
  <2>1. PICK f : Flat(n, e, f) /\ FlattenSeq(e) = f[n]
    BY <1>2, FlattenIs
  <2>2. PICK g : g = [i \in 0..n |-> IF i = 0 THEN <<>> ELSE f[i]]
    OBVIOUS
  <2>3. \A i \in 1..n : f[i] \in Seq(Byte) /\ e[i] \in Seq(Byte)
    BY <2>1 DEF Flat
  <2>4. g[0] = <<>> /\ \A i \in 1..n : g[i] = f[i]
    BY <2>2
  <2>5. g \in [0..n -> Seq(Byte)]
    <3>1. \A i \in 0..n : (IF i = 0 THEN <<>> ELSE f[i]) \in Seq(Byte)
      BY <2>3
    <3> QED BY <2>2, <3>1
  <2>6. ASSUME NEW i \in 1..n PROVE g[i] = g[i - 1] \o e[i]
    <3>1. CASE i = 1
      <4>1. g[i - 1] = <<>> /\ g[i] = e[i]
        <5>1. i - 1 = 0 /\ f[i] = e[i]
          BY <2>1, <3>1 DEF Flat
        <5> QED BY <2>4, <5>1
      <4>2. <<>> \o e[i] = e[i]
        BY <2>3, ConcatEmptySeq
      <4> QED BY <4>1, <4>2
    <3>2. CASE i # 1
      <4>1. i - 1 \in 1..n
        BY <3>2
      <4>2. f[i] = f[i - 1] \o e[i]
        BY <2>1, <3>2 DEF Flat
      <4> QED BY <2>4, <4>1, <4>2
    <3> QED BY <3>1, <3>2
  <2>7. n \in 1..n
    BY <1>2
  <2> QED BY <2>1, <2>4, <2>5, <2>6, <2>7 DEF Runs
<1> QED BY <1>1, <1>2

\* The lists put together begin with those before.
LEMMA RunsGrow ==
  ASSUME NEW n \in Nat, NEW e \in [1..n -> Seq(Byte)], NEW g, Runs(n, e, g)
  PROVE  \A k \in 0..n : \A m \in k..n :
           Len(g[k]) <= Len(g[m]) /\ \A i \in 1..Len(g[k]) : g[m][i] = g[k][i]
<1> TAKE k \in 0..n
<1> TAKE m \in k..n
<1> DEFINE Good(l) == Len(g[k]) <= Len(g[l]) /\ \A i \in 1..Len(g[k]) : g[l][i] = g[k][i]
           Bad == {l \in k..n : ~Good(l)}
<1>1. \A l \in 0..n : g[l] \in Seq(Byte) /\ Len(g[l]) \in Nat
  BY DEF Runs
<1>2. ASSUME Bad # {} PROVE FALSE
  <2>1. PICK l \in Bad : \A j \in Bad : l <= j
    <3>1. Bad \subseteq Nat
      OBVIOUS
    <3> HIDE DEF Bad
    <3> QED BY <1>2, <3>1, LeastNatural
  <2>2. l \in k..n /\ ~Good(l)
    OBVIOUS
  <2>3. l # k
    BY <1>1, <2>2
  <2>4. l - 1 \in k..n /\ ~(l <= l - 1) /\ l \in 1..n /\ l \in 0..n /\ l - 1 \in 0..n
    BY <2>2, <2>3
  <2>5. Good(l - 1)
    BY <2>1, <2>4
  <2>6. /\ Len(g[l]) = Len(g[l - 1]) + Len(e[l]) /\ Len(e[l]) \in Nat
        /\ \A i \in 1..Len(g[l - 1]) : g[l][i] = g[l - 1][i]
    <3>1. PICK a, b, c : a = g[l - 1] /\ b = e[l] /\ c = g[l]
      OBVIOUS
    <3>2. a \in Seq(Byte) /\ b \in Seq(Byte) /\ c = a \o b
      BY <2>4, <3>1 DEF Runs
    <3>3. Len(c) = Len(a) + Len(b) /\ Len(b) \in Nat /\ \A i \in 1..Len(a) : c[i] = a[i]
      BY ONLY <3>2, ConcatIs
    <3> QED BY ONLY <3>1, <3>3
  <2>7. PICK x, y, z, w : x = Len(g[l - 1]) /\ y = Len(e[l]) /\ z = Len(g[l]) /\ w = Len(g[k])
    OBVIOUS
  <2> x \in Nat /\ y \in Nat /\ z \in Nat /\ w \in Nat
    BY <1>1, <2>4, <2>6, <2>7
  <2>8. Good(l)
    <3>1. w <= x /\ \A i \in 1..w : g[l - 1][i] = g[k][i]
      BY <2>5, <2>7
    <3>2. z = x + y /\ \A i \in 1..x : g[l][i] = g[l - 1][i]
      BY <2>6, <2>7
    <3>3. w <= z /\ \A i \in 1..w : g[l][i] = g[k][i]
      BY ONLY <3>1, <3>2, x \in Nat, y \in Nat, z \in Nat, w \in Nat
    <3> QED BY <2>7, <3>3
  <2> QED BY <2>2, <2>8
<1> QED BY <1>2

\* Where the bytes of each unit of v are in s: those of unit k are behind off[k - 1].
Laid(v, s, off) ==
  /\ v \in Seq(Unit) /\ s \in Seq(Byte)
  /\ off \in [0..Len(v) -> Nat] /\ off[0] = 0 /\ off[Len(v)] = Len(s)
  /\ \A k \in 1..Len(v) : off[k] = off[k - 1] + Len(utf8_encode(v[k]))
  /\ \A k \in 1..Len(v) : \A j \in 1..Len(utf8_encode(v[k])) :
       s[off[k - 1] + j] = utf8_encode(v[k])[j]

\* The bytes of a name are laid out unit by unit.
LEMMA EncodedLaid ==
  ASSUME NEW v \in Seq(Unit)
  PROVE  Encoded(v) \in Seq(Byte) /\ \E off : Laid(v, Encoded(v), off)
<1>1. PICK n \in Nat : n = Len(v)
  OBVIOUS
<1>2. PICK e : e = [i \in DOMAIN v |-> utf8_encode(v[i])]
  OBVIOUS
<1>3. PICK s : s = Encoded(v)
  OBVIOUS
<1>4. e \in [1..n -> Seq(Byte)] /\ \A k \in 1..n : e[k] = utf8_encode(v[k])
  BY <1>1, <1>2, EncodeTyped
<1>5. PICK g : Runs(n, e, g) /\ s = g[n]
  BY <1>2, <1>3, <1>4, FlattenRuns DEF Encoded
<1>6. PICK off : off = [k \in 0..n |-> Len(g[k])]
  OBVIOUS
<1>7. \A k \in 0..n : g[k] \in Seq(Byte) /\ Len(g[k]) \in Nat
  BY <1>5 DEF Runs
<1>8. off \in [0..n -> Nat] /\ off[0] = 0 /\ off[n] = Len(s)
  <2>1. 0 \in 0..n /\ n \in 0..n
    OBVIOUS
  <2>2. Len(g[0]) = 0
    BY <1>5 DEF Runs
  <2> QED BY <1>5, <1>6, <1>7, <2>1, <2>2
<1>9. ASSUME NEW k \in 1..n
      PROVE  /\ off[k] = off[k - 1] + Len(e[k])
             /\ \A j \in 1..Len(e[k]) : s[off[k - 1] + j] = e[k][j]
  <2>1. k \in 0..n /\ k - 1 \in 0..n /\ n \in k..n
    OBVIOUS
  <2>2. off[k] = Len(g[k]) /\ off[k - 1] = Len(g[k - 1])
    BY ONLY <1>6, <2>1
  <2>3. /\ Len(g[k]) = Len(g[k - 1]) + Len(e[k])
        /\ \A j \in 1..Len(e[k]) : g[k][Len(g[k - 1]) + j] = e[k][j]
    <3>1. PICK a, b, c : a = g[k - 1] /\ b = e[k] /\ c = g[k]
      OBVIOUS
    <3>2. a \in Seq(Byte) /\ b \in Seq(Byte) /\ c = a \o b
      BY <1>4, <1>5, <1>7, <2>1, <3>1 DEF Runs
    <3>3. Len(c) = Len(a) + Len(b) /\ \A j \in 1..Len(b) : c[Len(a) + j] = b[j]
      BY ONLY <3>2, ConcatIs
    <3> QED BY ONLY <3>1, <3>3
  <2>4. \A i \in 1..Len(g[k]) : s[i] = g[k][i]
    BY ONLY <1>4, <1>5, <2>1, n \in Nat, RunsGrow
  <2>5. PICK x, y, z : x = Len(g[k - 1]) /\ y = Len(e[k]) /\ z = Len(g[k])
    OBVIOUS
  <2> x \in Nat /\ y \in Nat /\ z \in Nat
    <3>1. e[k] \in Seq(Byte)
      BY <1>4
    <3> QED BY <1>7, <2>1, <2>5, <3>1
  <2>6. \A j \in 1..y : s[x + j] = e[k][j]
    <3>1. z = x + y
      BY <2>3, <2>5
    <3>2. \A j \in 1..y : x + j \in 1..z
      BY ONLY <3>1, x \in Nat, y \in Nat, z \in Nat
    <3>3. \A j \in 1..y : g[k][x + j] = e[k][j]
      BY ONLY <2>3, <2>5
    <3>4. \A i \in 1..z : s[i] = g[k][i]
      BY ONLY <2>4, <2>5
    <3> QED BY ONLY <3>2, <3>3, <3>4
  <2> QED BY ONLY <2>2, <2>3, <2>5, <2>6
<1>10. s \in Seq(Byte)
  <2>1. n \in 0..n
    OBVIOUS
  <2> QED BY <1>5, <1>7, <2>1
<1>11. Laid(v, s, off)
  <2>1. \A k \in 1..n : off[k] = off[k - 1] + Len(utf8_encode(v[k]))
    BY ONLY <1>4, <1>9
  <2>2. \A k \in 1..n : \A j \in 1..Len(utf8_encode(v[k])) : s[off[k - 1] + j] = utf8_encode(v[k])[j]
    <3> TAKE k \in 1..n
    <3>1. e[k] = utf8_encode(v[k])
      BY <1>4
    <3>2. \A j \in 1..Len(e[k]) : s[off[k - 1] + j] = e[k][j]
      BY ONLY <1>9, k \in 1..n
    <3> QED BY ONLY <3>1, <3>2
  <2>3. v \in Seq(Unit)
    OBVIOUS
  <2> QED BY ONLY <1>1, <1>8, <1>10, <2>1, <2>2, <2>3 DEF Laid
<1> QED BY <1>3, <1>10, <1>11

\* The places are numbers, each unit has one to three bytes more.
LEMMA PlacesUp ==
  ASSUME NEW v, NEW s, NEW off, Laid(v, s, off)
  PROVE  /\ Len(v) \in Nat /\ Len(s) \in Nat /\ \A k \in 0..Len(v) : off[k] \in Nat
         /\ \A k \in 1..Len(v) : /\ v[k] \in Unit /\ off[k - 1] \in Nat /\ off[k] \in Nat
                                 /\ off[k] = off[k - 1] + Len(utf8_encode(v[k]))
                                 /\ Len(utf8_encode(v[k])) \in 1..3
                                 /\ off[k - 1] < off[k]
<1>1. v \in Seq(Unit) /\ s \in Seq(Byte) /\ off \in [0..Len(v) -> Nat]
  BY DEF Laid
<1>2. Len(v) \in Nat /\ Len(s) \in Nat /\ \A k \in 0..Len(v) : off[k] \in Nat
  BY <1>1
<1>3. ASSUME NEW k \in 1..Len(v)
      PROVE  /\ v[k] \in Unit /\ off[k - 1] \in Nat /\ off[k] \in Nat
             /\ off[k] = off[k - 1] + Len(utf8_encode(v[k]))
             /\ Len(utf8_encode(v[k])) \in 1..3
             /\ off[k - 1] < off[k]
  <2>1. v[k] \in Unit /\ k \in 0..Len(v) /\ k - 1 \in 0..Len(v)
    BY <1>1, <1>2
  <2>2. Len(utf8_encode(v[k])) \in 1..3
    BY <2>1, EncodeTyped
  <2>3. off[k] = off[k - 1] + Len(utf8_encode(v[k]))
    BY DEF Laid
  <2>4. off[k - 1] \in Nat /\ off[k] \in Nat
    BY <1>2, <2>1
  <2>5. PICK a, b, l : a = off[k - 1] /\ b = off[k] /\ l = Len(utf8_encode(v[k]))
    OBVIOUS
  <2>6. a \in Nat /\ l \in 1..3 /\ b = a + l
    BY ONLY <2>2, <2>3, <2>4, <2>5
  <2>7. a < b
    BY ONLY <2>6
  <2> QED BY ONLY <2>1, <2>2, <2>3, <2>4, <2>5, <2>7
<1> QED BY <1>2, <1>3

\* The place behind a unit is not before the unit's number.
LEMMA PlacesFar ==
  ASSUME NEW v, NEW s, NEW off, Laid(v, s, off)
  PROVE  \A k \in 0..Len(v) : \A m \in k..Len(v) : off[k] + (m - k) <= off[m]
<1> TAKE k \in 0..Len(v)
<1> DEFINE Bad == {m \in k..Len(v) : ~(off[k] + (m - k) <= off[m])}
<1>1. PICK n \in Nat : n = Len(v)
  BY PlacesUp
<1>2. ASSUME Bad # {} PROVE FALSE
  <2>1. PICK m \in Bad : \A j \in Bad : m <= j
    <3>1. Bad \subseteq Nat
      BY <1>1
    <3> HIDE DEF Bad
    <3> QED BY <1>2, <3>1, LeastNatural
  <2>2. m \in k..n /\ ~(off[k] + (m - k) <= off[m])
    BY <1>1
  <2>3. off[k] \in Nat
    BY PlacesUp
  <2>4. m # k
    BY <1>1, <2>2, <2>3
  <2>5. m - 1 \in k..n /\ ~(m <= m - 1) /\ m \in 1..n
    BY <1>1, <2>2, <2>4
  <2>6. off[k] + ((m - 1) - k) <= off[m - 1]
    <3>1. m - 1 \notin Bad
      <4> HIDE DEF Bad
      <4> QED BY ONLY <2>1, <2>5
    <3> QED BY <1>1, <2>5, <3>1
  <2>7. off[m - 1] \in Nat /\ off[m] \in Nat /\ off[m - 1] < off[m]
    BY <1>1, <2>5, PlacesUp
  <2>8. k \in Nat /\ m \in Nat
    BY <1>1, <2>5
  <2> QED BY ONLY <2>2, <2>3, <2>6, <2>7, <2>8
<1> QED BY <1>2

\* The byte at x is one of the unit at k.
ByteOf(v, s, off, x, k) ==
  \E j \in 1..Len(utf8_encode(v[k])) : x = off[k - 1] + j /\ s[x] = utf8_encode(v[k])[j]

\* Every byte is one of a unit's.
LEMMA PlaceOf ==
  ASSUME NEW v, NEW s, NEW off, Laid(v, s, off)
  PROVE  \A x \in 1..Len(s) : \E k \in 1..Len(v) : ByteOf(v, s, off, x, k)
<1> SUFFICES \A i \in 1..Len(s) : \E k \in 1..Len(v) : \E j \in 1..Len(utf8_encode(v[k])) :
               i = off[k - 1] + j /\ s[i] = utf8_encode(v[k])[j]
  BY DEF ByteOf
<1> TAKE i \in 1..Len(s)
<1> DEFINE Up == {m \in 0..Len(v) : i <= off[m]}
<1>1. PICK n \in Nat : n = Len(v)
  BY PlacesUp
<1>2. off[0] = 0 /\ off[n] = Len(s) /\ Len(s) \in Nat
  BY <1>1, PlacesUp DEF Laid
<1>3. PICK k \in Up : \A m \in Up : k <= m
  <2>1. n \in Up
    BY <1>1, <1>2
  <2>2. Up \subseteq Nat
    BY <1>1
  <2> HIDE DEF Up
  <2> QED BY <2>1, <2>2, LeastNatural
<1>4. k \in 0..n /\ i <= off[k]
  BY <1>1
<1>5. k \in 1..n
  BY <1>2, <1>4
<1>6. k - 1 \in 0..n /\ ~(k <= k - 1)
  BY <1>5
<1>7. off[k - 1] \in Nat /\ off[k] \in Nat /\ off[k] = off[k - 1] + Len(utf8_encode(v[k]))
      /\ Len(utf8_encode(v[k])) \in 1..3
  BY <1>1, <1>5, PlacesUp
<1>8. ~(i <= off[k - 1])
  <2>1. k - 1 \notin Up
    <3> HIDE DEF Up
    <3> QED BY ONLY <1>3, <1>6
  <2> QED BY <1>1, <1>6, <2>1
<1>9. PICK j \in 1..Len(utf8_encode(v[k])) : i = off[k - 1] + j
  <2>1. i - off[k - 1] \in 1..Len(utf8_encode(v[k])) /\ i = off[k - 1] + (i - off[k - 1])
    BY <1>4, <1>7, <1>8
  <2> QED BY <2>1
<1>10. s[i] = utf8_encode(v[k])[j]
  BY <1>1, <1>5, <1>9 DEF Laid
<1> QED BY <1>1, <1>5, <1>9, <1>10

\* Two names with the same units are the same bytes.
LEMMA LaidUnique ==
  ASSUME NEW v, NEW s, NEW off, Laid(v, s, off), NEW t, NEW offt, Laid(v, t, offt)
  PROVE  s = t
<1>1. PICK n \in Nat : n = Len(v)
  BY PlacesUp
<1> DEFINE Bad == {k \in 0..n : off[k] # offt[k]}
<1>2. ASSUME Bad # {} PROVE FALSE
  <2>1. PICK k \in Bad : \A j \in Bad : k <= j
    <3>1. Bad \subseteq Nat
      OBVIOUS
    <3> HIDE DEF Bad
    <3> QED BY <1>2, <3>1, LeastNatural
  <2>2. k \in 0..n /\ off[k] # offt[k]
    OBVIOUS
  <2>3. k # 0
    BY <2>2 DEF Laid
  <2>4. k \in 1..n /\ k - 1 \in 0..n /\ ~(k <= k - 1)
    BY <2>2, <2>3
  <2>5. off[k - 1] = offt[k - 1]
    <3>1. k - 1 \notin Bad
      <4> HIDE DEF Bad
      <4> QED BY ONLY <2>1, <2>4
    <3> QED BY <2>4, <3>1
  <2>6. off[k] = off[k - 1] + Len(utf8_encode(v[k]))
        /\ offt[k] = offt[k - 1] + Len(utf8_encode(v[k]))
    BY <1>1, <2>4 DEF Laid
  <2> QED BY <2>2, <2>5, <2>6
<1>3. \A k \in 0..n : off[k] = offt[k]
  BY <1>2
<1>4. s \in Seq(Byte) /\ t \in Seq(Byte) /\ Len(s) = Len(t)
  BY <1>1, <1>3 DEF Laid
<1>5. ASSUME NEW i \in 1..Len(s) PROVE s[i] = t[i]
  <2>1. PICK k \in 1..n : ByteOf(v, s, off, i, k)
    <3>1. \A x \in 1..Len(s) : \E k \in 1..Len(v) : ByteOf(v, s, off, x, k)
      BY PlaceOf
    <3> QED BY ONLY <1>1, <3>1, i \in 1..Len(s)
  <2>2. PICK j \in 1..Len(utf8_encode(v[k])) : i = off[k - 1] + j /\ s[i] = utf8_encode(v[k])[j]
    BY <2>1 DEF ByteOf
  <2>3. k - 1 \in 0..n
    OBVIOUS
  <2>4. t[offt[k - 1] + j] = utf8_encode(v[k])[j]
    BY <1>1 DEF Laid
  <2> QED BY <1>3, <2>2, <2>3, <2>4
<1> QED BY <1>4, <1>5, SeqEqual

\* What is laid out like the bytes of a name is them.
LEMMA LaidIsEncoded ==
  ASSUME NEW v, NEW s, NEW off, Laid(v, s, off)
  PROVE  s = Encoded(v)
<1>1. v \in Seq(Unit)
  BY DEF Laid
<1> QED BY <1>1, EncodedLaid, LaidUnique

\* The units from i to j are a name, and their bytes those of that name.
Part(v, s, off, i, j) ==
  /\ SubSeq(v, i, j) \in Seq(Unit) /\ Len(SubSeq(v, i, j)) = j - i + 1
  /\ \A k \in 1..j - i + 1 : SubSeq(v, i, j)[k] = v[i + k - 1]
  /\ SubSeq(s, off[i - 1] + 1, off[j]) = Encoded(SubSeq(v, i, j))

\* Every part of a name is one.
LEMMA SubLaid ==
  ASSUME NEW v, NEW s, NEW off, Laid(v, s, off), NEW i \in 1..Len(v), NEW j \in i..Len(v)
  PROVE  Part(v, s, off, i, j)
<1>1. PICK n \in Nat : n = Len(v)
  BY PlacesUp
<1>2. PICK l \in Nat : l = Len(s)
  BY PlacesUp
<1>3. v \in Seq(Unit) /\ s \in Seq(Byte) /\ off[n] = l
  BY <1>1, <1>2 DEF Laid
<1>4. \A k \in 0..n : off[k] \in Nat /\ \A m \in k..n : off[k] + (m - k) <= off[m]
  BY <1>1, PlacesUp, PlacesFar
<1>5. PICK a : a = off[i - 1]
  OBVIOUS
<1>6. PICK b : b = off[j]
  OBVIOUS
<1>7. a \in Nat /\ b \in Nat /\ a + (j - (i - 1)) <= b /\ b + (n - j) <= l
  <2>1. i - 1 \in 0..n /\ j \in 0..n /\ j \in i - 1..n /\ n \in j..n
    BY <1>1
  <2> QED BY ONLY <1>3, <1>4, <1>5, <1>6, <2>1
<1>8. /\ a + 1 \in 1..l /\ b \in a + 1..l /\ b - a \in Nat /\ b - (a + 1) + 1 = b - a
      /\ i \in Nat /\ j \in Nat /\ n \in Nat /\ l \in Nat /\ 1 <= i /\ i <= j /\ j <= n
  BY <1>1, <1>7
<1>9. PICK u : u = SubSeq(v, i, j)
  OBVIOUS
<1>10. PICK t : t = SubSeq(s, a + 1, b)
  OBVIOUS
<1>11. PICK p \in Nat : p = j - i + 1
  BY <1>8
<1>12. /\ u \in Seq(Unit) /\ Len(u) = p /\ \A k \in 1..p : u[k] = v[i + k - 1]
  <2>1. i \in 1..Len(v) + 1 /\ j \in i - 1..Len(v)
    BY <1>1, <1>8
  <2>2. \A k \in 1..p : u[k] = v[i + k - 1]
    BY <1>3, <1>9, <1>11, <2>1, SubSeqProperties
  <2>3. u \in Seq(Unit) /\ Len(u) = p
    BY <1>3, <1>9, <1>11, <1>8, <2>1, SubSeqProperties
  <2> QED BY <2>2, <2>3
<1>13. t \in Seq(Byte) /\ Len(t) = b - a /\ \A x \in 1..b - a : t[x] = s[a + x]
  <2>1. a + 1 \in 1..Len(s) + 1 /\ b \in (a + 1) - 1..Len(s)
    BY <1>2, <1>8
  <2>2. t \in Seq(Byte) /\ Len(t) = b - (a + 1) + 1
    BY <1>3, <1>8, <1>10, <2>1, SubSeqProperties
  <2>3. \A x \in 1..b - (a + 1) + 1 : t[x] = s[(a + 1) + x - 1]
    <3>1. s \in Seq(Byte)
      BY <1>3
    <3>2. \A x \in 1..b - (a + 1) + 1 : SubSeq(s, a + 1, b)[x] = s[(a + 1) + x - 1]
      BY ONLY <2>1, <3>1, SubSeqProperties
    <3> QED BY ONLY <1>10, <3>2
  <2>4. \A x \in 1..b - a : (a + 1) + x - 1 = a + x
    BY <1>7
  <2> QED BY ONLY <1>8, <2>2, <2>3, <2>4
<1>14. PICK o : o = [k \in 0..p |-> off[i - 1 + k] - a]
  OBVIOUS
<1>15. \A k \in 0..p : i - 1 + k \in 0..n /\ i - 1 + k \in i - 1..n /\ i - 1 \in 0..n
  BY <1>8, <1>11
<1>16. \A k \in 0..p : off[i - 1 + k] \in Nat /\ a <= off[i - 1 + k]
  <2> TAKE k \in 0..p
  <2>1. PICK z, y : z = i - 1 + k /\ y = i - 1
    OBVIOUS
  <2>2. z \in 0..n /\ z \in y..n /\ y \in 0..n /\ a = off[y]
    BY ONLY <1>5, <1>15, <2>1, k \in 0..p
  <2>3. off[z] \in Nat /\ a + (z - y) <= off[z]
    BY ONLY <1>4, <2>2
  <2>4. PICK x : x = off[z]
    OBVIOUS
  <2>5. x \in Nat /\ a <= x
    <3>1. x \in Nat /\ a + (z - y) <= x
      BY ONLY <2>3, <2>4
    <3>2. z \in Nat /\ y \in Nat /\ y <= z
      BY ONLY <1>8, <2>2
    <3> QED BY ONLY <1>7, <3>1, <3>2
  <2> QED BY ONLY <2>1, <2>4, <2>5
<1>17. o \in [0..p -> Nat] /\ o[0] = 0 /\ o[p] = b - a
  <2>1. \A k \in 0..p : off[i - 1 + k] - a \in Nat
    <3> TAKE k \in 0..p
    <3>1. PICK x : x = off[i - 1 + k]
      OBVIOUS
    <3>2. x \in Nat /\ a <= x
      BY ONLY <1>16, <3>1, k \in 0..p
    <3>3. x - a \in Nat
      BY ONLY <1>7, <3>2
    <3> QED BY ONLY <3>1, <3>3
  <2>2. 0 \in 0..p /\ p \in 0..p /\ i - 1 + 0 = i - 1 /\ i - 1 + p = j
    BY <1>8, <1>11
  <2>3. o[0] = a - a /\ o[p] = b - a
    BY ONLY <1>5, <1>6, <1>14, <2>2
  <2>4. o \in [0..p -> Nat]
    BY ONLY <1>14, <2>1
  <2>5. a - a = 0
    BY ONLY <1>7
  <2> QED BY ONLY <2>3, <2>4, <2>5
<1>18. ASSUME NEW k \in 1..p
       PROVE  /\ o[k] = o[k - 1] + Len(utf8_encode(u[k]))
              /\ \A x \in 1..Len(utf8_encode(u[k])) : t[o[k - 1] + x] = utf8_encode(u[k])[x]
  <2>1. PICK m \in 1..n : m = i + k - 1
    BY <1>8, <1>11
  <2>2. PICK e : e = utf8_encode(u[k])
    OBVIOUS
  <2>3. e = utf8_encode(v[m]) /\ m - 1 = i - 1 + (k - 1) /\ m = i - 1 + k
        /\ k \in 0..p /\ k - 1 \in 0..p
    <3>1. u[k] = v[m]
      BY ONLY <1>12, <2>1, k \in 1..p
    <3> QED BY <1>8, <1>11, <2>1, <2>2, <3>1
  <2>4. o[k] = off[m] - a /\ o[k - 1] = off[m - 1] - a
    BY ONLY <1>14, <2>3
  <2>5. off[m] = off[m - 1] + Len(e) /\ Len(e) \in 1..3 /\ off[m] \in Nat /\ off[m - 1] \in Nat
    BY <1>1, <2>1, <2>3, PlacesUp
  <2>6. a <= off[m - 1] /\ off[m] <= b
    <3>1. a <= off[m - 1]
      BY ONLY <1>16, <2>3
    <3>2. m \in 0..n /\ j \in m..n
      BY <1>8, <1>11, <2>1
    <3>3. off[m] + (j - m) <= b
      BY ONLY <1>4, <1>6, <3>2
    <3>4. PICK y : y = off[m]
      OBVIOUS
    <3>5. y \in Nat /\ y + (j - m) <= b
      BY ONLY <2>5, <3>3, <3>4
    <3>6. y <= b
      BY ONLY <1>7, <1>8, <3>2, <3>5, m \in 1..n
    <3> QED BY ONLY <3>1, <3>4, <3>6
  <2>7. PICK x : x = off[m - 1]
    OBVIOUS
  <2>8. PICK q \in 1..3 : q = Len(e)
    BY <2>5
  <2>9. x \in Nat /\ off[m] = x + q /\ a <= x /\ x + q <= b
    BY ONLY <2>5, <2>6, <2>7, <2>8
  <2>10. \A y \in 1..q : s[x + y] = e[y]
    <3>1. \A y \in 1..Len(utf8_encode(v[m])) : s[off[m - 1] + y] = utf8_encode(v[m])[y]
      BY <1>1, <2>1 DEF Laid
    <3> QED BY ONLY <2>3, <2>7, <2>8, <3>1
  <2>11. \A y \in 1..q : (x - a) + y \in 1..b - a /\ a + ((x - a) + y) = x + y
    BY ONLY <1>7, <2>9, q \in 1..3
  <2>12. \A y \in 1..q : t[(x - a) + y] = e[y]
    BY ONLY <1>13, <2>10, <2>11
  <2>13. o[k] = o[k - 1] + q
    BY ONLY <1>7, <2>4, <2>7, <2>9, q \in 1..3
  <2> QED BY ONLY <2>2, <2>4, <2>7, <2>8, <2>12, <2>13
<1>19. Laid(u, t, o)
  <2>1. off \in [0..n -> Nat]
    BY <1>1 DEF Laid
  <2> QED BY ONLY <1>12, <1>13, <1>17, <1>18 DEF Laid
<1>20. t = Encoded(u)
  BY <1>19, LaidIsEncoded
<1> QED BY ONLY <1>5, <1>6, <1>9, <1>10, <1>11, <1>12, <1>20 DEF Part

\* A name that is sent is kept up to a unit, whole if it fits.
LEMMA Truncated ==
  ASSUME NEW w \in Seq(Unit)
  PROVE  /\ \E v \in Seq(Unit) : unicode2charstring(w) = Encoded(v) /\ Len(Encoded(v)) <= MaxBytes
         /\ Len(Encoded(w)) <= MaxBytes => unicode2charstring(w) = Encoded(w)
<1>1. PICK n \in Nat : n = Len(w)
  OBVIOUS
<1> DEFINE S == {k \in 0..n : Len(Encoded(SubSeq(w, 1, k))) <= MaxBytes}
<1>2. unicode2charstring(w) = Encoded(SubSeq(w, 1, Max(S)))
  BY <1>1 DEF unicode2charstring
<1>3. SubSeq(w, 1, n) = w /\ \A k \in 0..n : SubSeq(w, 1, k) \in Seq(Unit)
  BY <1>1
<1>4. SubSeq(w, 1, 0) = <<>>
  BY <1>1
<1>5. Encoded(<<>>) \in Seq(Byte) /\ Len(Encoded(<<>>)) = 0
  <2>1. <<>> \in Seq(Unit) /\ Len(<<>>) = 0
    OBVIOUS
  <2>2. PICK off : Laid(<<>>, Encoded(<<>>), off)
    BY <2>1, EncodedLaid
  <2>3. off[0] = 0 /\ off[0] = Len(Encoded(<<>>))
    BY <2>1, <2>2 DEF Laid
  <2> QED BY <2>1, <2>3, EncodedLaid
<1>6. 0 \in S
  <2>1. 0 \in 0..n /\ 0 <= MaxBytes
    BY NamesAssumption
  <2> QED BY <1>4, <1>5, <2>1
<1>7. Max(S) \in S /\ \A k \in S : k <= Max(S)
  <2>1. S \subseteq 0..n
    OBVIOUS
  <2> HIDE DEF S
  <2> QED BY <1>6, <2>1, GreatestNatural
<1>8. PICK m : m = Max(S)
  OBVIOUS
<1>9. m \in 0..n /\ Len(Encoded(SubSeq(w, 1, m))) <= MaxBytes
  <2>1. m \in S
    BY <1>7, <1>8
  <2> QED BY <2>1
<1>10. ASSUME Len(Encoded(w)) <= MaxBytes PROVE m = n
  <2>1. n \in S
    <3>1. n \in 0..n /\ Len(Encoded(SubSeq(w, 1, n))) <= MaxBytes
      <4>1. n \in 0..n
        OBVIOUS
      <4> QED BY ONLY <1>3, <1>10, <4>1
    <3> QED BY <3>1
  <2>2. n <= m
    <3> HIDE DEF S
    <3> QED BY <1>7, <1>8, <2>1
  <2> QED BY <1>9, <2>2
<1> QED BY ONLY <1>2, <1>3, <1>8, <1>9, <1>10

-----------------------------------------------------------------------------
(* Names: from bytes to units, what a host is told.                          *)

\* The value of the table that char2unicodestring fills from behind: the units
\* from place i on.
Table(L, unit, next, f) ==
  \A i \in 1..L + 1 : f[i] = IF unit[i] = 0 THEN <<>> ELSE <<unit[i]>> \o f[next[i]]

\* There is such a table, if each place leads to a later one.
LEMMA TableExists ==
  ASSUME NEW L \in Nat, NEW unit, NEW next,
         \A i \in 1..L + 1 : unit[i] # 0 => next[i] \in i + 1..L + 1
  PROVE  \E f : DOMAIN f = 1..L + 1 /\ Table(L, unit, next, f)
<1> DEFINE From(m, f) ==
             /\ DOMAIN f = m..L + 1
             /\ \A i \in m..L + 1 : f[i] = IF unit[i] = 0 THEN <<>> ELSE <<unit[i]>> \o f[next[i]]
           Bad == {x \in 0..L + 1 : ~ \E f : From(L + 2 - x, f)}
<1>1. ASSUME Bad # {} PROVE FALSE
  <2>1. PICK x \in Bad : \A y \in Bad : x <= y
    <3>1. Bad \subseteq Nat
      OBVIOUS
    <3> HIDE DEF Bad
    <3> QED BY <1>1, <3>1, LeastNatural
  <2>2. x \in 0..L + 1 /\ ~ \E f : From(L + 2 - x, f)
    OBVIOUS
  <2>3. PICK m : m = L + 2 - x
    OBVIOUS
  <2>4. CASE x = 0
    <3>1. m = L + 2 /\ m..L + 1 = {}
      BY <2>3, <2>4
    <3>2. From(m, [i \in m..L + 1 |-> <<>>])
      BY <3>1
    <3> QED BY <2>2, <2>3, <3>2
  <2>5. CASE x # 0
    <3>1. x - 1 \in 0..L + 1 /\ ~(x <= x - 1) /\ L + 2 - (x - 1) = m + 1 /\ m \in 1..L + 1
      BY <2>2, <2>3, <2>5
    <3>2. x - 1 \notin Bad
      <4> HIDE DEF Bad
      <4> QED BY <2>1, <3>1
    <3>3. PICK f : From(m + 1, f)
      <4>1. \E f : From(L + 2 - (x - 1), f)
        BY <3>1, <3>2
      <4> QED BY ONLY <3>1, <4>1
    <3>4. PICK a : a = IF unit[m] = 0 THEN <<>> ELSE <<unit[m]>> \o f[next[m]]
      OBVIOUS
    <3>5. PICK g : g = [i \in m..L + 1 |-> IF i = m THEN a ELSE f[i]]
      OBVIOUS
    <3>6. \A i \in m..L + 1 : i \in 1..L + 1 /\ (i # m => i \in m + 1..L + 1)
      BY <3>1
    <3>7. \A i \in m..L + 1 : unit[i] # 0 => next[i] \in m..L + 1 /\ next[i] # m
      <4> TAKE i \in m..L + 1
      <4>1. unit[i] # 0 => next[i] \in i + 1..L + 1
        BY <3>6
      <4> QED BY <3>1, <4>1
    <3>8. m \in m..L + 1
      BY <3>1
    <3>9. \A i \in m..L + 1 : unit[i] # 0 => g[next[i]] = f[next[i]]
      BY ONLY <3>5, <3>7
    <3>10. g[m] = a
      BY ONLY <3>5, <3>8
    <3>11. \A i \in m..L + 1 : g[i] = IF unit[i] = 0 THEN <<>> ELSE <<unit[i]>> \o g[next[i]]
      <4> TAKE i \in m..L + 1
      <4>1. CASE i = m
        BY ONLY <3>4, <3>8, <3>9, <3>10, <4>1
      <4>2. CASE i # m
        <5>1. g[i] = f[i]
          BY ONLY <3>5, <4>2, i \in m..L + 1
        <5>2. f[i] = IF unit[i] = 0 THEN <<>> ELSE <<unit[i]>> \o f[next[i]]
          BY <3>3, <3>6, <4>2
        <5> QED BY ONLY <3>9, <5>1, <5>2, i \in m..L + 1
      <4> QED BY <4>1, <4>2
    <3>12. From(m, g)
      BY <3>5, <3>11
    <3> QED BY <2>2, <2>3, <3>12
  <2> QED BY <2>4, <2>5
<1>2. L + 1 \in 0..L + 1 /\ L + 2 - (L + 1) = 1
  OBVIOUS
<1>3. \E f : From(L + 2 - (L + 1), f)
  BY <1>1, <1>2
<1>4. PICK f : From(1, f)
  BY ONLY <1>2, <1>3
<1> QED BY <1>4 DEF Table

\* Arithmetic of the bits of a byte.
LEMMA DivMod ==
  /\ \A r \in 0..63 : (128 + r) % 64 = r
  /\ \A r \in 0..31 : (192 + r) % 32 = r
  /\ \A r \in 0..15 : (224 + r) % 16 = r
  /\ \A u \in Nat : u = (u \div 64) * 64 + (u % 64) /\ u \div 64 \in Nat /\ u % 64 \in 0..63
  /\ \A u \in Nat : u \div 64 = (u \div 4096) * 64 + ((u \div 64) % 64)
<1>1. \A r \in 0..63 : (128 + r) % 64 = r
  OBVIOUS
<1>2. \A r \in 0..31 : (192 + r) % 32 = r
  OBVIOUS
<1>3. \A r \in 0..15 : (224 + r) % 16 = r
  OBVIOUS
<1>4. \A u \in Nat : u = (u \div 64) * 64 + (u % 64) /\ u \div 64 \in Nat /\ u % 64 \in 0..63
  OBVIOUS
<1>5. \A u \in Nat : u \div 64 = (u \div 4096) * 64 + ((u \div 64) % 64)
  OBVIOUS
<1> QED BY <1>1, <1>2, <1>3, <1>4, <1>5

\* The bytes at i are those of e.
Spells(s, i, e) == \A j \in 1..Len(e) : At(s, i + j - 1) = e[j]

\* The bytes of a unit give the unit back, surrogates too.
LEMMA DecodeUnit ==
  ASSUME NEW u \in Unit, NEW s, NEW i \in Nat, NEW e, e = utf8_encode(u), Spells(s, i, e)
  PROVE  utf2unicode(s, i) = [unit |-> u, ofs |-> Len(e)]
<1> USE DEF Spells
<1>1. PICK b1, b2, b3 : b1 = At(s, i) /\ b2 = At(s, i + 1) /\ b3 = At(s, i + 2)
  OBVIOUS
<1>2. u \in Nat /\ u <= 65535
  BY UnitIs
<1>3. CASE u < 128
  <2>1. e = <<u>>
    BY <1>3, EncodeOne
  <2>2. Len(e) = 1 /\ b1 = u
    <3>1. Len(e) = 1 /\ e[1] = u /\ i + 1 - 1 = i
      BY <2>1
    <3> QED BY <1>1, <3>1
  <2>3. b1 < 192 /\ ~(b1 \in 192..223) /\ ~(b1 \in 224..239)
    BY <1>2, <1>3, <2>2
  <2>4. utf2unicode(s, i) = [unit |-> b1, ofs |-> 1]
    BY ONLY <1>1, <2>3 DEF utf2unicode
  <2> QED BY <2>2, <2>4
<1>4. CASE ~(u < 128) /\ u < 2048
  <2>1. e = <<192 + (u \div 64), 128 + (u % 64)>> /\ 192 + (u \div 64) \in 194..223
        /\ 128 + (u % 64) \in 128..191
    BY <1>4, EncodeTwo
  <2>2. Len(e) = 2 /\ b1 = 192 + (u \div 64) /\ b2 = 128 + (u % 64)
    <3>1. Len(e) = 2 /\ e[1] = 192 + (u \div 64) /\ e[2] = 128 + (u % 64)
      BY <2>1
    <3>2. i + 1 - 1 = i /\ i + 2 - 1 = i + 1 /\ 1 \in 1..2 /\ 2 \in 1..2
      OBVIOUS
    <3>3. At(s, i + 1 - 1) = e[1] /\ At(s, i + 2 - 1) = e[2]
      BY <3>1, <3>2
    <3> QED BY ONLY <1>1, <3>1, <3>2, <3>3
  <2>3. ~(b1 < 192) /\ b1 \in 192..223 /\ Tail2(b2)
    BY <2>1, <2>2 DEF Tail2
  <2>4. utf2unicode(s, i) = [unit |-> (b1 % 32) * 64 + (b2 % 64), ofs |-> 2]
    BY ONLY <1>1, <2>3 DEF utf2unicode
  <2>5. (b1 % 32) * 64 + (b2 % 64) = u
    <3>1. PICK q, r : q = u \div 64 /\ r = u % 64
      OBVIOUS
    <3>2. q \in 0..31 /\ r \in 0..63 /\ u = q * 64 + r
      BY <1>2, <1>4, <3>1
    <3>3. b1 % 32 = q /\ b2 % 64 = r
      BY ONLY <2>2, <3>1, <3>2, DivMod
    <3> QED BY ONLY <3>2, <3>3
  <2> QED BY ONLY <2>2, <2>4, <2>5
<1>5. CASE ~(u < 128) /\ ~(u < 2048)
  <2>1. e = <<224 + (u \div 4096), 128 + ((u \div 64) % 64), 128 + (u % 64)>>
        /\ 224 + (u \div 4096) \in 224..239 /\ 128 + ((u \div 64) % 64) \in 128..191
        /\ 128 + (u % 64) \in 128..191
    BY <1>5, EncodeThree
  <2>2. Len(e) = 3 /\ b1 = 224 + (u \div 4096) /\ b2 = 128 + ((u \div 64) % 64) /\ b3 = 128 + (u % 64)
    <3>1. Len(e) = 3 /\ e[1] = 224 + (u \div 4096) /\ e[2] = 128 + ((u \div 64) % 64)
          /\ e[3] = 128 + (u % 64)
      BY <2>1
    <3>2. i + 1 - 1 = i /\ i + 2 - 1 = i + 1 /\ i + 3 - 1 = i + 2 /\ 1 \in 1..3 /\ 2 \in 1..3 /\ 3 \in 1..3
      OBVIOUS
    <3>3. At(s, i + 1 - 1) = e[1] /\ At(s, i + 2 - 1) = e[2] /\ At(s, i + 3 - 1) = e[3]
      BY <3>1, <3>2
    <3> QED BY ONLY <1>1, <3>1, <3>2, <3>3
  <2>3. ~(b1 < 192) /\ ~(b1 \in 192..223) /\ b1 \in 224..239 /\ Tail2(b2) /\ Tail2(b3)
    BY <2>1, <2>2 DEF Tail2
  <2>4. utf2unicode(s, i) = [unit |-> (b1 % 16) * 4096 + (b2 % 64) * 64 + (b3 % 64), ofs |-> 3]
    BY ONLY <1>1, <2>3 DEF utf2unicode
  <2>5. (b1 % 16) * 4096 + (b2 % 64) * 64 + (b3 % 64) = u
    <3>1. PICK q, p, r : q = u \div 4096 /\ p = (u \div 64) % 64 /\ r = u % 64
      OBVIOUS
    <3>2. q \in 0..15 /\ p \in 0..63 /\ r \in 0..63
      BY <1>2, <3>1
    <3>3. u = (q * 64 + p) * 64 + r
      BY ONLY <1>2, <3>1, DivMod
    <3>4. b1 % 16 = q /\ b2 % 64 = p /\ b3 % 64 = r
      BY ONLY <2>2, <3>1, <3>2, DivMod
    <3> QED BY ONLY <3>2, <3>3, <3>4
  <2> QED BY ONLY <2>2, <2>4, <2>5
<1> QED BY <1>3, <1>4, <1>5

\* The bytes at a place: behind the last is the 0.
LEMMA AtIs ==
  ASSUME NEW s \in Seq(Byte), NEW i \in Nat
  PROVE  /\ At(s, i) \in Nat /\ (At(s, i) # 0 => i \in 1..Len(s))
         /\ (i \in 1..Len(s) => At(s, i) = s[i] /\ s[i] \in Byte) /\ At(s, Len(s) + 1) = 0
<1>1. DOMAIN s = 1..Len(s) /\ Len(s) \in Nat
  OBVIOUS
<1>2. \A j \in 1..Len(s) : s[j] \in Byte /\ s[j] \in Nat
  <2>1. \A b \in Byte : b \in Nat
    BY DEF Byte
  <2>2. \A j \in 1..Len(s) : s[j] \in Byte
    OBVIOUS
  <2> QED BY ONLY <2>1, <2>2
<1>3. Len(s) + 1 \notin 1..Len(s)
  BY <1>1
<1> QED BY <1>1, <1>2, <1>3 DEF At

\* The bytes of unit k, read from behind those of the unit before.
LEMMA UnitAt ==
  ASSUME NEW v, NEW s, NEW off, Laid(v, s, off)
  PROVE  /\ \A k \in 0..Len(v) : off[k] \in Nat /\ off[k] + 1 \in 1..Len(s) + 1
         /\ \A k \in 1..Len(v) : Spells(s, off[k - 1] + 1, utf8_encode(v[k]))
<1>1. PICK n \in Nat : n = Len(v)
  BY PlacesUp
<1>2. s \in Seq(Byte) /\ off[n] = Len(s) /\ Len(s) \in Nat
  BY <1>1 DEF Laid
<1>3. \A k \in 0..n : off[k] \in Nat /\ off[k] + 1 \in 1..Len(s) + 1
  <2> TAKE k \in 0..n
  <2>1. n \in k..n /\ k \in Nat
    OBVIOUS
  <2>2. off[k] \in Nat
    BY <1>1, PlacesUp
  <2>3. off[k] + (n - k) <= off[n]
    BY <1>1, <2>1, PlacesFar
  <2>4. PICK x : x = off[k]
    OBVIOUS
  <2> QED BY <1>2, <2>1, <2>2, <2>3, <2>4
<1>4. ASSUME NEW k \in 1..n, NEW e, e = utf8_encode(v[k]), NEW j \in 1..Len(e)
      PROVE  At(s, (off[k - 1] + 1) + j - 1) = e[j]
  <2>1. k - 1 \in 0..n /\ k \in 0..n
    OBVIOUS
  <2>2. PICK x, y : x = off[k - 1] /\ y = off[k]
    OBVIOUS
  <2>3. x \in Nat /\ y \in Nat /\ y + 1 \in 1..Len(s) + 1
    BY ONLY <1>3, <2>1, <2>2
  <2>4. y = x + Len(e) /\ Len(e) \in 1..3 /\ s[x + j] = e[j]
    BY <1>1, <1>4, <2>2, PlacesUp DEF Laid
  <2>5. x + j \in 1..Len(s) /\ (x + 1) + j - 1 = x + j /\ x + j \in Nat
    BY <1>2, <2>3, <2>4
  <2>6. At(s, x + j) = s[x + j]
    BY <1>2, <2>5, AtIs
  <2> QED BY ONLY <2>2, <2>4, <2>5, <2>6
<1>5. ASSUME NEW k \in 1..n PROVE Spells(s, off[k - 1] + 1, utf8_encode(v[k]))
  BY ONLY <1>4, k \in 1..n DEF Spells
<1> QED BY ONLY <1>1, <1>3, <1>5

\* A character that is read ends before the terminating 0.
LEMMA UnitEnds ==
  ASSUME NEW s \in Seq(Byte), NEW i \in 1..Len(s) + 1, utf2unicode(s, i).unit # 0
  PROVE  i + utf2unicode(s, i).ofs \in i + 1..Len(s) + 1
<1>1. PICK b1, b2, b3 : b1 = At(s, i) /\ b2 = At(s, i + 1) /\ b3 = At(s, i + 2)
  OBVIOUS
<1>2. i \in Nat /\ Len(s) \in Nat
  OBVIOUS
<1>3. b1 \in Nat /\ (b1 # 0 => i \in 1..Len(s))
  BY <1>1, <1>2, AtIs
<1>4. b2 # 0 => i + 1 \in 1..Len(s)
  <2>1. i + 1 \in Nat
    BY <1>2
  <2> QED BY <1>1, <2>1, AtIs
<1>5. b3 # 0 => i + 2 \in 1..Len(s)
  <2>1. i + 2 \in Nat
    BY <1>2
  <2> QED BY <1>1, <2>1, AtIs
<1>6. CASE b1 < 192
  <2>1. ~(b1 \in 192..223) /\ ~(b1 \in 224..239)
    BY <1>3, <1>6
  <2>2. utf2unicode(s, i) = [unit |-> b1, ofs |-> 1]
    BY ONLY <1>1, <1>6, <2>1 DEF utf2unicode
  <2>3. utf2unicode(s, i).unit = b1 /\ utf2unicode(s, i).ofs = 1
    BY <2>2
  <2> QED BY <1>2, <1>3, <2>3
<1>7. CASE ~(b1 < 192) /\ b1 \in 192..223 /\ Tail2(b2)
  <2>1. ~(b1 \in 224..239)
    BY <1>7
  <2>2. utf2unicode(s, i).ofs = 2
    <3>1. utf2unicode(s, i) = [unit |-> (b1 % 32) * 64 + (b2 % 64), ofs |-> 2]
      BY ONLY <1>1, <1>7, <2>1 DEF utf2unicode
    <3> QED BY <3>1
  <2>3. b2 # 0
    BY <1>7 DEF Tail2
  <2> QED BY <1>2, <1>4, <2>2, <2>3
<1>8. CASE ~(b1 < 192) /\ b1 \in 224..239 /\ Tail2(b2) /\ Tail2(b3)
  <2>1. ~(b1 \in 192..223)
    BY <1>8
  <2>2. utf2unicode(s, i).ofs = 3
    <3>1. utf2unicode(s, i) = [unit |-> (b1 % 16) * 4096 + (b2 % 64) * 64 + (b3 % 64), ofs |-> 3]
      BY ONLY <1>1, <1>8, <2>1 DEF utf2unicode
    <3> QED BY <3>1
  <2>3. b3 # 0
    BY <1>8 DEF Tail2
  <2> QED BY <1>2, <1>5, <2>2, <2>3
<1>9. CASE /\ ~(b1 < 192) /\ ~(b1 \in 192..223 /\ Tail2(b2))
           /\ ~(b1 \in 224..239 /\ Tail2(b2) /\ Tail2(b3))
  <2>1. utf2unicode(s, i) = [unit |-> 0, ofs |-> 0]
    BY ONLY <1>1, <1>9 DEF utf2unicode
  <2> QED BY <2>1
<1> QED BY <1>6, <1>7, <1>8, <1>9

\* What char2unicodestring goes over.
LEMMA UnitsOf ==
  ASSUME NEW s \in Seq(Byte)
  PROVE  \E f : /\ \A i \in 1..Len(s) + 1 :
                     f[i] = IF utf2unicode(s, i).unit = 0 THEN <<>>
                            ELSE <<utf2unicode(s, i).unit>> \o f[i + utf2unicode(s, i).ofs]
                /\ char2unicodestring(s) = SubSeq(f[1], 1, Min({Len(f[1]), MaxUnits}))
<1> DEFINE Def(f) == f = [i \in 1..Len(s) + 1 |->
                            LET c == utf2unicode(s, i)
                            IN IF c.unit = 0 THEN <<>> ELSE <<c.unit>> \o f[i + c.ofs]]
           F == CHOOSE f : Def(f)
<1>1. char2unicodestring(s) = SubSeq(F[1], 1, Min({Len(F[1]), MaxUnits}))
  BY DEF char2unicodestring
<1>2. PICK L \in Nat : L = Len(s)
  OBVIOUS
<1>3. PICK unit : unit = [i \in 1..L + 1 |-> utf2unicode(s, i).unit]
  OBVIOUS
<1>4. PICK next : next = [i \in 1..L + 1 |-> i + utf2unicode(s, i).ofs]
  OBVIOUS
<1>5. \A i \in 1..L + 1 : unit[i] = utf2unicode(s, i).unit /\ next[i] = i + utf2unicode(s, i).ofs
  BY <1>3, <1>4
<1>6. \A i \in 1..L + 1 : unit[i] # 0 => next[i] \in i + 1..L + 1
  <2> TAKE i \in 1..L + 1
  <2>1. HAVE unit[i] # 0
  <2> QED BY <1>2, <1>5, <2>1, UnitEnds
<1>7. PICK f : DOMAIN f = 1..L + 1 /\ Table(L, unit, next, f)
  BY <1>6, TableExists
<1>8. PICK g : g = [i \in 1..L + 1 |-> f[i]]
  OBVIOUS
<1>9. \A i \in 1..L + 1 :
        g[i] = IF utf2unicode(s, i).unit = 0 THEN <<>>
               ELSE <<utf2unicode(s, i).unit>> \o g[i + utf2unicode(s, i).ofs]
  <2> TAKE i \in 1..L + 1
  <2>1. g[i] = IF unit[i] = 0 THEN <<>> ELSE <<unit[i]>> \o f[next[i]]
    BY <1>7, <1>8 DEF Table
  <2>2. unit[i] # 0 => g[next[i]] = f[next[i]]
    <3>1. unit[i] # 0 => next[i] \in 1..L + 1
      <4>1. unit[i] # 0 => next[i] \in i + 1..L + 1
        BY <1>6
      <4> QED BY <4>1
    <3> QED BY <1>8, <3>1
  <2> QED BY ONLY <1>5, <2>1, <2>2, i \in 1..L + 1
<1>10. Def(g)
  BY ONLY <1>2, <1>8, <1>9
<1>11. Def(F)
  BY <1>10
<1>12. \A i \in 1..Len(s) + 1 :
         F[i] = IF utf2unicode(s, i).unit = 0 THEN <<>>
                ELSE <<utf2unicode(s, i).unit>> \o F[i + utf2unicode(s, i).ofs]
  BY <1>11
<1> HIDE DEF F
<1> QED BY <1>1, <1>12

\* A name of up to MaxUnits units that became bytes is told as it was.
LEMMA Decoded ==
  ASSUME NEW v \in Seq(Unit), Len(v) <= MaxUnits
  PROVE  char2unicodestring(Encoded(v)) = v
<1>1. PICK s : s = Encoded(v)
  OBVIOUS
<1>2. s \in Seq(Byte)
  BY <1>1, EncodedLaid
<1>3. PICK off : Laid(v, s, off)
  BY <1>1, EncodedLaid
<1>4. PICK n \in Nat : n = Len(v)
  OBVIOUS
<1>5. PICK f : /\ \A i \in 1..Len(s) + 1 :
                    f[i] = IF utf2unicode(s, i).unit = 0 THEN <<>>
                           ELSE <<utf2unicode(s, i).unit>> \o f[i + utf2unicode(s, i).ofs]
               /\ char2unicodestring(s) = SubSeq(f[1], 1, Min({Len(f[1]), MaxUnits}))
  BY <1>2, UnitsOf
<1>6. off[0] = 0 /\ off[n] = Len(s) /\ Len(s) \in Nat
  BY <1>2, <1>3, <1>4 DEF Laid
<1>7. \A k \in 0..n : off[k] \in Nat /\ off[k] + 1 \in 1..Len(s) + 1
  BY <1>3, <1>4, UnitAt
<1>8. \A k \in 1..n : /\ utf2unicode(s, off[k - 1] + 1).unit = v[k]
                      /\ off[k - 1] + 1 + utf2unicode(s, off[k - 1] + 1).ofs = off[k] + 1
  <2> TAKE k \in 1..n
  <2>1. PICK e : e = utf8_encode(v[k])
    OBVIOUS
  <2>2. v[k] \in Unit /\ k - 1 \in 0..n /\ k \in 0..n
    BY <1>4
  <2>3. PICK x, y : x = off[k - 1] /\ y = off[k]
    OBVIOUS
  <2>4. x \in Nat /\ y \in Nat /\ y + 1 \in 1..Len(s) + 1
    BY ONLY <1>7, <2>2, <2>3
  <2>5. y = x + Len(e) /\ Len(e) \in 1..3
    BY <1>3, <1>4, <2>1, <2>2, <2>3, EncodeTyped DEF Laid
  <2>6. Spells(s, x + 1, e)
    <3>1. Spells(s, off[k - 1] + 1, utf8_encode(v[k]))
      BY <1>3, <1>4, UnitAt
    <3> QED BY ONLY <2>1, <2>3, <3>1
  <2>7. utf2unicode(s, x + 1) = [unit |-> v[k], ofs |-> Len(e)]
    <3>1. x + 1 \in Nat
      BY <2>4
    <3> QED BY <2>1, <2>2, <2>6, <3>1, DecodeUnit
  <2>8. utf2unicode(s, x + 1).unit = v[k] /\ utf2unicode(s, x + 1).ofs = Len(e)
    BY <2>7
  <2>9. x + 1 + Len(e) = y + 1
    BY ONLY <2>4, <2>5
  <2> QED BY ONLY <2>3, <2>8, <2>9
<1>9. f[off[n] + 1] = <<>>
  <2>1. At(s, Len(s) + 1) = 0
    BY <1>2, <1>6, AtIs
  <2>2. utf2unicode(s, Len(s) + 1) = [unit |-> 0, ofs |-> 1]
    <3>1. PICK b : b = At(s, Len(s) + 1)
      OBVIOUS
    <3>2. b = 0 /\ b < 192 /\ ~(b \in 192..223) /\ ~(b \in 224..239)
      <4>1. b = 0
        BY ONLY <2>1, <3>1
      <4> QED BY ONLY <4>1
    <3>3. utf2unicode(s, Len(s) + 1) = [unit |-> b, ofs |-> 1]
      BY ONLY <3>1, <3>2 DEF utf2unicode
    <3> QED BY <3>2, <3>3
  <2>3. utf2unicode(s, Len(s) + 1).unit = 0 /\ Len(s) + 1 \in 1..Len(s) + 1
    BY <1>6, <2>2
  <2> QED BY ONLY <1>5, <1>6, <2>3
<1>10. \A k \in 1..n : f[off[k - 1] + 1] = <<v[k]>> \o f[off[k] + 1]
  <2> TAKE k \in 1..n
  <2>1. PICK i : i = off[k - 1] + 1
    OBVIOUS
  <2>2. i \in 1..Len(s) + 1
    <3>1. k - 1 \in 0..n
      OBVIOUS
    <3> QED BY ONLY <1>7, <2>1, <3>1
  <2>3. utf2unicode(s, i).unit = v[k] /\ i + utf2unicode(s, i).ofs = off[k] + 1
    BY ONLY <1>8, <2>1, k \in 1..n
  <2>4. v[k] # 0
    <3>1. v[k] \in Unit
      BY <1>4
    <3> QED BY <3>1, UnitIs
  <2> QED BY ONLY <1>5, <2>1, <2>2, <2>3, <2>4
<1> DEFINE Told(k) == f[off[k] + 1] \in Seq(Unit) /\ Len(f[off[k] + 1]) = n - k
                      /\ \A j \in 1..n - k : f[off[k] + 1][j] = v[k + j]
           Bad == {x \in 0..n : ~Told(n - x)}
<1>11. ASSUME Bad # {} PROVE FALSE
  <2>1. PICK x \in Bad : \A y \in Bad : x <= y
    <3>1. Bad \subseteq Nat
      OBVIOUS
    <3> HIDE DEF Bad
    <3> QED BY <1>11, <3>1, LeastNatural
  <2>2. x \in 0..n /\ ~Told(n - x)
    OBVIOUS
  <2>3. CASE x = 0
    <3>1. n - x = n /\ n - n = 0 /\ 1..0 = {}
      BY <2>3
    <3>2. Told(n)
      BY <1>9, <3>1
    <3> QED BY ONLY <2>2, <3>1, <3>2
  <2>4. CASE x # 0
    <3>1. x - 1 \in 0..n /\ ~(x <= x - 1)
      BY <2>2, <2>4
    <3>2. x - 1 \notin Bad
      <4> HIDE DEF Bad
      <4> QED BY ONLY <2>1, <3>1
    <3>3. PICK k : k = n - (x - 1)
      OBVIOUS
    <3>4. k \in 1..n /\ n - x = k - 1
      BY <2>2, <2>4, <3>3
    <3>5. Told(k)
      BY ONLY <3>1, <3>2, <3>3
    <3>6. PICK a, b : a = f[off[k - 1] + 1] /\ b = f[off[k] + 1]
      OBVIOUS
    <3>7. a = <<v[k]>> \o b
      BY ONLY <1>10, <3>4, <3>6
    <3>8. b \in Seq(Unit) /\ Len(b) = n - k /\ \A j \in 1..n - k : b[j] = v[k + j]
      BY ONLY <3>5, <3>6
    <3>9. v[k] \in Unit /\ <<v[k]>> \in Seq(Unit) /\ Len(<<v[k]>>) = 1 /\ <<v[k]>>[1] = v[k]
      BY <1>4, <3>4
    <3>10. /\ a \in Seq(Unit) /\ Len(a) = 1 + (n - k) /\ a[1] = v[k]
           /\ \A j \in 1..n - k : a[1 + j] = b[j]
      <4>1. PICK c : c = <<v[k]>>
        OBVIOUS
      <4>2. a = c \o b /\ c \in Seq(Unit) /\ Len(c) = 1 /\ c[1] = v[k] /\ 1 \in 1..1
        BY ONLY <3>7, <3>9, <4>1
      <4>3. /\ a \in Seq(Unit) /\ Len(a) = Len(c) + Len(b) /\ \A j \in 1..Len(c) : a[j] = c[j]
            /\ \A j \in 1..Len(b) : a[Len(c) + j] = b[j]
        <5>1. b \in Seq(Unit) /\ c \in Seq(Unit) /\ a = c \o b
          BY ONLY <3>8, <4>2
        <5> QED BY ONLY <5>1, ConcatIs
      <4> QED BY ONLY <3>8, <4>2, <4>3
    <3>11. \A j \in 1..n - (k - 1) : a[j] = v[k - 1 + j]
      <4> TAKE j \in 1..n - (k - 1)
      <4>1. CASE j = 1
        <5>1. k - 1 + j = k
          BY <3>4, <4>1
        <5> QED BY ONLY <3>10, <4>1, <5>1
      <4>2. CASE j # 1
        <5>1. j - 1 \in 1..n - k /\ 1 + (j - 1) = j /\ k + (j - 1) = k - 1 + j
          BY <3>4, <4>2
        <5>2. a[1 + (j - 1)] = b[j - 1] /\ b[j - 1] = v[k + (j - 1)]
          BY ONLY <3>8, <3>10, <5>1
        <5> QED BY ONLY <5>1, <5>2
      <4> QED BY <4>1, <4>2
    <3>12. 1 + (n - k) = n - (k - 1)
      BY <3>4
    <3>13. Told(k - 1)
      BY ONLY <3>6, <3>10, <3>11, <3>12
    <3> QED BY ONLY <2>2, <3>4, <3>13
  <2> QED BY <2>3, <2>4
<1>12. Told(0)
  <2>1. n \in 0..n /\ n - n = 0
    OBVIOUS
  <2> QED BY ONLY <1>11, <2>1
<1>13. f[1] = v
  <2>1. PICK t : t = f[1]
    OBVIOUS
  <2>2. off[0] + 1 = 1 /\ n - 0 = n
    BY <1>6
  <2>3. t \in Seq(Unit) /\ Len(t) = n /\ \A j \in 1..n : t[j] = v[0 + j]
    BY ONLY <1>12, <2>1, <2>2
  <2>4. \A j \in 1..n : 0 + j = j
    OBVIOUS
  <2>5. \A j \in 1..n : t[j] = v[j]
    BY ONLY <2>3, <2>4
  <2>6. t = v
    BY ONLY <1>4, <2>3, <2>5, SeqEqual, v \in Seq(Unit)
  <2> QED BY <2>1, <2>6
<1>14. Min({n, MaxUnits}) = n
  <2>1. n <= MaxUnits /\ MaxUnits \in Nat
    BY <1>4, NamesAssumption
  <2>2. {n, MaxUnits} \subseteq Nat /\ {n, MaxUnits} # {}
    BY <2>1
  <2>3. PICK m : m = Min({n, MaxUnits})
    OBVIOUS
  <2>4. m \in {n, MaxUnits} /\ m <= n /\ m <= MaxUnits
    BY <2>2, <2>3, LeastNatural
  <2> QED BY <2>1, <2>3, <2>4
<1>15. SubSeq(v, 1, n) = v
  BY <1>4
<1> QED BY ONLY <1>1, <1>4, <1>5, <1>13, <1>14, <1>15

-----------------------------------------------------------------------------
(* Names: utf8_validate.                                                     *)

\* A character of n bytes has its lead byte and its tail bytes.
LEMMA CharacterBytes ==
  ASSUME NEW s, NEW i, NEW n \in 1..4, Character(s, i, n)
  PROVE  /\ n = 1 => At(s, i) \in 1..127
         /\ n = 2 => At(s, i) \in 192..223
         /\ n = 3 => At(s, i) \in 224..239
         /\ n = 4 => At(s, i) \in 240..247
         /\ \A k \in 1..n - 1 : Tail2(At(s, i + k))
<1>1. At(s, i) \in Lead[n] /\ \A k \in 1..n - 1 : Tail2(At(s, i + k))
  BY DEF Character
<1>2. Lead[1] = 1..127 /\ Lead[2] = 192..223 /\ Lead[3] = 224..239 /\ Lead[4] = 240..247
  BY DEF Lead
<1> QED BY <1>1, <1>2

\* When one, two and three bytes are a character.
LEMMA CharacterIs ==
  ASSUME NEW s, NEW i, NEW c \in Nat
  PROVE  /\ At(s, i) \in 1..127 /\ Bits(s, i, 1) = c /\ c >= 1 /\ c <= 127 => Character(s, i, 1)
         /\ At(s, i) \in 192..223 /\ Tail2(At(s, i + 1)) /\ Bits(s, i, 2) = c /\ c >= 128 /\ c < 2048
              => Character(s, i, 2)
         /\ At(s, i) \in 224..239 /\ Tail2(At(s, i + 1)) /\ Tail2(At(s, i + 2))
              /\ Bits(s, i, 3) = c /\ c >= 2048 /\ c <= 65535
              => (Character(s, i, 3) <=> c \notin Surrogate)
<1>1. Lead[1] = 1..127 /\ Lead[2] = 192..223 /\ Lead[3] = 224..239
  BY DEF Lead
<1>2. Least[1] = 1 /\ Least[2] = 128 /\ Least[3] = 2048
  BY DEF Least
<1>3. 1..1 - 1 = {} /\ (\A k \in 1..2 - 1 : k = 1) /\ \A k \in 1..3 - 1 : k = 1 \/ k = 2
  OBVIOUS
<1>4. /\ c <= 127 => c \notin Surrogate /\ c <= 1114111
      /\ c >= 128 /\ c < 2048 => c \notin Surrogate /\ c <= 1114111
      /\ c <= 65535 => c <= 1114111
  BY DEF Surrogate
<1>5. ASSUME At(s, i) \in 1..127, Bits(s, i, 1) = c, c >= 1, c <= 127 PROVE Character(s, i, 1)
  BY ONLY <1>1, <1>2, <1>3, <1>4, <1>5 DEF Character
<1>6. ASSUME At(s, i) \in 192..223, Tail2(At(s, i + 1)), Bits(s, i, 2) = c, c >= 128, c < 2048
      PROVE  Character(s, i, 2)
  <2>1. \A k \in 1..2 - 1 : Tail2(At(s, i + k))
    BY ONLY <1>3, <1>6
  <2> QED BY ONLY <1>1, <1>2, <1>4, <1>6, <2>1 DEF Character
<1>7. ASSUME At(s, i) \in 224..239, Tail2(At(s, i + 1)), Tail2(At(s, i + 2)),
             Bits(s, i, 3) = c, c >= 2048, c <= 65535
      PROVE  Character(s, i, 3) <=> c \notin Surrogate
  <2>1. \A k \in 1..3 - 1 : Tail2(At(s, i + k))
    BY ONLY <1>3, <1>7
  <2> QED BY ONLY <1>1, <1>2, <1>4, <1>7, <2>1 DEF Character
<1> QED BY ONLY <1>5, <1>6, <1>7

\* The bytes of a unit are a character of that many bytes and no other, those of
\* a surrogate are none.
LEMMA UnitCharacter ==
  ASSUME NEW u \in Unit, NEW s, NEW i \in Nat, NEW e, e = utf8_encode(u), Spells(s, i, e),
         NEW n \in 1..4
  PROVE  Character(s, i, n) <=> n = Len(e) /\ u \notin Surrogate
<1>1. PICK b1, b2, b3 : b1 = At(s, i) /\ b2 = At(s, i + 1) /\ b3 = At(s, i + 2)
  OBVIOUS
<1>2. u \in Nat /\ u <= 65535 /\ u >= 1
  BY UnitIs
<1>3. i + 1 - 1 = i /\ i + 2 - 1 = i + 1 /\ i + 3 - 1 = i + 2
  OBVIOUS
<1>4. n = 1 \/ n = 2 \/ n = 3 \/ n = 4
  OBVIOUS
<1>5. \A j \in 1..Len(e) : At(s, i + j - 1) = e[j]
  BY DEF Spells
<1>6. CASE u < 128
  <2>1. e = <<u>> /\ u \in 1..127
    BY <1>6, EncodeOne
  <2>2. Len(e) = 1 /\ e[1] = u /\ 1 \in 1..1
    BY ONLY <2>1
  <2> u \in 1..127
    BY <2>1
  <2>3. b1 = u
    BY ONLY <1>1, <1>3, <1>5, <2>2
  <2>4. u \notin Surrogate
    BY ONLY <1>2, <1>6 DEF Surrogate
  <2>5. CASE n = 1
    <3>1. Bits(s, i, 1) = u
      BY ONLY <1>1, <2>3 DEF Bits
    <3>2. b1 \in 1..127 /\ u >= 1 /\ u <= 127
      BY ONLY <2>3, u \in 1..127
    <3>3. Character(s, i, 1)
      BY ONLY <1>1, <1>2, <3>1, <3>2, CharacterIs
    <3> QED BY ONLY <2>2, <2>4, <2>5, <3>3
  <2>6. CASE n # 1
    <3>1. ~(b1 \in 192..223) /\ ~(b1 \in 224..239) /\ ~(b1 \in 240..247)
      BY ONLY <2>3, u \in 1..127
    <3>2. ~Character(s, i, n)
      BY ONLY <1>1, <1>4, <2>6, <3>1, n \in 1..4, CharacterBytes
    <3> QED BY ONLY <2>2, <2>6, <3>2
  <2> QED BY <2>5, <2>6
<1>7. CASE ~(u < 128) /\ u < 2048
  <2>1. PICK q, r : q = u \div 64 /\ r = u % 64
    OBVIOUS
  <2>2. e = <<192 + q, 128 + r>> /\ 192 + q \in 194..223 /\ 128 + r \in 128..191
    BY <1>7, <2>1, EncodeTwo
  <2>3. Len(e) = 2 /\ e[1] = 192 + q /\ e[2] = 128 + r /\ 1 \in 1..2 /\ 2 \in 1..2
    BY ONLY <2>2
  <2>4. b1 = 192 + q /\ b2 = 128 + r
    BY ONLY <1>1, <1>3, <1>5, <2>3
  <2>5. u \notin Surrogate /\ u >= 128 /\ u < 2048
    BY ONLY <1>2, <1>7 DEF Surrogate
  <2>6. CASE n = 2
    <3>1. (b1 % 32) * 64 + (b2 % 64) = u
      <4>1. q \in 0..31 /\ r \in 0..63 /\ u = q * 64 + r
        BY ONLY <1>2, <1>7, <2>1
      <4>2. b1 % 32 = q /\ b2 % 64 = r
        BY ONLY <2>4, <4>1, DivMod
      <4> QED BY ONLY <4>1, <4>2
    <3>2. b1 \in 192..223 /\ Tail2(b2)
      BY ONLY <2>2, <2>4 DEF Tail2
    <3>3. Bits(s, i, 2) = u
      BY ONLY <1>1, <3>1 DEF Bits
    <3>4. Character(s, i, 2)
      BY ONLY <1>1, <1>2, <2>5, <3>2, <3>3, CharacterIs
    <3> QED BY ONLY <2>3, <2>5, <2>6, <3>4
  <2>7. CASE n # 2
    <3>1. ~(b1 \in 1..127) /\ ~(b1 \in 224..239) /\ ~(b1 \in 240..247)
      BY ONLY <2>2, <2>4
    <3>2. ~Character(s, i, n)
      BY ONLY <1>1, <1>4, <2>7, <3>1, n \in 1..4, CharacterBytes
    <3> QED BY ONLY <2>3, <2>7, <3>2
  <2> QED BY <2>6, <2>7
<1>8. CASE ~(u < 128) /\ ~(u < 2048)
  <2>1. PICK q, p, r : q = u \div 4096 /\ p = (u \div 64) % 64 /\ r = u % 64
    OBVIOUS
  <2>2. e = <<224 + q, 128 + p, 128 + r>> /\ 224 + q \in 224..239 /\ 128 + p \in 128..191
        /\ 128 + r \in 128..191
    BY <1>8, <2>1, EncodeThree
  <2>3. Len(e) = 3 /\ e[1] = 224 + q /\ e[2] = 128 + p /\ e[3] = 128 + r
        /\ 1 \in 1..3 /\ 2 \in 1..3 /\ 3 \in 1..3
    BY ONLY <2>2
  <2>4. b1 = 224 + q /\ b2 = 128 + p /\ b3 = 128 + r
    BY ONLY <1>1, <1>3, <1>5, <2>3
  <2>5. u >= 2048 /\ u <= 65535
    BY ONLY <1>2, <1>8
  <2>6. CASE n = 3
    <3>1. (b1 % 16) * 4096 + (b2 % 64) * 64 + (b3 % 64) = u
      <4>1. q \in 0..15 /\ p \in 0..63 /\ r \in 0..63
        BY ONLY <1>2, <2>1
      <4>2. u = (q * 64 + p) * 64 + r
        BY ONLY <1>2, <2>1, DivMod
      <4>3. b1 % 16 = q /\ b2 % 64 = p /\ b3 % 64 = r
        BY ONLY <2>4, <4>1, DivMod
      <4> QED BY ONLY <4>1, <4>2, <4>3
    <3>2. b1 \in 224..239 /\ Tail2(b2) /\ Tail2(b3)
      BY ONLY <2>2, <2>4 DEF Tail2
    <3>3. Bits(s, i, 3) = u
      BY ONLY <1>1, <3>1 DEF Bits
    <3>4. Character(s, i, 3) <=> u \notin Surrogate
      BY ONLY <1>1, <1>2, <2>5, <3>2, <3>3, CharacterIs
    <3> QED BY ONLY <2>3, <2>6, <3>4
  <2>7. CASE n # 3
    <3>1. ~(b1 \in 1..127) /\ ~(b1 \in 192..223) /\ ~(b1 \in 240..247)
      BY ONLY <2>2, <2>4
    <3>2. ~Character(s, i, n)
      BY ONLY <1>1, <1>4, <2>7, <3>1, n \in 1..4, CharacterBytes
    <3> QED BY ONLY <2>3, <2>7, <3>2
  <2> QED BY <2>6, <2>7
<1> QED BY <1>6, <1>7, <1>8

\* A character ends before the terminating 0.
LEMMA CharacterEnds ==
  ASSUME NEW s \in Seq(Byte), NEW i \in 1..Len(s) + 1, NEW n \in 1..4, Character(s, i, n)
  PROVE  i + n \in i + 1..Len(s) + 1
<1>1. i \in Nat /\ Len(s) \in Nat
  OBVIOUS
<1>2. n = 1 \/ n = 2 \/ n = 3 \/ n = 4
  OBVIOUS
<1>3. CASE n = 1
  <2>1. At(s, i) # 0
    <3>1. At(s, i) \in 1..127
      BY <1>3, CharacterBytes
    <3>2. PICK b : b = At(s, i)
      OBVIOUS
    <3>3. b \in 1..127
      BY ONLY <3>1, <3>2
    <3>4. b # 0
      BY ONLY <3>3
    <3> QED BY ONLY <3>2, <3>4
  <2>2. i \in 1..Len(s)
    BY <1>1, <2>1, AtIs
  <2> QED BY <1>1, <1>3, <2>2
<1>4. CASE n # 1
  <2>1. n - 1 \in 1..n - 1 /\ i + (n - 1) \in Nat
    BY <1>1, <1>4
  <2>2. Tail2(At(s, i + (n - 1)))
    BY <2>1, CharacterBytes
  <2>3. At(s, i + (n - 1)) # 0
    <3>1. PICK b : b = At(s, i + (n - 1))
      OBVIOUS
    <3>2. Tail2(b)
      BY ONLY <2>2, <3>1
    <3>3. b # 0
      BY ONLY <3>2 DEF Tail2
    <3> QED BY ONLY <3>1, <3>3
  <2>4. i + (n - 1) \in 1..Len(s)
    BY <2>1, <2>3, AtIs
  <2> QED BY <1>1, <2>4
<1> QED BY <1>3, <1>4

\* The places of s from which characters follow up to its end.
Followed(s, m, V) ==
  /\ V \subseteq m..Len(s) + 1
  /\ \A i \in m..Len(s) + 1 :
       i \in V <=> i = Len(s) + 1 \/ \E n \in 1..4 : Character(s, i, n) /\ i + n \in V

\* There are such places.
LEMMA FollowedExists ==
  ASSUME NEW s \in Seq(Byte)
  PROVE  \E V : Followed(s, 1, V)
<1>1. PICK L \in Nat : L = Len(s)
  OBVIOUS
<1> DEFINE Bad == {x \in 0..L + 1 : ~ \E V : Followed(s, L + 2 - x, V)}
<1>2. ASSUME Bad # {} PROVE FALSE
  <2>1. PICK x \in Bad : \A y \in Bad : x <= y
    <3>1. Bad \subseteq Nat
      OBVIOUS
    <3> HIDE DEF Bad
    <3> QED BY <1>2, <3>1, LeastNatural
  <2>2. x \in 0..L + 1 /\ ~ \E V : Followed(s, L + 2 - x, V)
    OBVIOUS
  <2>3. PICK m : m = L + 2 - x
    OBVIOUS
  <2>4. CASE x = 0
    <3>1. m = L + 2 /\ m..L + 1 = {}
      BY <2>3, <2>4
    <3>2. Followed(s, m, {})
      BY <1>1, <3>1 DEF Followed
    <3> QED BY ONLY <2>2, <2>3, <3>2
  <2>5. CASE x # 0
    <3>1. x - 1 \in 0..L + 1 /\ ~(x <= x - 1) /\ L + 2 - (x - 1) = m + 1 /\ m \in 1..L + 1
      BY <2>2, <2>3, <2>5
    <3>2. x - 1 \notin Bad
      <4> HIDE DEF Bad
      <4> QED BY ONLY <2>1, <3>1
    <3>3. PICK V : Followed(s, m + 1, V)
      <4>1. \E V : Followed(s, L + 2 - (x - 1), V)
        BY <3>1, <3>2
      <4> QED BY ONLY <3>1, <4>1
    <3> DEFINE Good == m = L + 1 \/ \E n \in 1..4 : Character(s, m, n) /\ m + n \in V
    <3>4. PICK W : W = IF Good THEN V \cup {m} ELSE V
      OBVIOUS
    <3>5. V \subseteq m + 1..L + 1
      BY <1>1, <3>3 DEF Followed
    <3>6. m \notin V /\ m \in m..L + 1 /\ \A i \in m..L + 1 : i # m => i \in m + 1..L + 1
      BY <3>1, <3>5
    <3>7. \A i \in m..L + 1, n \in 1..4 : i + n # m
      BY <3>1
    <3>8. \A i \in m..L + 1, n \in 1..4 : i + n \in W <=> i + n \in V
      BY ONLY <3>4, <3>7
    <3>9. m \in W <=> Good
      BY ONLY <3>4, <3>6
    <3>10. ASSUME NEW i \in m..L + 1
           PROVE  i \in W <=> i = L + 1 \/ \E n \in 1..4 : Character(s, i, n) /\ i + n \in W
      <4>1. CASE i = m
        BY ONLY <3>8, <3>9, <4>1, i \in m..L + 1
      <4>2. CASE i # m
        <5>1. i \in W <=> i \in V
          BY ONLY <3>4, <4>2
        <5>2. i \in V <=> i = L + 1 \/ \E n \in 1..4 : Character(s, i, n) /\ i + n \in V
          BY <1>1, <3>3, <3>6, <4>2 DEF Followed
        <5> QED BY ONLY <3>8, <5>1, <5>2, i \in m..L + 1
      <4> QED BY <4>1, <4>2
    <3>11. W \subseteq m..L + 1
      BY <3>1, <3>4, <3>5, <3>6
    <3>12. Followed(s, m, W)
      BY ONLY <1>1, <3>10, <3>11 DEF Followed
    <3> QED BY ONLY <2>2, <2>3, <3>12
  <2> QED BY <2>4, <2>5
<1>3. L + 1 \in 0..L + 1 /\ L + 2 - (L + 1) = 1
  OBVIOUS
<1>4. \E V : Followed(s, L + 2 - (L + 1), V)
  BY <1>2, <1>3
<1> QED BY ONLY <1>3, <1>4

\* utf8_validate looks whether the first place is one of them.
LEMMA ValidIs ==
  ASSUME NEW s \in Seq(Byte)
  PROVE  \E V : Followed(s, 1, V) /\ (utf8_validate(s) <=> 1 \in V)
<1> DEFINE Def(f) == f = [i \in 1..Len(s) + 1 |->
                            \/ i = Len(s) + 1
                            \/ \E n \in 1..4 : Character(s, i, n) /\ f[i + n]]
           F == CHOOSE f : Def(f)
<1>1. utf8_validate(s) <=> F[1]
  BY DEF utf8_validate
<1>2. PICK L \in Nat : L = Len(s)
  OBVIOUS
<1>3. PICK V : Followed(s, 1, V)
  BY FollowedExists
<1>4. \A i \in 1..L + 1, n \in 1..4 : Character(s, i, n) => i + n \in 1..L + 1
  <2> TAKE i \in 1..L + 1, n \in 1..4
  <2>1. HAVE Character(s, i, n)
  <2>2. i + n \in i + 1..L + 1
    BY <1>2, <2>1, CharacterEnds
  <2> QED BY <2>2
<1>5. PICK g : g = [i \in 1..L + 1 |-> i \in V]
  OBVIOUS
<1>6. \A i \in 1..L + 1 : g[i] = (i \in V)
  BY <1>5
<1>7. \A i \in 1..L + 1 :
        (i \in V) = (i = L + 1 \/ \E n \in 1..4 : Character(s, i, n) /\ g[i + n])
  <2> TAKE i \in 1..L + 1
  <2>1. i \in V <=> i = L + 1 \/ \E n \in 1..4 : Character(s, i, n) /\ i + n \in V
    BY <1>2, <1>3 DEF Followed
  <2>2. \A n \in 1..4 : Character(s, i, n) => (g[i + n] <=> i + n \in V)
    BY ONLY <1>4, <1>6, i \in 1..L + 1
  <2>3. i \in V <=> (i = L + 1 \/ \E n \in 1..4 : Character(s, i, n) /\ g[i + n])
    BY ONLY <2>1, <2>2
  <2> QED BY ONLY <2>3
<1>8. g = [i \in 1..L + 1 |-> i = L + 1 \/ \E n \in 1..4 : Character(s, i, n) /\ g[i + n]]
  BY ONLY <1>5, <1>7
<1>9. Def(g)
  BY ONLY <1>2, <1>8
<1>10. Def(F)
  BY ONLY <1>9
<1> HIDE DEF F
<1>11. \A i \in 1..L + 1 : F[i] <=> i = L + 1 \/ \E n \in 1..4 : Character(s, i, n) /\ F[i + n]
  BY ONLY <1>2, <1>10
<1>12. PICK W : W = {i \in 1..L + 1 : F[i]}
  OBVIOUS
<1>13. \A i \in 1..L + 1 : i \in W <=> F[i]
  BY ONLY <1>12
<1>14. \A i \in 1..L + 1 : i \in W <=> i = L + 1 \/ \E n \in 1..4 : Character(s, i, n) /\ i + n \in W
  BY ONLY <1>4, <1>11, <1>13
<1>15. Followed(s, 1, W)
  BY ONLY <1>2, <1>12, <1>14 DEF Followed
<1>16. 1 \in W <=> F[1]
  <2>1. 1 \in 1..L + 1
    OBVIOUS
  <2> QED BY ONLY <1>13, <2>1
<1> QED BY ONLY <1>1, <1>15, <1>16

\* The bytes of a name are valid if no unit of it is a surrogate.
LEMMA ValidUnits ==
  ASSUME NEW v \in Seq(Unit)
  PROVE  utf8_validate(Encoded(v)) <=> \A k \in 1..Len(v) : v[k] \notin Surrogate
<1>1. PICK s : s = Encoded(v)
  OBVIOUS
<1>2. s \in Seq(Byte)
  BY <1>1, EncodedLaid
<1>3. PICK off : Laid(v, s, off)
  BY <1>1, EncodedLaid
<1>4. PICK n \in Nat : n = Len(v)
  OBVIOUS
<1>5. PICK L \in Nat : L = Len(s)
  BY <1>2
<1>6. PICK V : Followed(s, 1, V) /\ (utf8_validate(s) <=> 1 \in V)
  BY <1>2, ValidIs
<1>7. \A i \in 1..L + 1 : i \in V <=> i = L + 1 \/ \E x \in 1..4 : Character(s, i, x) /\ i + x \in V
  BY <1>5, <1>6 DEF Followed
<1>8. off[0] = 0 /\ off[n] = L
  BY <1>3, <1>4, <1>5 DEF Laid
<1>9. \A k \in 0..n : off[k] \in Nat /\ off[k] + 1 \in 1..L + 1
  BY <1>3, <1>4, <1>5, UnitAt
<1>10. \A k \in 1..n : off[k - 1] + 1 \in V <=> v[k] \notin Surrogate /\ off[k] + 1 \in V
  <2> TAKE k \in 1..n
  <2>1. PICK e : e = utf8_encode(v[k])
    OBVIOUS
  <2>2. v[k] \in Unit /\ k - 1 \in 0..n /\ k \in 0..n
    BY <1>4
  <2>3. PICK x, y : x = off[k - 1] /\ y = off[k]
    OBVIOUS
  <2>4. x \in Nat /\ y \in Nat /\ y + 1 \in 1..L + 1 /\ x + 1 \in 1..L + 1
    BY ONLY <1>9, <2>2, <2>3
  <2>5. y = x + Len(e) /\ Len(e) \in 1..3
    BY <1>3, <1>4, <2>1, <2>2, <2>3, EncodeTyped DEF Laid
  <2>6. Spells(s, x + 1, e)
    <3>1. Spells(s, off[k - 1] + 1, utf8_encode(v[k]))
      BY <1>3, <1>4, UnitAt
    <3> QED BY ONLY <2>1, <2>3, <3>1
  <2>7. ASSUME NEW z \in 1..4 PROVE Character(s, x + 1, z) <=> z = Len(e) /\ v[k] \notin Surrogate
    <3>1. x + 1 \in Nat
      BY <2>4
    <3> QED BY <2>1, <2>2, <2>6, <3>1, UnitCharacter
  <2>8. x + 1 # L + 1 /\ Len(e) \in 1..4 /\ (x + 1) + Len(e) = y + 1
    <3>1. PICK l : l = Len(e)
      OBVIOUS
    <3>2. l \in 1..3 /\ y = x + l
      BY ONLY <2>5, <3>1
    <3>3. x + 1 # L + 1 /\ l \in 1..4 /\ (x + 1) + l = y + 1
      BY ONLY <2>4, <3>2, L \in Nat
    <3> QED BY ONLY <3>1, <3>3
  <2>9. x + 1 \in V <=> x + 1 = L + 1 \/ \E z \in 1..4 : Character(s, x + 1, z) /\ (x + 1) + z \in V
    BY ONLY <1>7, <2>4
  <2>10. x + 1 \in V <=> v[k] \notin Surrogate /\ y + 1 \in V
    BY ONLY <2>7, <2>8, <2>9
  <2> QED BY ONLY <2>3, <2>10
<1>11. off[n] + 1 \in V
  <2>1. off[n] + 1 \in 1..L + 1
    BY <1>8
  <2> QED BY ONLY <1>7, <1>8, <2>1
<1> DEFINE Ends(k) == off[k] + 1 \in V <=> \A m \in k + 1..n : v[m] \notin Surrogate
           Bad == {x \in 0..n : ~Ends(n - x)}
<1>12. ASSUME Bad # {} PROVE FALSE
  <2>1. PICK x \in Bad : \A y \in Bad : x <= y
    <3>1. Bad \subseteq Nat
      OBVIOUS
    <3> HIDE DEF Bad
    <3> QED BY <1>12, <3>1, LeastNatural
  <2>2. x \in 0..n /\ ~Ends(n - x)
    OBVIOUS
  <2>3. CASE x = 0
    <3>1. n - x = n /\ n + 1..n = {}
      BY <2>3
    <3>2. Ends(n)
      BY ONLY <1>11, <3>1
    <3> QED BY ONLY <2>2, <3>1, <3>2
  <2>4. CASE x # 0
    <3>1. x - 1 \in 0..n /\ ~(x <= x - 1)
      BY <2>2, <2>4
    <3>2. x - 1 \notin Bad
      <4> HIDE DEF Bad
      <4> QED BY ONLY <2>1, <3>1
    <3>3. PICK k : k = n - (x - 1)
      OBVIOUS
    <3>4. k \in 1..n /\ n - x = k - 1 /\ (k - 1) + 1 = k
      BY <2>2, <2>4, <3>3
    <3>5. Ends(k)
      BY ONLY <3>1, <3>2, <3>3
    <3>6. k \in k..n /\ \A m \in k..n : m = k \/ m \in k + 1..n
      BY <3>4
    <3>7. k + 1..n \subseteq k..n
      BY <3>4
    <3>8. off[k - 1] + 1 \in V <=> v[k] \notin Surrogate /\ off[k] + 1 \in V
      BY ONLY <1>10, <3>4
    <3>9. off[k - 1] + 1 \in V <=> \A m \in k..n : v[m] \notin Surrogate
      BY ONLY <3>5, <3>6, <3>7, <3>8
    <3>10. Ends(k - 1)
      BY ONLY <3>4, <3>9
    <3> QED BY ONLY <2>2, <3>4, <3>10
  <2> QED BY <2>3, <2>4
<1>13. Ends(0)
  <2>1. n \in 0..n /\ n - n = 0
    OBVIOUS
  <2> QED BY ONLY <1>12, <2>1
<1>14. off[0] + 1 = 1 /\ 0 + 1 = 1
  BY <1>8
<1> QED BY ONLY <1>1, <1>4, <1>6, <1>13, <1>14

-----------------------------------------------------------------------------
(* Names: sanitize_name.                                                     *)

\* A unit or a byte after the forbidden ones became '_'.
Swap(u)    == IF is_forbidden_ascii(u) THEN Under ELSE u
Swapped(v) == [i \in DOMAIN v |-> Swap(v[i])]

\* A unit, its bytes and a character of seven bits.
LEMMA ByteUnit ==
  ASSUME NEW u \in Unit, NEW c \in 0..127
  PROVE  /\ u = c => Len(utf8_encode(u)) = 1
         /\ \A j \in 1..Len(utf8_encode(u)) : utf8_encode(u)[j] = c <=> u = c
<1>1. PICK e : e = utf8_encode(u)
  OBVIOUS
<1>2. CASE u < 128
  <2>1. e = <<u>>
    BY <1>1, <1>2, EncodeOne
  <2>2. Len(e) = 1 /\ \A j \in 1..1 : e[j] = u
    BY ONLY <2>1
  <2> QED BY ONLY <1>1, <2>2
<1>3. CASE ~(u < 128)
  <2>1. u # c
    BY <1>3
  <2>2. \A j \in 1..Len(e) : ~(e[j] < 128)
    BY <1>1, <1>3, EncodeTyped
  <2>3. \A j \in 1..Len(e) : e[j] # c
    BY <2>2
  <2> QED BY ONLY <1>1, <2>1, <2>3
<1> QED BY <1>2, <1>3

\* No unit and no byte above 127 is forbidden; a dot and a space are not, '_' is
\* not, so that what is left is not.
LEMMA SwapIs ==
  ASSUME NEW u \in Nat
  PROVE  /\ ~(u < 128) => Swap(u) = u
         /\ Swap(u) \in Nat /\ (u >= 1 => Swap(u) >= 1) /\ (u < 128 => Swap(u) < 128)
         /\ (Swap(u) = Dot <=> u = Dot) /\ (Swap(u) = Space <=> u = Space)
         /\ ~is_forbidden_ascii(Swap(u))
         /\ Swap(u) \in {u, Under}
<1>1. CASE is_forbidden_ascii(u)
  <2>1. Swap(u) = 95
    BY <1>1 DEF Swap, Under
  <2>2. u < 128 /\ u # 46 /\ u # 32
    BY <1>1 DEF is_forbidden_ascii
  <2>3. ~is_forbidden_ascii(95)
    BY DEF is_forbidden_ascii
  <2> QED BY <2>1, <2>2, <2>3 DEF Dot, Space, Under
<1>2. CASE ~is_forbidden_ascii(u)
  <2>1. Swap(u) = u
    BY <1>2 DEF Swap
  <2> QED BY <1>2, <2>1
<1> QED BY <1>1, <1>2

\* Forbidden bytes become '_' as forbidden units do.
LEMMA SwapUnit ==
  ASSUME NEW u \in Unit
  PROVE  /\ Swap(u) \in Unit /\ Len(utf8_encode(Swap(u))) = Len(utf8_encode(u))
         /\ \A j \in 1..Len(utf8_encode(u)) : utf8_encode(Swap(u))[j] = Swap(utf8_encode(u)[j])
<1>1. u \in Nat /\ u >= 1 /\ u <= 65535
  BY UnitIs
<1>2. PICK t : t = Swap(u)
  OBVIOUS
<1>3. CASE u < 128
  <2>1. t \in Nat /\ t >= 1 /\ t < 128
    BY <1>1, <1>2, <1>3, SwapIs
  <2>2. t \in Unit
    BY ONLY <2>1 DEF Unit
  <2>3. utf8_encode(u) = <<u>> /\ utf8_encode(t) = <<t>>
    BY <1>3, <2>1, <2>2, EncodeOne
  <2>4. Len(<<u>>) = 1 /\ Len(<<t>>) = 1 /\ \A j \in 1..1 : <<u>>[j] = u /\ <<t>>[j] = t
    OBVIOUS
  <2> QED BY ONLY <1>2, <2>2, <2>3, <2>4
<1>4. CASE ~(u < 128)
  <2>1. t = u
    BY <1>1, <1>2, <1>4, SwapIs
  <2>2. PICK e : e = utf8_encode(u)
    OBVIOUS
  <2>3. \A j \in 1..Len(e) : ~(e[j] < 128) /\ e[j] \in Nat
    <3>1. e \in Seq(Byte) /\ \A j \in 1..Len(e) : ~(e[j] < 128)
      BY <1>4, <2>2, EncodeTyped
    <3>2. \A j \in 1..Len(e) : e[j] \in Byte
      BY ONLY <3>1
    <3>3. \A b \in Byte : b \in Nat
      BY DEF Byte
    <3> QED BY ONLY <3>1, <3>2, <3>3
  <2>4. \A j \in 1..Len(e) : Swap(e[j]) = e[j]
    BY ONLY <2>3, SwapIs
  <2> QED BY ONLY <1>2, <2>1, <2>2, <2>4, u \in Unit
<1> QED BY <1>3, <1>4

\* So the bytes of a name with '_' are laid out as the name with '_'.
LEMMA SwapLaid ==
  ASSUME NEW v, NEW s, NEW off, Laid(v, s, off)
  PROVE  /\ Laid(Swapped(v), Swapped(s), off) /\ Len(Swapped(v)) = Len(v) /\ Len(Swapped(s)) = Len(s)
         /\ \A k \in 1..Len(v) : Swapped(v)[k] = Swap(v[k]) /\ v[k] \in Unit /\ v[k] \in Nat
         /\ \A i \in 1..Len(s) : Swapped(s)[i] = Swap(s[i]) /\ s[i] \in Byte /\ s[i] \in Nat
<1>1. PICK n, l \in Nat : n = Len(v) /\ l = Len(s)
  BY PlacesUp
<1>2. v \in Seq(Unit) /\ s \in Seq(Byte)
  BY DEF Laid
<1>3. PICK w, m : w = Swapped(v) /\ m = Swapped(s)
  OBVIOUS
<1>4. \A k \in 1..n : v[k] \in Unit /\ v[k] \in Nat
  <2>1. \A k \in 1..n : v[k] \in Unit
    BY <1>1, <1>2
  <2> QED BY <2>1, UnitIs
<1>5. \A i \in 1..l : s[i] \in Byte /\ s[i] \in Nat /\ s[i] >= 1 /\ s[i] <= 255
  <2>1. \A i \in 1..l : s[i] \in Byte
    BY <1>1, <1>2
  <2>2. \A b \in Byte : b \in Nat /\ b >= 1 /\ b <= 255
    BY DEF Byte
  <2> QED BY ONLY <2>1, <2>2
<1>6. w = [k \in 1..n |-> Swap(v[k])] /\ m = [i \in 1..l |-> Swap(s[i])]
  BY <1>1, <1>2, <1>3 DEF Swapped
<1>7. \A b \in Byte : Swap(b) \in Byte
  <2> TAKE b \in Byte
  <2>1. b \in Nat /\ b >= 1 /\ b <= 255
    BY DEF Byte
  <2>2. Swap(b) \in {b, Under} /\ Under \in Byte
    BY <2>1, SwapIs DEF Under, Byte
  <2> QED BY <2>2
<1>8. w \in Seq(Unit) /\ Len(w) = n /\ \A k \in 1..n : w[k] = Swap(v[k])
  <2>1. \A k \in 1..n : Swap(v[k]) \in Unit
    BY ONLY <1>4, SwapUnit
  <2> QED BY ONLY <1>6, <2>1, n \in Nat
<1>9. m \in Seq(Byte) /\ Len(m) = l /\ \A i \in 1..l : m[i] = Swap(s[i])
  <2>1. \A i \in 1..l : Swap(s[i]) \in Byte
    BY ONLY <1>5, <1>7
  <2> QED BY ONLY <1>6, <2>1, l \in Nat
<1>10. off \in [0..n -> Nat] /\ off[0] = 0 /\ off[n] = l
  BY <1>1 DEF Laid
<1>11. ASSUME NEW k \in 1..n
       PROVE  /\ off[k] = off[k - 1] + Len(utf8_encode(w[k]))
              /\ \A j \in 1..Len(utf8_encode(w[k])) : m[off[k - 1] + j] = utf8_encode(w[k])[j]
  <2>1. PICK e, f : e = utf8_encode(v[k]) /\ f = utf8_encode(w[k])
    OBVIOUS
  <2>2. Len(f) = Len(e) /\ \A j \in 1..Len(e) : f[j] = Swap(e[j])
    BY ONLY <1>4, <1>8, <2>1, SwapUnit, k \in 1..n
  <2>3. off[k] = off[k - 1] + Len(e) /\ \A j \in 1..Len(e) : s[off[k - 1] + j] = e[j]
    BY <1>1, <2>1 DEF Laid
  <2>4. \A j \in 1..Len(e) : off[k - 1] + j \in 1..l
    <3>1. PICK x, y, q : x = off[k - 1] /\ y = off[k] /\ q = Len(e)
      OBVIOUS
    <3>2. x \in Nat /\ y = x + q
      <4>1. k - 1 \in 0..n
        OBVIOUS
      <4> QED BY <1>10, <2>3, <3>1, <4>1
    <3>3. q \in Nat
      BY <1>4, <2>1, <3>1, EncodeTyped
    <3>4. y + 1 \in 1..l + 1
      <4>1. k \in 0..n
        OBVIOUS
      <4> QED BY <1>1, <3>1, <4>1, UnitAt
    <3>5. \A j \in 1..q : x + j \in 1..l
      BY ONLY <3>2, <3>3, <3>4, l \in Nat
    <3> QED BY ONLY <3>1, <3>5
  <2> QED BY ONLY <1>9, <2>1, <2>2, <2>3, <2>4
<1>12. Laid(w, m, off)
  BY ONLY <1>8, <1>9, <1>10, <1>11 DEF Laid
<1> QED BY ONLY <1>1, <1>3, <1>4, <1>5, <1>8, <1>9, <1>12

\* A clean name: sanitize_name has nothing to do.
Clean(c) ==
  /\ c \in Seq(Unit) /\ Len(c) >= 1 /\ ~TwoDots(Encoded(c))
  /\ \A k \in 1..Len(c) : c[k] \notin Surrogate /\ ~is_forbidden_ascii(c[k])
  /\ c[1] # Space /\ c[Len(c)] \notin {Dot, Space}

\* What sanitize_name gives when it does not refuse.
Stripped(s) ==
  SubSeq(Swapped(s), Min({i \in DOMAIN s : Swapped(s)[i] # Space}),
         Max({i \in DOMAIN s : Swapped(s)[i] \notin {Dot, Space}}))

\* When it refuses.
LEMMA Refuses ==
  ASSUME NEW s \in Seq(Byte)
  PROVE  sanitize_name(s) =
           IF TwoDots(s) \/ ~utf8_validate(s) \/ \A i \in 1..Len(s) : Swapped(s)[i] \in {Dot, Space}
           THEN NoName ELSE Stripped(s)
<1>1. Swapped(s) = [i \in DOMAIN s |-> IF is_forbidden_ascii(s[i]) THEN Under ELSE s[i]]
  BY DEF Swapped, Swap
<1>2. PICK m : m = Swapped(s)
  OBVIOUS
<1>3. PICK S : S = {i \in DOMAIN s : m[i] \notin {Dot, Space}}
  OBVIOUS
<1>4. sanitize_name(s) =
        IF TwoDots(s) \/ ~utf8_validate(s) \/ S = {}
        THEN NoName ELSE SubSeq(m, Min({i \in DOMAIN s : m[i] # Space}), Max(S))
  BY ONLY <1>1, <1>2, <1>3 DEF sanitize_name
<1>5. S = {} <=> \A i \in 1..Len(s) : m[i] \in {Dot, Space}
  <2>1. DOMAIN s = 1..Len(s)
    OBVIOUS
  <2> QED BY ONLY <1>3, <2>1
<1> QED BY ONLY <1>2, <1>3, <1>4, <1>5 DEF Stripped

\* It begins at the first byte that is no space, with all of a unit: everything
\* before is spaces.
LEMMA StripsFront ==
  ASSUME NEW w, NEW m, NEW off, Laid(w, m, off),
         NEW a \in 1..Len(m), m[a] # Space, \A x \in 1..Len(m) : x < a => m[x] = Space
  PROVE  \E k \in 1..Len(w) : /\ a = off[k - 1] + 1 /\ w[k] # Space
                              /\ \A x \in 1..k - 1 : w[x] = Space
<1>1. PICK n, l \in Nat : n = Len(w) /\ l = Len(m)
  BY PlacesUp
<1>2. Space \in 0..127 /\ \A x \in 1..n : w[x] \in Unit
  BY <1>1, PlacesUp DEF Space
<1>3. PICK k \in 1..n : ByteOf(w, m, off, a, k)
  <2>1. \A x \in 1..Len(m) : \E k \in 1..Len(w) : ByteOf(w, m, off, x, k)
    BY PlaceOf
  <2> QED BY ONLY <1>1, <2>1, a \in 1..Len(m)
<1>4. PICK j \in 1..Len(utf8_encode(w[k])) : a = off[k - 1] + j /\ m[a] = utf8_encode(w[k])[j]
  BY <1>3 DEF ByteOf
<1>5. \A x \in 1..n : /\ off[x - 1] \in Nat /\ off[x] \in Nat
                      /\ m[off[x - 1] + 1] = utf8_encode(w[x])[1]
                      /\ 1 \in 1..Len(utf8_encode(w[x])) /\ off[x - 1] + 1 \in 1..l
                      /\ off[x - 1] + 1 <= off[x]
  <2> TAKE x \in 1..n
  <2>1. off[x - 1] \in Nat /\ off[x] \in Nat /\ Len(utf8_encode(w[x])) \in 1..3 /\ off[x - 1] < off[x]
    BY <1>1, PlacesUp
  <2>2. off[x] + 1 \in 1..l + 1
    BY <1>1, UnitAt
  <2>3. m[off[x - 1] + 1] = utf8_encode(w[x])[1]
    BY <1>1, <2>1 DEF Laid
  <2>4. PICK y, z, q : y = off[x - 1] /\ z = off[x] /\ q = Len(utf8_encode(w[x]))
    OBVIOUS
  <2>5. 1 \in 1..q /\ y + 1 \in 1..l /\ y + 1 <= z
    <3>1. y \in Nat /\ z \in Nat /\ q \in 1..3 /\ y < z /\ z + 1 \in 1..l + 1
      BY ONLY <2>1, <2>2, <2>4
    <3> QED BY ONLY <3>1, l \in Nat
  <2> QED BY ONLY <2>1, <2>3, <2>4, <2>5
<1>6. w[k] # Space
  <2>1. w[k] \in Unit /\ j \in 1..Len(utf8_encode(w[k])) /\ utf8_encode(w[k])[j] # Space
    BY ONLY <1>2, <1>4, m[a] # Space, k \in 1..n, j \in 1..Len(utf8_encode(w[k]))
  <2>2. \A i \in 1..Len(utf8_encode(w[k])) : utf8_encode(w[k])[i] = Space <=> w[k] = Space
    <3>1. w[k] \in Unit /\ Space \in 0..127
      BY ONLY <1>2, <2>1
    <3> QED BY ONLY <3>1, ByteUnit
  <2> QED BY ONLY <2>1, <2>2
<1>7. ASSUME NEW x \in 1..n, off[x - 1] + 1 < a PROVE w[x] = Space
  <2>1. m[off[x - 1] + 1] = Space
    BY <1>1, <1>5, <1>7
  <2>2. w[x] \in Unit /\ 1 \in 1..Len(utf8_encode(w[x])) /\ utf8_encode(w[x])[1] = Space
    BY ONLY <1>2, <1>5, <2>1, x \in 1..n
  <2>3. \A i \in 1..Len(utf8_encode(w[x])) : utf8_encode(w[x])[i] = Space <=> w[x] = Space
    <3>1. w[x] \in Unit /\ Space \in 0..127
      BY ONLY <1>2, <2>2
    <3> QED BY ONLY <3>1, ByteUnit
  <2> QED BY ONLY <2>2, <2>3
<1>8. a = off[k - 1] + 1
  <2>1. off[k - 1] \in Nat /\ j \in Nat /\ 1 <= j
    <3>1. Len(utf8_encode(w[k])) \in 1..3
      BY <1>1, PlacesUp
    <3> QED BY <1>5, <3>1
  <2>2. ~(off[k - 1] + 1 < a)
    BY ONLY <1>6, <1>7, k \in 1..n
  <2>3. PICK y : y = off[k - 1]
    OBVIOUS
  <2> QED BY ONLY <1>4, <2>1, <2>2, <2>3
<1>9. ASSUME NEW x \in 1..k - 1 PROVE w[x] = Space
  <2>1. x \in 1..n /\ x \in 0..n /\ k - 1 \in x..n
    OBVIOUS
  <2>2. off[x] + ((k - 1) - x) <= off[k - 1]
    BY <1>1, <2>1, PlacesFar
  <2>3. PICK y, z, t : y = off[x - 1] /\ z = off[x] /\ t = off[k - 1]
    OBVIOUS
  <2>4. y + 1 <= z /\ y \in Nat /\ z \in Nat /\ t \in Nat /\ z + ((k - 1) - x) <= t
    BY ONLY <1>5, <2>1, <2>2, <2>3, k \in 1..n
  <2>5. y + 1 < t + 1
    BY ONLY <2>4, x \in 1..k - 1, k \in 1..n
  <2> QED BY ONLY <1>7, <1>8, <2>1, <2>3, <2>5
<1> QED BY ONLY <1>1, <1>6, <1>8, <1>9, k \in 1..n

\* It ends with the last byte that is neither a dot nor a space, and all of a
\* unit: everything behind is one.
LEMMA StripsBack ==
  ASSUME NEW w, NEW m, NEW off, Laid(w, m, off),
         NEW b \in 1..Len(m), m[b] \notin {Dot, Space},
         \A x \in 1..Len(m) : b < x => m[x] \in {Dot, Space}
  PROVE  \E k \in 1..Len(w) : /\ b = off[k] /\ w[k] \notin {Dot, Space}
                              /\ \A x \in k + 1..Len(w) : w[x] \in {Dot, Space}
<1>1. PICK n, l \in Nat : n = Len(w) /\ l = Len(m)
  BY PlacesUp
<1>2. {Dot, Space} \subseteq 0..127 /\ \A x \in 1..n : w[x] \in Unit
  BY <1>1, PlacesUp DEF Dot, Space
<1>3. PICK k \in 1..n : ByteOf(w, m, off, b, k)
  <2>1. \A x \in 1..Len(m) : \E k \in 1..Len(w) : ByteOf(w, m, off, x, k)
    BY PlaceOf
  <2> QED BY ONLY <1>1, <2>1, b \in 1..Len(m)
<1>4. PICK j \in 1..Len(utf8_encode(w[k])) : b = off[k - 1] + j /\ m[b] = utf8_encode(w[k])[j]
  BY <1>3 DEF ByteOf
<1>5. \A x \in 1..n : /\ off[x - 1] \in Nat /\ off[x] \in Nat
                      /\ m[off[x]] = utf8_encode(w[x])[Len(utf8_encode(w[x]))]
                      /\ Len(utf8_encode(w[x])) \in 1..Len(utf8_encode(w[x])) /\ off[x] \in 1..l
                      /\ off[x] = off[x - 1] + Len(utf8_encode(w[x]))
                      /\ Len(utf8_encode(w[x])) \in 1..3
  <2> TAKE x \in 1..n
  <2>1. off[x - 1] \in Nat /\ off[x] \in Nat /\ Len(utf8_encode(w[x])) \in 1..3
        /\ off[x] = off[x - 1] + Len(utf8_encode(w[x]))
    <3>1. off[x - 1] \in Nat /\ off[x] \in Nat /\ Len(utf8_encode(w[x])) \in 1..3
      BY <1>1, PlacesUp
    <3>2. off[x] = off[x - 1] + Len(utf8_encode(w[x]))
      BY <1>1 DEF Laid
    <3> QED BY ONLY <3>1, <3>2
  <2>2. off[x] + 1 \in 1..l + 1
    BY <1>1, UnitAt
  <2>3. PICK q : q = Len(utf8_encode(w[x]))
    OBVIOUS
  <2>4. q \in 1..3 /\ q \in 1..q
    <3>1. q \in 1..3
      BY ONLY <2>1, <2>3
    <3> QED BY ONLY <3>1
  <2>5. m[off[x - 1] + q] = utf8_encode(w[x])[q]
    BY <1>1, <2>3, <2>4 DEF Laid
  <2>6. PICK y, z : y = off[x - 1] /\ z = off[x]
    OBVIOUS
  <2>7. y \in Nat /\ z = y + q /\ z + 1 \in 1..l + 1
    BY ONLY <2>1, <2>2, <2>3, <2>6
  <2>8. z \in 1..l
    BY ONLY <2>4, <2>7, l \in Nat
  <2> QED BY ONLY <2>1, <2>3, <2>4, <2>5, <2>6, <2>7, <2>8
<1>6. w[k] \notin {Dot, Space}
  <2>1. w[k] \in Unit /\ j \in 1..Len(utf8_encode(w[k])) /\ utf8_encode(w[k])[j] \notin {Dot, Space}
    BY ONLY <1>2, <1>4, m[b] \notin {Dot, Space}, k \in 1..n, j \in 1..Len(utf8_encode(w[k]))
  <2> QED BY ONLY <1>2, <2>1, ByteUnit
<1>7. ASSUME NEW x \in 1..n, b < off[x] PROVE w[x] \in {Dot, Space}
  <2>1. m[off[x]] \in {Dot, Space}
    BY <1>1, <1>5, <1>7
  <2>2. PICK q : q = Len(utf8_encode(w[x]))
    OBVIOUS
  <2>3. /\ w[x] \in Unit /\ q \in 1..Len(utf8_encode(w[x]))
        /\ utf8_encode(w[x])[q] \in {Dot, Space}
    BY ONLY <1>2, <1>5, <2>1, <2>2, x \in 1..n
  <2> QED BY ONLY <1>2, <2>3, ByteUnit
<1>8. b = off[k]
  <2>1. PICK y, z, q : y = off[k - 1] /\ z = off[k] /\ q = Len(utf8_encode(w[k]))
    OBVIOUS
  <2>2. y \in Nat /\ z = y + q /\ q \in 1..3 /\ j \in 1..q /\ b = y + j
    BY ONLY <1>4, <1>5, <2>1, k \in 1..n, j \in 1..Len(utf8_encode(w[k]))
  <2>3. ~(b < z)
    BY ONLY <1>6, <1>7, <2>1, k \in 1..n
  <2>4. b = z
    BY ONLY <2>2, <2>3
  <2> QED BY ONLY <2>1, <2>4
<1>9. ASSUME NEW x \in k + 1..n PROVE w[x] \in {Dot, Space}
  <2>1. x \in 1..n /\ x \in k..n /\ k \in 0..n
    OBVIOUS
  <2>2. off[k] + (x - k) <= off[x]
    BY <1>1, <2>1, PlacesFar
  <2>3. PICK y, z : y = off[k] /\ z = off[x]
    OBVIOUS
  <2>4. y \in Nat /\ z \in Nat /\ y + (x - k) <= z
    BY ONLY <1>5, <2>1, <2>2, <2>3, k \in 1..n
  <2>5. y < z
    BY ONLY <2>4, x \in k + 1..n, k \in 1..n
  <2> QED BY ONLY <1>7, <1>8, <2>1, <2>3, <2>5
<1> QED BY ONLY <1>1, <1>6, <1>8, <1>9, k \in 1..n

\* Which bytes are stripped.
LEMMA StrippedIs ==
  ASSUME NEW s \in Seq(Byte), NEW m, m = Swapped(s), NEW i \in 1..Len(s), m[i] \notin {Dot, Space}
  PROVE  \E a, b \in 1..Len(s) :
           /\ a <= b /\ Stripped(s) = SubSeq(m, a, b)
           /\ m[a] # Space /\ \A x \in 1..Len(s) : x < a => m[x] = Space
           /\ m[b] \notin {Dot, Space} /\ \A x \in 1..Len(s) : b < x => m[x] \in {Dot, Space}
<1>1. PICK l \in Nat : l = Len(s)
  OBVIOUS
<1>2. DOMAIN s = 1..l
  BY <1>1
<1>3. PICK A : A = {x \in DOMAIN s : m[x] # Space}
  OBVIOUS
<1>4. PICK B : B = {x \in DOMAIN s : m[x] \notin {Dot, Space}}
  OBVIOUS
<1>5. i \in A /\ i \in B
  BY ONLY <1>1, <1>2, <1>3, <1>4, i \in 1..Len(s), m[i] \notin {Dot, Space}
<1>6. PICK a : a = Min(A)
  OBVIOUS
<1>7. PICK b : b = Max(B)
  OBVIOUS
<1>8. A \subseteq 1..l /\ B \subseteq 1..l /\ B \subseteq A
  BY ONLY <1>2, <1>3, <1>4
<1>9. a \in A /\ \A y \in A : a <= y
  <2>1. A \subseteq Nat /\ A # {}
    BY ONLY <1>5, <1>8
  <2> QED BY ONLY <1>6, <2>1, LeastNatural
<1>10. b \in B /\ \A y \in B : y <= b
  <2>1. B \subseteq 0..l /\ B # {}
    BY ONLY <1>5, <1>8
  <2> QED BY ONLY <1>1, <1>7, <2>1, l \in Nat, GreatestNatural
<1>11. a \in 1..l /\ b \in 1..l /\ a <= b
  BY ONLY <1>8, <1>9, <1>10
<1>12. m[a] # Space /\ m[b] \notin {Dot, Space}
  BY ONLY <1>3, <1>4, <1>9, <1>10
<1>13. ASSUME NEW x \in 1..l, x < a PROVE m[x] = Space
  <2>1. x \notin A
    <3>1. ~(a <= x)
      BY <1>11, <1>13
    <3> QED BY ONLY <1>9, <3>1
  <2> QED BY ONLY <1>2, <1>3, <2>1, x \in 1..l
<1>14. ASSUME NEW x \in 1..l, b < x PROVE m[x] \in {Dot, Space}
  <2>1. x \notin B
    <3>1. ~(x <= b)
      BY <1>11, <1>14
    <3> QED BY ONLY <1>10, <3>1
  <2> QED BY ONLY <1>2, <1>4, <2>1, x \in 1..l
<1>15. Stripped(s) = SubSeq(m, a, b)
  BY ONLY <1>3, <1>4, <1>6, <1>7, m = Swapped(s) DEF Stripped
<1> QED BY ONLY <1>1, <1>11, <1>12, <1>13, <1>14, <1>15

\* A name that is not refused is cleaned, and then it is clean.
LEMMA SanitizeIs ==
  ASSUME NEW v \in Seq(Unit), ~TwoDots(Encoded(v)), \A k \in 1..Len(v) : v[k] \notin Surrogate,
         NEW y \in 1..Len(Encoded(v)), Swapped(Encoded(v))[y] \notin {Dot, Space}
  PROVE  \E c : /\ Cleaned(v, c) /\ Clean(c) /\ Stripped(Encoded(v)) = Encoded(c)
                /\ Len(c) <= Len(v) /\ Len(Encoded(c)) <= Len(Encoded(v))
<1>1. PICK s : s = Encoded(v)
  OBVIOUS
<1>2. s \in Seq(Byte)
  BY <1>1, EncodedLaid
<1>3. PICK off : Laid(v, s, off)
  BY <1>1, EncodedLaid
<1>4. PICK n \in Nat : n = Len(v)
  OBVIOUS
<1>5. PICK l \in Nat : l = Len(s)
  BY <1>2
<1>6. PICK w : w = Swapped(v)
  OBVIOUS
<1>7. PICK m : m = Swapped(s)
  OBVIOUS
<1>8. /\ Laid(w, m, off) /\ Len(w) = n /\ Len(m) = l
      /\ \A k \in 1..n : w[k] = Swap(v[k]) /\ v[k] \in Unit /\ v[k] \in Nat
      /\ \A i \in 1..l : m[i] = Swap(s[i]) /\ s[i] \in Nat
  BY <1>3, <1>4, <1>5, <1>6, <1>7, SwapLaid
<1>9. PICK a, b \in 1..l :
        /\ a <= b /\ Stripped(s) = SubSeq(m, a, b)
        /\ m[a] # Space /\ \A x \in 1..l : x < a => m[x] = Space
        /\ m[b] \notin {Dot, Space} /\ \A x \in 1..l : b < x => m[x] \in {Dot, Space}
  <2>1. y \in 1..l /\ m[y] \notin {Dot, Space}
    BY <1>1, <1>5, <1>7
  <2>2. y \in 1..Len(s)
    BY ONLY <1>5, <2>1
  <2>3. \E a, b \in 1..Len(s) :
          /\ a <= b /\ Stripped(s) = SubSeq(m, a, b)
          /\ m[a] # Space /\ \A x \in 1..Len(s) : x < a => m[x] = Space
          /\ m[b] \notin {Dot, Space} /\ \A x \in 1..Len(s) : b < x => m[x] \in {Dot, Space}
    BY ONLY <1>2, <1>7, <2>1, <2>2, StrippedIs
  <2> QED BY ONLY <1>5, <2>3
<1>10. PICK i \in 1..n : /\ a = off[i - 1] + 1 /\ w[i] # Space
                         /\ \A x \in 1..i - 1 : w[x] = Space
  <2>1. \E i \in 1..Len(w) : /\ a = off[i - 1] + 1 /\ w[i] # Space
                             /\ \A x \in 1..i - 1 : w[x] = Space
    <3>1. /\ Laid(w, m, off) /\ a \in 1..Len(m) /\ m[a] # Space
          /\ \A x \in 1..Len(m) : x < a => m[x] = Space
      BY ONLY <1>8, <1>9, a \in 1..l
    <3> QED BY ONLY <3>1, StripsFront
  <2> QED BY ONLY <1>8, <2>1
<1>11. PICK j \in 1..n : /\ b = off[j] /\ w[j] \notin {Dot, Space}
                         /\ \A x \in j + 1..n : w[x] \in {Dot, Space}
  <2>1. \E j \in 1..Len(w) : /\ b = off[j] /\ w[j] \notin {Dot, Space}
                             /\ \A x \in j + 1..Len(w) : w[x] \in {Dot, Space}
    <3>1. /\ Laid(w, m, off) /\ b \in 1..Len(m) /\ m[b] \notin {Dot, Space}
          /\ \A x \in 1..Len(m) : b < x => m[x] \in {Dot, Space}
      BY ONLY <1>8, <1>9, b \in 1..l
    <3> QED BY ONLY <3>1, StripsBack
  <2> QED BY ONLY <1>8, <2>1
<1>12. i <= j
  <2>1. ASSUME ~(i <= j) PROVE FALSE
    <3>1. j \in 0..n /\ i - 1 \in j..n
      BY <2>1
    <3>2. off[j] + ((i - 1) - j) <= off[i - 1] /\ off[j] \in Nat /\ off[i - 1] \in Nat
      <4>1. off[j] + ((i - 1) - j) <= off[i - 1]
        BY <1>4, <1>3, <3>1, PlacesFar
      <4>2. off[j] \in Nat /\ off[i - 1] \in Nat
        BY <1>3, <1>4, PlacesUp
      <4> QED BY <4>1, <4>2
    <3>3. PICK p, q : p = off[j] /\ q = off[i - 1]
      OBVIOUS
    <3>4. p \in Nat /\ q \in Nat /\ p + ((i - 1) - j) <= q /\ b = p /\ a = q + 1 /\ a <= b
      BY ONLY <1>9, <1>10, <1>11, <3>2, <3>3
    <3> QED BY ONLY <2>1, <3>1, <3>4, i \in 1..n, j \in 1..n, n \in Nat
  <2> QED BY <2>1
<1>13. PICK c : c = SubSeq(w, i, j)
  OBVIOUS
<1>14. PICK p \in 1..n : p = j - i + 1
  BY <1>12
<1>15. /\ c \in Seq(Unit) /\ Len(c) = p /\ \A k \in 1..p : c[k] = w[i + k - 1]
       /\ Stripped(s) = Encoded(c)
  <2>1. i \in 1..Len(w) /\ j \in i..Len(w)
    BY <1>8, <1>12
  <2>2. /\ SubSeq(w, i, j) \in Seq(Unit) /\ Len(SubSeq(w, i, j)) = j - i + 1
        /\ \A k \in 1..j - i + 1 : SubSeq(w, i, j)[k] = w[i + k - 1]
        /\ SubSeq(m, off[i - 1] + 1, off[j]) = Encoded(SubSeq(w, i, j))
    <3>1. Laid(w, m, off)
      BY ONLY <1>8
    <3>2. Part(w, m, off, i, j)
      BY ONLY <2>1, <3>1, SubLaid
    <3> QED BY ONLY <3>2 DEF Part
  <2> QED BY ONLY <1>9, <1>10, <1>11, <1>13, <1>14, <2>2
<1>16. \A k \in 1..p : i + k - 1 \in 1..n
  BY <1>12, <1>14
<1>17. \A k \in 1..n : /\ w[k] = Space <=> v[k] = Space
                       /\ w[k] \in {Dot, Space} <=> v[k] \in {Dot, Space}
                       /\ ~is_forbidden_ascii(w[k]) /\ w[k] \notin Surrogate
  <2> TAKE k \in 1..n
  <2>1. w[k] = Swap(v[k]) /\ v[k] \in Nat /\ v[k] \notin Surrogate
    BY <1>4, <1>8
  <2>2. /\ (Swap(v[k]) = Dot <=> v[k] = Dot) /\ (Swap(v[k]) = Space <=> v[k] = Space)
        /\ ~is_forbidden_ascii(Swap(v[k])) /\ Swap(v[k]) \in {v[k], Under}
    BY ONLY <2>1, SwapIs
  <2>3. Under \notin Surrogate
    BY DEF Under, Surrogate
  <2> QED BY ONLY <2>1, <2>2, <2>3
<1>18. Cleaned(v, c)
  <2>1. DOMAIN v = 1..n
    BY <1>4
  <2>2. c = [k \in 1..j - i + 1 |-> IF is_forbidden_ascii(v[i + k - 1]) THEN Under ELSE v[i + k - 1]]
    <3>1. c = [k \in 1..p |-> c[k]]
      BY ONLY <1>15
    <3>2. \A k \in 1..p : c[k] = Swap(v[i + k - 1])
      BY ONLY <1>8, <1>15, <1>16
    <3> QED BY ONLY <1>14, <3>1, <3>2 DEF Swap
  <2>3. \A k \in 1..i - 1 : v[k] = Space
    <3>1. \A k \in 1..i - 1 : k \in 1..n
      OBVIOUS
    <3> QED BY ONLY <1>10, <1>17, <3>1
  <2>4. \A k \in j + 1..n : v[k] \in {Dot, Space}
    <3>1. \A k \in j + 1..n : k \in 1..n
      OBVIOUS
    <3> QED BY ONLY <1>11, <1>17, <3>1
  <2>5. v[i] # Space /\ v[j] \notin {Dot, Space}
    BY ONLY <1>10, <1>11, <1>17, i \in 1..n, j \in 1..n
  <2> QED BY ONLY <1>4, <1>12, <2>1, <2>2, <2>3, <2>4, <2>5, i \in 1..n, j \in 1..n DEF Cleaned
<1>19. PICK r : r = Encoded(c)
  OBVIOUS
<1>20. PICK q \in Nat : q = b - a + 1 /\ q <= l
  BY <1>9
<1>21. Len(r) = q /\ \A x \in 1..q : r[x] = m[a + x - 1] /\ a + x - 1 \in 1..l
  <2>1. m \in Seq(Byte)
    BY <1>8 DEF Laid
  <2>2. r = SubSeq(m, a, b)
    BY <1>9, <1>15, <1>19
  <2>3. a \in 1..Len(m) + 1 /\ b \in a - 1..Len(m)
    BY <1>8, <1>9
  <2>4. Len(r) = b - a + 1
    BY <1>9, <2>1, <2>2, <2>3, SubSeqProperties
  <2>5. \A x \in 1..b - a + 1 : r[x] = m[a + x - 1]
    BY <1>9, <2>1, <2>2, <2>3, SubSeqProperties
  <2>6. \A x \in 1..q : a + x - 1 \in 1..l
    BY <1>9, <1>20
  <2> QED BY ONLY <1>20, <2>4, <2>5, <2>6
<1>22. ~TwoDots(r)
  <2>1. ASSUME TwoDots(r) PROVE FALSE
    <3>1. PICK x \in 1..q - 1 : r[x] = Dot /\ r[x + 1] = Dot
      BY ONLY <1>21, <2>1 DEF TwoDots
    <3>2. x \in 1..q /\ x + 1 \in 1..q /\ a + (x + 1) - 1 = (a + x - 1) + 1
      BY <1>9, <1>20
    <3>3. PICK z : z = a + x - 1
      OBVIOUS
    <3>4. z \in 1..l /\ z + 1 \in 1..l /\ m[z] = Dot /\ m[z + 1] = Dot
      BY ONLY <1>21, <3>1, <3>2, <3>3
    <3>5. s[z] = Dot /\ s[z + 1] = Dot
      <4>1. \A f \in 1..l : m[f] = Dot => s[f] = Dot
        BY ONLY <1>8, SwapIs
      <4> QED BY ONLY <3>4, <4>1
    <3>6. z \in 1..l - 1
      BY ONLY <3>4, l \in Nat
    <3>7. TwoDots(s)
      BY ONLY <1>5, <3>5, <3>6 DEF TwoDots
    <3> QED BY <1>1, <3>7
  <2> QED BY <2>1
<1>23. Clean(c)
  <2>1. p >= 1 /\ 1 \in 1..p /\ p \in 1..p /\ i + 1 - 1 = i /\ i + p - 1 = j
    BY <1>14
  <2>2. c[1] = w[i] /\ c[p] = w[j]
    BY ONLY <1>15, <2>1
  <2>3. \A k \in 1..p : c[k] \notin Surrogate /\ ~is_forbidden_ascii(c[k])
    BY ONLY <1>15, <1>16, <1>17
  <2>4. c[1] # Space /\ c[p] \notin {Dot, Space}
    BY ONLY <1>10, <1>11, <2>2
  <2> QED BY ONLY <1>15, <1>19, <1>22, <2>1, <2>3, <2>4 DEF Clean
<1>24. Len(c) <= Len(v)
  BY <1>4, <1>14, <1>15
<1>25. Len(r) <= l
  BY <1>20, <1>21
<1> QED BY ONLY <1>1, <1>5, <1>15, <1>18, <1>19, <1>23, <1>24, <1>25

-----------------------------------------------------------------------------
(* Names: there and back.                                                    *)

\* A unit has at least one byte.
LEMMA EncodedLonger ==
  ASSUME NEW v \in Seq(Unit)
  PROVE  Len(v) \in Nat /\ Len(Encoded(v)) \in Nat /\ Len(v) <= Len(Encoded(v))
<1>1. PICK s : s = Encoded(v)
  OBVIOUS
<1>2. PICK off : Laid(v, s, off)
  BY <1>1, EncodedLaid
<1>3. PICK n, l \in Nat : n = Len(v) /\ l = Len(s)
  BY <1>2, PlacesUp
<1>4. off[0] = 0 /\ off[n] = l
  BY <1>2, <1>3 DEF Laid
<1>5. off[0] + (n - 0) <= off[n]
  <2>1. 0 \in 0..n /\ n \in 0..n
    OBVIOUS
  <2> QED BY <1>2, <1>3, <2>1, PlacesFar
<1>6. n <= l
  BY <1>3, <1>4, <1>5
<1> QED BY ONLY <1>1, <1>3, <1>6

\* Cleaning a clean name changes nothing.
LEMMA SanitizeClean ==
  ASSUME NEW c, Clean(c)
  PROVE  sanitize_name(Encoded(c)) = Encoded(c)
<1>1. PICK s : s = Encoded(c)
  OBVIOUS
<1>2. /\ c \in Seq(Unit) /\ Len(c) >= 1 /\ ~TwoDots(s)
      /\ \A k \in 1..Len(c) : c[k] \notin Surrogate /\ ~is_forbidden_ascii(c[k])
      /\ c[1] # Space /\ c[Len(c)] \notin {Dot, Space}
  BY <1>1 DEF Clean
<1>3. s \in Seq(Byte)
  BY <1>1, <1>2, EncodedLaid
<1>4. PICK off : Laid(c, s, off)
  BY <1>1, <1>2, EncodedLaid
<1>5. PICK n \in Nat : n = Len(c)
  BY <1>2
<1>6. n \in 1..n
  BY <1>2, <1>5
<1>7. /\ Laid(Swapped(c), Swapped(s), off) /\ Len(Swapped(c)) = n /\ Len(Swapped(s)) = Len(s)
      /\ \A k \in 1..n : Swapped(c)[k] = Swap(c[k])
  BY <1>4, <1>5, SwapLaid
<1>8. \A k \in 1..n : Swap(c[k]) = c[k]
  BY ONLY <1>2, <1>5 DEF Swap
<1>9. Swapped(c) = c
  <2>1. DOMAIN c = 1..n
    BY <1>2, <1>5
  <2>2. Swapped(c) = [k \in 1..n |-> c[k]]
    BY ONLY <1>8, <2>1 DEF Swapped
  <2>3. c = [k \in 1..n |-> c[k]]
    BY <1>2, <2>1
  <2> QED BY ONLY <2>2, <2>3
<1>10. Swapped(s) = s
  <2>1. Laid(c, Swapped(s), off)
    BY ONLY <1>7, <1>9
  <2>2. Swapped(s) = Encoded(c)
    BY ONLY <2>1, LaidIsEncoded
  <2> QED BY ONLY <1>1, <2>2
<1>11. off[n] \in 1..Len(s) /\ s[off[n]] \notin {Dot, Space}
  <2>1. PICK e : e = utf8_encode(c[n])
    OBVIOUS
  <2>2. PICK q \in 1..3 : q = Len(e)
    BY <1>4, <1>5, <1>6, <2>1, PlacesUp
  <2>3. off[n] = off[n - 1] + q /\ q \in 1..q /\ s[off[n - 1] + q] = e[q]
    <3>1. q \in 1..q
      OBVIOUS
    <3> QED BY <1>4, <1>5, <1>6, <2>1, <2>2, <3>1 DEF Laid
  <2>4. c[n] \in Unit /\ {Dot, Space} \subseteq 0..127 /\ c[n] \notin {Dot, Space}
    BY <1>2, <1>5, <1>6 DEF Dot, Space
  <2>5. e[q] \notin {Dot, Space}
    BY ONLY <2>1, <2>2, <2>3, <2>4, ByteUnit
  <2>6. off[n] = Len(s) /\ off[n - 1] \in Nat
    BY <1>4, <1>5, <1>6, PlacesUp DEF Laid
  <2>7. PICK x, l : x = off[n - 1] /\ l = Len(s)
    OBVIOUS
  <2>8. x \in Nat /\ l = x + q
    BY ONLY <2>3, <2>6, <2>7
  <2>9. l \in 1..l
    BY ONLY <2>8, q \in 1..3
  <2> QED BY ONLY <2>3, <2>5, <2>6, <2>7, <2>9
<1>12. \E d : Cleaned(c, d) /\ Stripped(s) = Encoded(d)
  <2>1. \A k \in 1..Len(c) : c[k] \notin Surrogate
    BY <1>2
  <2>2. PICK x : x = off[n]
    OBVIOUS
  <2>3. x \in 1..Len(Encoded(c)) /\ Swapped(Encoded(c))[x] \notin {Dot, Space} /\ ~TwoDots(Encoded(c))
    BY ONLY <1>1, <1>2, <1>10, <1>11, <2>2
  <2>4. \E d : /\ Cleaned(c, d) /\ Clean(d) /\ Stripped(Encoded(c)) = Encoded(d)
               /\ Len(d) <= Len(c) /\ Len(Encoded(d)) <= Len(Encoded(c))
    BY ONLY <1>2, <2>1, <2>3, SanitizeIs
  <2> QED BY ONLY <1>1, <2>4
<1>13. PICK d : Cleaned(c, d) /\ Stripped(s) = Encoded(d)
  BY <1>12
<1>14. d = c
  <2>1. DOMAIN c = 1..n
    BY <1>2, <1>5
  <2>2. PICK i, j \in 1..n :
          /\ i <= j
          /\ d = [k \in 1..j - i + 1 |->
                    IF is_forbidden_ascii(c[i + k - 1]) THEN Under ELSE c[i + k - 1]]
          /\ \A k \in 1..i - 1 : c[k] = Space
          /\ \A k \in j + 1..n : c[k] \in {Dot, Space}
    BY ONLY <1>5, <1>13, <2>1 DEF Cleaned
  <2>3. i = 1
    <3>1. i # 1 => 1 \in 1..i - 1
      OBVIOUS
    <3> QED BY ONLY <1>2, <2>2, <3>1
  <2>4. j = n
    <3>1. j # n => n \in j + 1..n
      BY <1>6
    <3> QED BY ONLY <1>2, <1>5, <2>2, <3>1
  <2>5. j - i + 1 = n /\ \A k \in 1..n : i + k - 1 = k
    BY <2>3, <2>4
  <2>6. \A k \in 1..n : ~is_forbidden_ascii(c[k])
    BY ONLY <1>2, <1>5
  <2>7. d = [k \in 1..n |-> c[k]]
    BY ONLY <2>2, <2>5, <2>6
  <2>8. c = [k \in 1..n |-> c[k]]
    BY <1>2, <2>1
  <2> QED BY ONLY <2>7, <2>8
<1>15. utf8_validate(s)
  BY <1>1, <1>2, ValidUnits
<1>16. sanitize_name(s) = Stripped(s)
  <2>1. ~ \A i \in 1..Len(s) : Swapped(s)[i] \in {Dot, Space}
    BY ONLY <1>10, <1>11
  <2>2. sanitize_name(s) =
          IF TwoDots(s) \/ ~utf8_validate(s) \/ \A i \in 1..Len(s) : Swapped(s)[i] \in {Dot, Space}
          THEN NoName ELSE Stripped(s)
    BY ONLY <1>3, Refuses
  <2> QED BY ONLY <1>2, <1>15, <2>1, <2>2
<1> QED BY ONLY <1>1, <1>13, <1>14, <1>16

\* A name that is sent and not refused is the bytes of a clean name: of the name
\* that was sent, cleaned, if all of that fits.
LEMMA NameSentIs ==
  ASSUME NEW w \in Seq(Unit), NameSent(w) # NoName
  PROVE  \E c : /\ Clean(c) /\ NameSent(w) = Encoded(c) /\ Len(Encoded(c)) <= MaxBytes
                /\ Len(Encoded(w)) <= MaxBytes => Cleaned(w, c) /\ Len(c) <= Len(w)
<1>1. PICK v \in Seq(Unit) :
        /\ unicode2charstring(w) = Encoded(v) /\ Len(Encoded(v)) <= MaxBytes
        /\ Len(Encoded(w)) <= MaxBytes => v = w
  <2>1. CASE Len(Encoded(w)) <= MaxBytes
    BY <2>1, Truncated
  <2>2. CASE ~(Len(Encoded(w)) <= MaxBytes)
    BY <2>2, Truncated
  <2> QED BY <2>1, <2>2
<1>2. PICK s : s = Encoded(v)
  OBVIOUS
<1>3. s \in Seq(Byte)
  BY <1>2, EncodedLaid
<1>4. NameSent(w) = sanitize_name(s)
  BY <1>1, <1>2 DEF NameSent
<1>5. /\ ~TwoDots(s) /\ utf8_validate(s) /\ ~ \A i \in 1..Len(s) : Swapped(s)[i] \in {Dot, Space}
      /\ NameSent(w) = Stripped(s)
  <2>1. sanitize_name(s) =
          IF TwoDots(s) \/ ~utf8_validate(s) \/ \A i \in 1..Len(s) : Swapped(s)[i] \in {Dot, Space}
          THEN NoName ELSE Stripped(s)
    BY ONLY <1>3, Refuses
  <2>2. sanitize_name(s) # NoName
    BY <1>4
  <2> QED BY ONLY <1>4, <2>1, <2>2
<1>6. PICK y \in 1..Len(s) : Swapped(s)[y] \notin {Dot, Space}
  BY ONLY <1>5
<1>7. \A k \in 1..Len(v) : v[k] \notin Surrogate
  BY <1>2, <1>5, ValidUnits
<1>8. \E c : /\ Cleaned(v, c) /\ Clean(c) /\ Stripped(Encoded(v)) = Encoded(c)
             /\ Len(c) <= Len(v) /\ Len(Encoded(c)) <= Len(Encoded(v))
  <2>1. y \in 1..Len(Encoded(v)) /\ Swapped(Encoded(v))[y] \notin {Dot, Space} /\ ~TwoDots(Encoded(v))
    BY ONLY <1>2, <1>5, <1>6, y \in 1..Len(s)
  <2> QED BY ONLY <1>7, <2>1, SanitizeIs, v \in Seq(Unit)
<1>9. PICK c : /\ Cleaned(v, c) /\ Clean(c) /\ Stripped(s) = Encoded(c)
               /\ Len(c) <= Len(v) /\ Len(Encoded(c)) <= Len(s)
  BY ONLY <1>2, <1>8
<1>10. Len(Encoded(c)) <= MaxBytes
  <2>1. c \in Seq(Unit)
    BY <1>9 DEF Clean
  <2>2. PICK p, q : p = Len(Encoded(c)) /\ q = Len(s)
    OBVIOUS
  <2>3. p \in Nat /\ q \in Nat /\ MaxBytes \in Nat
    BY <1>2, <2>1, <2>2, EncodedLonger, NamesAssumption
  <2>4. p <= q /\ q <= MaxBytes
    BY ONLY <1>1, <1>2, <1>9, <2>2
  <2>5. p <= MaxBytes
    BY ONLY <2>3, <2>4
  <2> QED BY ONLY <2>2, <2>5
<1> QED BY ONLY <1>1, <1>5, <1>9, <1>10

\* A host is told the name it sent, cleaned.
LEMMA NameTold ==
  ASSUME NEW w \in Seq(Unit), NameSent(w) # NoName, Len(Encoded(w)) <= MaxBytes, Len(w) <= MaxUnits
  PROVE  Cleaned(w, char2unicodestring(NameSent(w)))
<1>1. PICK c : Clean(c) /\ NameSent(w) = Encoded(c) /\ Cleaned(w, c) /\ Len(c) <= Len(w)
  BY NameSentIs
<1>2. c \in Seq(Unit)
  BY <1>1 DEF Clean
<1>3. Len(c) <= MaxUnits
  <2>1. Len(c) \in Nat /\ Len(w) \in Nat /\ MaxUnits \in Nat
    BY <1>2, NamesAssumption
  <2> QED BY <1>1, <2>1
<1>4. char2unicodestring(Encoded(c)) = c
  BY <1>2, <1>3, Decoded
<1> QED BY ONLY <1>1, <1>4

\* A host that sends a clean name as it was told it means the same bytes.
LEMMA NameResent ==
  ASSUME NEW c, Clean(c), Len(Encoded(c)) <= MaxBytes, Len(Encoded(c)) <= MaxUnits
  PROVE  NameSent(char2unicodestring(Encoded(c))) = Encoded(c)
<1>1. c \in Seq(Unit)
  BY DEF Clean
<1>2. Len(c) <= MaxUnits
  <2>1. Len(c) \in Nat /\ Len(Encoded(c)) \in Nat /\ Len(c) <= Len(Encoded(c))
    BY <1>1, EncodedLonger
  <2>2. MaxUnits \in Nat
    BY NamesAssumption
  <2> QED BY <2>1, <2>2
<1>3. char2unicodestring(Encoded(c)) = c
  BY <1>1, <1>2, Decoded
<1>4. unicode2charstring(c) = Encoded(c)
  BY <1>1, Truncated
<1>5. NameSent(c) = Encoded(c)
  BY <1>4, SanitizeClean DEF NameSent
<1> QED BY <1>3, <1>5

-----------------------------------------------------------------------------
(* Names: what a host is told of the objects it named.                       *)

\* The file names a host gave that were not refused.
SentAs == {NameSent(w) : w \in conf.sent} \ {NoName}

\* A file has a name local users gave or one a host sent; an object the host
\* named has the name that was made of the one it sent last.
NamesInv ==
  /\ DOMAIN disk \subseteq conf.local \cup SentAs
  /\ \A h \in DOMAIN entry :
       /\ entry[h].name \in conf.local \cup SentAs
       /\ sent[h] # None => NameSent(sent[h]) # NoName /\ entry[h].name = NameSent(sent[h])

\* What a host sends are units.
LEMMA SentUnits ==
  ASSUME Typed
  PROVE  conf.sent \subseteq Seq(Unit)
BY QueriesAssumption DEF Typed, TypeOK

\* A name that was cleaned is the path it is looked for and created with.
LEMMA PathSent ==
  ASSUME Typed, NEW w \in SentNames, NameSent(w) # NoName, PathOf(NameSent(w)) # NoName
  PROVE  PathOf(NameSent(w)) = NameSent(w)
<1>1. PICK c : Clean(c) /\ NameSent(w) = Encoded(c)
  BY SentUnits, NameSentIs DEF SentNames
<1>2. sanitize_name(NameSent(w)) = NameSent(w)
  BY <1>1, SanitizeClean
<1> QED BY <1>2 DEF PathOf

\* Whoever asks keeps the names.
LEMMA QueryNames ==
  ASSUME Typed, NamesInv, Query
  PROVE  NamesInv'
<1>1. Asking
  BY QueryAsks
<1>2. UNCHANGED <<conf, disk, sent>> /\ SentAs' = SentAs
  BY <1>1 DEF Asking, SentAs
<1>3. CASE UNCHANGED <<entry, told>>
  BY <1>2, <1>3 DEF NamesInv
<1>4. ASSUME NEW h \in Handles, Live(h), Refreshed(h) PROVE NamesInv'
  <2>1. PICK s : s = FileOf(entry[h].name).size
    OBVIOUS
  <2>2. h \in DOMAIN entry /\ entry' = [entry EXCEPT ![h].size = s]
    BY <1>4, <2>1 DEF Live, Refreshed
  <2>3. DOMAIN entry' = DOMAIN entry /\ entry[h] \in Object
    BY <2>2, EntryTyped
  <2>4. \A k \in DOMAIN entry : entry'[k].name = entry[k].name
    BY <2>2, <2>3 DEF Object
  <2> QED BY <1>2, <2>3, <2>4 DEF NamesInv
<1> QED BY <1>1, <1>3, <1>4 DEF Asking

\* A listing keeps the names and gives the new entries those of files.
LEMMA ScanNames ==
  ASSUME Typed, NamesInv, GetObjectHandles
  PROVE  NamesInv'
<1>1. UNCHANGED <<conf, disk, sent>> /\ SentAs' = SentAs
  BY DEF GetObjectHandles, SentAs
<1>2. ASSUME NEW h \in DOMAIN entry PROVE entry'[h].name = entry[h].name
  <2>1. PICK e \in Object : e = entry[h]
    BY EntryTyped
  <2>2. entry'[h] = IF e.live THEN Scanned(e) ELSE e
    BY <2>1, ScanEntries
  <2> QED BY <2>1, <2>2 DEF Scanned, Object
<1>3. ASSUME NEW h \in DOMAIN entry', h \notin DOMAIN entry
      PROVE  entry'[h].name \in DOMAIN disk /\ sent[h] = None
  <2>1. h \in Handles
    <3>1. DOMAIN entry' = 1..Len(entry') /\ Len(entry') <= MaxEntries /\ Len(entry') \in Nat
      BY ScanEntries
    <3> QED BY <3>1, ConfTyped DEF Handles, Typed, TypeOK
  <2> QED BY <1>3, <2>1, ScanEntries DEF Typed, TypeOK
<1>4. ASSUME NEW h \in DOMAIN entry'
      PROVE  /\ entry'[h].name \in conf.local \cup SentAs
             /\ sent[h] # None => NameSent(sent[h]) # NoName /\ entry'[h].name = NameSent(sent[h])
  BY <1>2, <1>3, <1>4 DEF NamesInv
<1> QED BY <1>1, <1>4 DEF NamesInv

\* Local users name files, no objects.
LEMMA LocalNamed ==
  ASSUME Typed, NamesInv, Local
  PROVE  NamesInv'
<1>1. ASSUME UNCHANGED <<conf, entry, sent>>, DOMAIN disk' \subseteq conf.local \cup DOMAIN disk
      PROVE  NamesInv'
  BY <1>1 DEF NamesInv, SentAs
<1>2. ASSUME NEW n \in LocalNames \cup DOMAIN disk, NEW d, NEW s, LocalWrite(n, d, s) PROVE NamesInv'
  <2>1. DOMAIN disk' = DOMAIN disk \cup {n} /\ UNCHANGED <<conf, entry, sent>>
    BY <1>2 DEF LocalWrite
  <2> QED BY <1>1, <1>2, <2>1 DEF LocalNames
<1>3. ASSUME NEW n \in DOMAIN disk, LocalRemove(n) PROVE NamesInv'
  <2>1. DOMAIN disk' = DOMAIN disk \ {n} /\ UNCHANGED <<conf, entry, sent>>
    BY <1>3 DEF LocalRemove
  <2> QED BY <1>1, <2>1
<1>4. ASSUME NEW h \in DOMAIN entry, InotifyDelete(h) PROVE NamesInv'
  <2>1. entry' = [entry EXCEPT ![h].live = FALSE] /\ UNCHANGED <<conf, disk, sent>>
    BY <1>4 DEF InotifyDelete
  <2>2. entry[h] \in Object /\ DOMAIN entry' = DOMAIN entry
    BY <1>4, <2>1, EntryTyped
  <2>3. \A k \in DOMAIN entry : entry'[k].name = entry[k].name
    BY <1>4, <2>1, <2>2 DEF Object
  <2>4. SentAs' = SentAs
    BY <2>1 DEF SentAs
  <2> QED BY <2>1, <2>2, <2>3, <2>4 DEF NamesInv
<1> QED BY <1>2, <1>3, <1>4 DEF Local

\* A step that gives one object the name made of w, and the disk no other name.
LEMMA Named ==
  ASSUME Typed, NamesInv, UNCHANGED conf, NEW w \in SentNames, NameSent(w) # NoName,
         NEW g, g \in Handles, sent' = [sent EXCEPT ![g] = w],
         DOMAIN disk' \subseteq DOMAIN disk \cup {NameSent(w)}, entry'[g].name = NameSent(w),
         \A h \in DOMAIN entry' \ {g} : h \in DOMAIN entry /\ entry'[h] = entry[h]
  PROVE  NamesInv'
<1>1. SentAs' = SentAs /\ NameSent(w) \in SentAs
  BY DEF SentAs, SentNames
<1>2. sent'[g] = w
  BY DEF Typed, TypeOK
<1>3. ASSUME NEW h \in DOMAIN entry'
      PROVE  /\ entry'[h].name \in conf.local \cup SentAs
             /\ sent'[h] # None => NameSent(sent'[h]) # NoName /\ entry'[h].name = NameSent(sent'[h])
  <2>1. CASE h = g
    BY <1>1, <1>2, <2>1
  <2>2. CASE h # g
    <3>1. h \in DOMAIN entry /\ entry'[h] = entry[h] /\ h \in Handles
      BY <1>3, <2>2, EntryTyped
    <3>2. sent'[h] = sent[h]
      BY <2>2, <3>1 DEF Typed, TypeOK
    <3> QED BY <3>1, <3>2 DEF NamesInv
  <2> QED BY <2>1, <2>2
<1> QED BY <1>1, <1>3 DEF NamesInv

\* SendObjectInfo names an object, by its entry or a new one.
LEMMA SendNames ==
  ASSUME Typed, NamesInv, UNCHANGED conf, NEW w \in SentNames, NEW d, NEW s, NEW g, Names(g, w, d, s)
  PROVE  NamesInv'
<1>1. PICK n : n = NameSent(w)
  OBVIOUS
<1>2. /\ g \in Handles /\ n # NoName /\ sent' = [sent EXCEPT ![g] = w]
      /\ disk' = [m \in DOMAIN disk \cup {n} |-> IF m = n THEN [dir |-> d, size |-> 0] ELSE disk[m]]
  BY <1>1 DEF Names
<1>3. DOMAIN disk' \subseteq DOMAIN disk \cup {n}
  BY <1>2
<1>4. entry \in Seq(Object)
  BY DEF Typed, Shapes
<1>5. entry'[g].name = n /\ \A h \in DOMAIN entry' \ {g} : h \in DOMAIN entry /\ entry'[h] = entry[h]
  <2>1. CASE g \in Find(n) /\ entry' = entry
    BY <2>1 DEF Find
  <2>2. ASSUME NEW e, e.name = n, g = Len(entry) + 1, entry' = Append(entry, e)
        PROVE  entry'[g].name = n /\ \A h \in DOMAIN entry' \ {g} : h \in DOMAIN entry /\ entry'[h] = entry[h]
    BY <1>4, <2>2
  <2> QED BY <1>1, <2>1, <2>2 DEF Names
<1> QED BY <1>1, <1>2, <1>3, <1>5, Named

\* A rename: path and name of the object are those made of what the host sent.
LEMMA RenameNames ==
  ASSUME Typed, NamesInv, UNCHANGED conf, NEW w \in SentNames, NEW g, Renames(g, w)
  PROVE  NamesInv'
<1>1. PICK n, p : n = NameSent(w) /\ p = PathOf(entry[g].name)
  OBVIOUS
<1>2. /\ g \in Handles /\ g \in DOMAIN entry /\ n # NoName /\ PathOf(n) # NoName
      /\ disk' = [m \in (DOMAIN disk \ {p}) \cup {PathOf(n)} |-> IF m = PathOf(n) THEN disk[p] ELSE disk[m]]
      /\ entry' = [entry EXCEPT ![g].name = n]
      /\ sent' = [sent EXCEPT ![g] = w]
  BY <1>1 DEF Renames, Live
<1>3. PathOf(n) = n
  BY <1>1, <1>2, PathSent
<1>4. DOMAIN disk' \subseteq DOMAIN disk \cup {n}
  BY <1>2, <1>3
<1>5. entry[g] \in Object /\ DOMAIN entry' = DOMAIN entry
  BY <1>2, EntryTyped
<1>6. entry'[g].name = n /\ \A h \in DOMAIN entry' \ {g} : h \in DOMAIN entry /\ entry'[h] = entry[h]
  BY <1>2, <1>5 DEF Object
<1> QED BY <1>1, <1>2, <1>4, <1>6, Named

\* One step of anybody.
LEMMA NamesStep == Typed /\ NamesInv /\ [Next]_vars => NamesInv'
<1> SUFFICES ASSUME Typed, NamesInv, [Next]_vars PROVE NamesInv'
  OBVIOUS
<1>1. ASSUME UNCHANGED <<conf, disk, entry, sent>> PROVE NamesInv'
  BY <1>1 DEF NamesInv, SentAs
<1>2. CASE Query
  BY <1>2, QueryNames
<1>3. CASE Local
  BY <1>3, LocalNamed
<1>4. CASE UNCHANGED vars
  BY <1>1, <1>4 DEF vars
<1>5. ASSUME NEW w \in SentNames, SetObjectPropData(w) PROVE NamesInv'
  BY <1>1, <1>5, PropDataCases, RenameNames DEF Unchanged
<1>6. ASSUME NEW w \in SentNames, NEW d \in BOOLEAN, NEW s \in Sizes, SendObjectInfo(w, d, s)
      PROVE  NamesInv'
  BY <1>1, <1>6, SendCases, SendNames DEF Unchanged
<1>7. CASE GetObjectHandles
  BY <1>7, ScanNames
<1>8. CASE OpenSession
  BY <1>1, <1>8 DEF OpenSession, Unchanged
<1>9. CASE CloseSession
  <2>1. DOMAIN entry' = {} /\ UNCHANGED <<conf, disk>>
    BY <1>9 DEF CloseSession
  <2> QED BY <2>1 DEF NamesInv, SentAs
<1>10. CASE \E h, p : SetObjectPropValue(h, p)
  BY <1>1, <1>10 DEF SetObjectPropValue, Unchanged
<1>11. CASE Host
  BY <1>5, <1>6, <1>7, <1>8, <1>9, <1>10, <1>11 DEF Host
<1> QED BY <1>2, <1>3, <1>4, <1>11 DEF Next

\* NamesInv is an invariant.
LEMMA NamesAlways == Spec => [](Typed /\ NamesInv)
<1>1. Init => NamesInv
  BY DEF Init, NamesInv
<1> QED BY <1>1, NamesStep, TypedAlways, PTL DEF Spec

\* A host that names an object, by SendObjectInfo or a rename, is told that name,
\* cleaned, whatever units it is made of, as long as it fits the buffers
\* (unicode2charstring, sanitize_name, char2unicodestring).
THEOREM NameAsSentCorrect == Spec => []NameAsSent
<1>1. Typed /\ NamesInv => NameAsSent
  <2> SUFFICES ASSUME Typed, NamesInv, NEW h \in DOMAIN entry, sent[h] # None,
                      Len(Encoded(sent[h])) <= MaxBytes, Len(sent[h]) <= MaxUnits
               PROVE  Cleaned(sent[h], char2unicodestring(entry[h].name))
    BY DEF NameAsSent
  <2>1. PICK w : w = sent[h]
    OBVIOUS
  <2>2. w \in Seq(Unit)
    <3>1. h \in Handles
      BY EntryTyped
    <3>2. sent[h] \in conf.sent
      BY <3>1 DEF Typed, TypeOK, SentNames
    <3> QED BY <2>1, <3>2, SentUnits
  <2>3. NameSent(w) # NoName /\ entry[h].name = NameSent(w)
    BY <2>1 DEF NamesInv
  <2> QED BY <2>1, <2>2, <2>3, NameTold
<1> QED BY <1>1, NamesAlways, PTL

\* A host that sends back the name it is told of an object names the same file,
\* for every name a host sent (sanitize_name and the two conversions).
THEOREM ResentSameCorrect == Spec => []ResentSame
<1>1. Typed /\ NamesInv => ResentSame
  <2> SUFFICES ASSUME Typed, NamesInv, NEW h \in DOMAIN entry, entry[h].name \notin LocalNames,
                      Len(entry[h].name) <= MaxUnits
               PROVE  NameSent(char2unicodestring(entry[h].name)) = entry[h].name
    BY DEF ResentSame
  <2>1. PICK n : n = entry[h].name
    OBVIOUS
  <2>2. n \in SentAs
    BY <2>1 DEF NamesInv, LocalNames
  <2>3. PICK w \in Seq(Unit) : n = NameSent(w) /\ NameSent(w) # NoName
    BY <2>2, SentUnits DEF SentAs
  <2>4. PICK c : Clean(c) /\ n = Encoded(c) /\ Len(Encoded(c)) <= MaxBytes
    BY <2>3, NameSentIs
  <2> QED BY <2>1, <2>4, NameResent
<1> QED BY <1>1, NamesAlways, PTL
=============================================================================
