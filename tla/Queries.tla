------------------------------ MODULE Queries ------------------------------
(***************************************************************************)
(* What a host asks about objects and about the device, and the two        *)
(* operations with which it names them.  One storage, the objects in its   *)
(* root folder; local users create, write and remove files meanwhile.      *)
(*                                                                         *)
(* A dataset is the sequence of its fields, a field a property, the data   *)
(* type it is written as and its value.  The replies fit the buffer (8 KB  *)
(* by default, a dataset is below 2 KB), so poke08 to poke_array never     *)
(* fail.  Module ObjectDb has the folders, the inotify thread and the      *)
(* session whole, module FileData the contents, module StorageTable the    *)
(* storages.                                                               *)
(***************************************************************************)
EXTENDS ObjectNames

CONSTANTS
  Confs,       \* bound: the configurations and inputs checked, see conf
  NameMax,     \* NAME_MAX of the file system, 255
  Max32,       \* 2^32 - 1, the largest size an ObjectInfo can tell
  MaxEntries,  \* bound: objects in a session
  None

\* What a host sends of a name ends before the first unit 0.
ASSUME QueriesAssumption ==
  /\ \A c \in Confs :
       /\ {c.battery, c.perceived, c.readonly} \subseteq BOOLEAN
       /\ c.sizes \subseteq Nat /\ 0 \in c.sizes /\ c.room \in 0..MaxEntries
       /\ c.sent \subseteq Seq(Unit)
  /\ NameMax \in Nat /\ Max32 \in Nat /\ MaxEntries \in Nat

VARIABLES
  conf,      \* chosen once: battery_capacity and perceived_device_type set, storage
             \* read-only; names a host sends (UTF-16 units), names local users
             \* give (bytes), sizes of files; bound: room for entries and for files
  session,   \* ctx->fs_db is there
  disk,      \* the files of the storage's root, by name
  entry,     \* the entries of the database, by handle
  setprop,   \* SetObjectPropValue_Handle and SetObjectPropValue_PropCode
  reply,     \* the last reply: its code, and whether a dataset came with it
  told,      \* history: the size last told of an object, until its file changes
  sent       \* history: the name the host gave an object

vars == <<conf, session, disk, entry, setprop, reply, told, sent>>

SentNames  == conf.sent
LocalNames == conf.local
Sizes      == conf.sizes

Root      == 0       \* handle of the root folder
Storage   == 65537
Handles   == 1..MaxEntries
Unchanged == UNCHANGED <<disk, entry, told, sent>>

Live(h)     == h \in DOMAIN entry /\ entry[h].live
FormatOf(r) == IF r.dir THEN "ASSOCIATION" ELSE "UNDEFINED"

Answer(code, data) == [code |-> code, data |-> data # <<>>]
Respond(code)      == reply' = Answer(code, <<>>)

\* build_full_path: a name that is not there is looked for in its clean form.
PathOf(n) ==
  CASE n \in DOMAIN disk -> n
    [] n \notin DOMAIN disk /\ Len(n) > NameMax -> NoName
    [] OTHER -> sanitize_name(n)

\* stat64 of the path of an entry.
Found(n)  == PathOf(n) \in DOMAIN disk
FileOf(n) == disk[PathOf(n)]

\* The entries whose file has changed: what they were told no longer holds.
Forgotten(names) ==
  [h \in Handles |-> IF h \in DOMAIN entry /\ {entry[h].name, PathOf(entry[h].name)} \cap names # {}
                     THEN None ELSE told[h]]

-----------------------------------------------------------------------------
(* mtp_properties.c: its tables.                                            *)

Row(p, t, s, f) == [prop |-> p, type |-> t, set |-> s, format |-> f]

Rows(f) ==
  <<Row("OBJECT_SIZE", "UINT64", FALSE, f), Row("STORAGE_ID", "UINT32", FALSE, f),
    Row("PROTECTION_STATUS", "UINT16", FALSE, f), Row("DISPLAY_NAME", "STR", FALSE, f),
    Row("OBJECT_FILE_NAME", "STR", TRUE, f), Row("DATE_CREATED", "STR", FALSE, f),
    Row("DATE_MODIFIED", "STR", FALSE, f), Row("PARENT_OBJECT", "UINT32", FALSE, f),
    Row("PERSISTENT_UID", "UINT128", FALSE, f), Row("NAME", "STR", FALSE, f)>>

\* Mutant: the size is described as the 32 bits of an ObjectInfo.
properties_Size32 ==
  <<Row("STORAGE_ID", "UINT32", FALSE, "any")>>
    \o <<Row("OBJECT_FORMAT", "UINT16", FALSE, "UNDEFINED"),
         Row("OBJECT_FORMAT", "UINT16", FALSE, "ASSOCIATION"),
         Row("OBJECT_FORMAT", "UINT16", FALSE, "TEXT")>>
    \o <<Row("OBJECT_SIZE", "UINT32", FALSE, "ASSOCIATION")>> \o Tail(Rows("ASSOCIATION"))
    \o Rows("UNDEFINED")
    \o <<Row("ASSOCIATION_DESC", "UINT32", FALSE, "any"),
         Row("PROTECTION_STATUS", "UINT16", FALSE, "any"), Row("HIDDEN", "UINT16", FALSE, "any"),
         Row("0xFFFF", "UINT32", FALSE, "end")>>

\* properties[]; TEXT stands for the formats that only have an OBJECT_FORMAT row.
\* The last row, which ends the table, can be found like the others.
properties ==
  <<Row("STORAGE_ID", "UINT32", FALSE, "any")>>
    \o <<Row("OBJECT_FORMAT", "UINT16", FALSE, "UNDEFINED"),
         Row("OBJECT_FORMAT", "UINT16", FALSE, "ASSOCIATION"),
         Row("OBJECT_FORMAT", "UINT16", FALSE, "TEXT")>>
    \o Rows("ASSOCIATION") \o Rows("UNDEFINED")
    \o <<Row("ASSOCIATION_DESC", "UINT32", FALSE, "any"),
         Row("PROTECTION_STATUS", "UINT16", FALSE, "any"), Row("HIDDEN", "UINT16", FALSE, "any"),
         Row("0xFFFF", "UINT32", FALSE, "end")>>

\* fmt_properties[]: both formats have the same properties.
fmt_properties(f) ==
  IF f \in {"UNDEFINED", "ASSOCIATION"}
  THEN <<"STORAGE_ID", "OBJECT_FORMAT", "PROTECTION_STATUS", "OBJECT_SIZE", "OBJECT_FILE_NAME",
         "DATE_MODIFIED", "PARENT_OBJECT", "PERSISTENT_UID", "NAME", "DISPLAY_NAME", "DATE_CREATED">>
  ELSE <<>>

DevRow(p, t, form) == [prop |-> p, type |-> t, form |-> form]

dev_properties ==
  <<DevRow("SYNCHRONIZATION_PARTNER", "STR", "none"), DevRow("BATTERY_LEVEL", "UINT8", "range"),
    DevRow("DEVICE_FRIENDLY_NAME", "STR", "none"), DevRow("PERCEIVED_DEVICE_TYPE", "UINT32", "none"),
    DevRow("0xFFFF", "UINT32", "none")>>

\* bound: what a host asks for in the runs, one of each kind
Asked    == {"OBJECT_SIZE", "HIDDEN", "ARTIST"}
DevAsked == {dev_properties[i].prop : i \in DOMAIN dev_properties} \cup {"IMAGE_SIZE"}
Formats  == {"UNDEFINED", "ASSOCIATION", "TEXT"}

\* The first row of a table that is one of these, none.
First(table, is) == IF is = {} THEN <<>> ELSE <<table[Min(is)]>>

is_device_property_supported(p) ==
  CASE p = "BATTERY_LEVEL" -> conf.battery
    [] p = "PERCEIVED_DEVICE_TYPE" -> conf.perceived
    [] OTHER -> TRUE

-----------------------------------------------------------------------------
(* mtp_properties.c, mtp_datasets.c: the datasets.                          *)

Field(p, t, v) == [prop |-> p, type |-> t, value |-> v]

\* The row of the format asked for, else the row for any format.
build_properties_dataset(p, f) ==
  LET of(g) == First(properties, {i \in DOMAIN properties : properties[i].prop = p /\ properties[i].format = g})
      end   == First(properties, {i \in DOMAIN properties : properties[i].prop = p /\ p = "0xFFFF"})
  IN IF of(f) # <<>> THEN of(f) ELSE IF of("any") # <<>> THEN of("any") ELSE end

build_device_properties_dataset(p) ==
  IF is_device_property_supported(p)
  THEN First(dev_properties, {i \in DOMAIN dev_properties : dev_properties[i].prop = p})
  ELSE <<>>

\* get_battery_level is between 0 and 100 whatever the file says.
build_DevicePropValue_dataset(p) ==
  CASE p = "BATTERY_LEVEL" /\ is_device_property_supported(p) -> <<Field(p, "UINT8", "level")>>
    [] p = "PERCEIVED_DEVICE_TYPE" /\ is_device_property_supported(p) -> <<Field(p, "UINT32", "type")>>
    [] p \in {"DEVICE_FRIENDLY_NAME", "SYNCHRONIZATION_PARTNER"} -> <<Field(p, "STR", "string")>>
    [] OTHER -> <<>>

\* Of the dataset: the properties of the table that are supported, up to the row
\* that ends it.
build_deviceinfo_dataset ==
  LET IfSupported(i) == LET p == dev_properties[i].prop
                        IN IF is_device_property_supported(p) THEN <<p>> ELSE <<>>
  IN IfSupported(1) \o IfSupported(2) \o IfSupported(3) \o IfSupported(4)

build_storageinfo_dataset ==
  <<Field("ACCESS", "UINT16", IF conf.readonly THEN "READ_ONLY_WITHOUT_DELETE" ELSE "READ_WRITE")>>

\* The file's size is stored in the entry before; sizes from 2^32 on are told
\* as 2^32 - 1.
build_objectinfo_dataset(h, size) ==
  LET e == entry[h]
  IN <<Field("STORAGE_ID", "UINT32", Storage), Field("OBJECT_FORMAT", "UINT16", FormatOf(e)),
       Field("PROTECTION_STATUS", "UINT16", 0), Field("OBJECT_SIZE", "UINT32", Min({size, Max32})),
       Field("PARENT_OBJECT", "UINT32", Root),
       Field("ASSOCIATION_TYPE", "UINT16", IF e.dir THEN 1 ELSE 0),
       Field("OBJECT_FILE_NAME", "STR", char2unicodestring(e.name)),
       Field("DATE_CREATED", "STR", "mtime"), Field("DATE_MODIFIED", "STR", "mtime")>>

build_ObjectPropValue_dataset(h, p) ==
  LET e == entry[h]
      Is(t, v) == <<Field(p, t, v)>>
  IN CASE p = "OBJECT_FORMAT" -> Is("UINT16", FormatOf(e))
       [] p = "OBJECT_SIZE" -> Is("UINT64", e.size)
       [] p = "DISPLAY_NAME" -> Is("STR", <<>>)
       [] p \in {"NAME", "OBJECT_FILE_NAME"} -> Is("STR", char2unicodestring(e.name))
       [] p = "STORAGE_ID" -> Is("UINT32", Storage)
       [] p = "PARENT_OBJECT" -> Is("UINT32", Root)
       [] p \in {"HIDDEN", "SYSTEM_OBJECT", "PROTECTION_STATUS"} -> Is("UINT16", 0)
       [] p = "ASSOCIATION_TYPE" -> Is("UINT16", IF e.dir THEN 1 ELSE 0)
       [] p = "ASSOCIATION_DESC" -> Is("UINT32", 0)
       [] p \in {"DATE_CREATED", "DATE_MODIFIED"} -> Is("STR", "20100102T101112")
       [] p = "PERSISTENT_UID" -> Is("UINT128", <<h, Root, Storage, 0>>)
       [] OTHER -> <<>>

\* The first row of the property, whatever its format, has the data type.
objectproplist_element(p, value, asked) ==
  IF asked \notin {p, "all"} THEN <<>>
  ELSE LET row == First(properties, {i \in DOMAIN properties : properties[i].prop = p})
       IN IF row = <<>> THEN <<>> ELSE <<Field(p, row[1].type, value)>>

\* The dwords of PERSISTENT_UID are the first one plus 0, 1, 2 and 3.
build_objectproplist_dataset(h, size, asked) ==
  LET e == entry[h]
      E(p, v) == objectproplist_element(p, v, asked)
      name == char2unicodestring(e.name)
  IN E("STORAGE_ID", Storage) \o E("OBJECT_FORMAT", FormatOf(e))
       \o E("ASSOCIATION_TYPE", IF e.dir THEN 1 ELSE 0) \o E("PARENT_OBJECT", Root)
       \o E("OBJECT_SIZE", size) \o E("PROTECTION_STATUS", 0)
       \o E("OBJECT_FILE_NAME", name) \o E("NAME", name) \o E("DISPLAY_NAME", <<>>)
       \o E("DATE_CREATED", "mtime") \o E("DATE_MODIFIED", "mtime")
       \o E("PERSISTENT_UID", [i \in 1..4 |-> h + i - 1])
-----------------------------------------------------------------------------
(* The session, the folder's listing, the local users.                      *)

\* mtp_op_OpenSession, mtp_op_CloseSession: the database starts empty.
OpenSession ==
  /\ ~session
  /\ session' = TRUE
  /\ Respond("OK")
  /\ UNCHANGED <<conf, setprop>> /\ Unchanged

\* Mutant: the entries outlive the session (deinit_fs_db forgotten).
CloseSession_Keeps ==
  /\ session
  /\ session' = FALSE
  /\ entry' = entry
  /\ told' = [h \in Handles |-> None] /\ sent' = [h \in Handles |-> None]
  /\ Respond("OK")
  /\ UNCHANGED <<conf, disk, setprop>>

CloseSession ==
  /\ session
  /\ session' = FALSE
  /\ entry' = <<>>
  /\ told' = [h \in Handles |-> None] /\ sent' = [h \in Handles |-> None]
  /\ Respond("OK")
  /\ UNCHANGED <<conf, disk, setprop>>

\* find_entry: the first live entry of that name.
Find(n) == {h \in DOMAIN entry : entry[h].live /\ entry[h].name = n}

\* scan_and_add_folder of GetObjectHandles: an entry for each file that has none,
\* in the order of the directory (show_hidden_files is set); entries whose file is
\* gone are dropped, those whose path cannot be built are left, the others get the
\* file's size.
GetObjectHandles ==
  /\ session
  /\ LET new  == {n \in DOMAIN disk : Find(n) = {}}
         Scanned(e) == IF PathOf(e.name) = NoName THEN e
                       ELSE IF ~Found(e.name) THEN [e EXCEPT !.live = FALSE]
                       ELSE [e EXCEPT !.size = FileOf(e.name).size]
         Fresh(n) == [name |-> n, dir |-> disk[n].dir, size |-> disk[n].size, live |-> TRUE]
     IN /\ Len(entry) + Cardinality(new) <= conf.room
        /\ \E order \in SetToSeqs(new) :
             entry' = [h \in DOMAIN entry |-> IF entry[h].live THEN Scanned(entry[h]) ELSE entry[h]]
                        \o [i \in DOMAIN order |-> Fresh(order[i])]
  /\ Respond("OK")
  /\ UNCHANGED <<conf, session, disk, setprop, told, sent>>

\* The inotify thread hears of a removal (module ObjectDb).
InotifyDelete(h) ==
  /\ Live(h) /\ entry[h].name \notin DOMAIN disk
  /\ entry' = [entry EXCEPT ![h].live = FALSE]
  /\ UNCHANGED <<conf, session, disk, setprop, reply, told, sent>>

\* A local user creates or writes a file, or removes one.
LocalWrite(n, d, s) ==
  /\ Cardinality(DOMAIN disk \cup {n}) <= conf.room
  /\ n \in DOMAIN disk => disk[n].dir = d /\ ~d /\ disk[n].size # s
  /\ disk' = [m \in DOMAIN disk \cup {n} |-> IF m = n THEN [dir |-> d, size |-> s] ELSE disk[m]]
  /\ told' = Forgotten({n})
  /\ UNCHANGED <<conf, session, entry, setprop, reply, sent>>

LocalRemove(n) ==
  /\ disk' = [m \in DOMAIN disk \ {n} |-> disk[m]]
  /\ told' = Forgotten({n})
  /\ UNCHANGED <<conf, session, entry, setprop, reply, sent>>

-----------------------------------------------------------------------------
(* The host names objects.                                                  *)

\* mkdir fails on any name that is there, open(O_CREAT | O_TRUNC) on a folder's.
CanCreate(n, d) == Len(n) <= NameMax /\ (n \in DOMAIN disk => ~d /\ ~disk[n].dir)

\* SendObjectInfo into the root folder: parse_incoming_dataset.  An entry that
\* has the name is taken as it is; a new one has the size the host declares,
\* a folder 0.
SendObjectInfo(w, d, s) ==
  LET n == NameSent(w)
      refused == CASE ~session -> "SESSION_NOT_OPEN"
                   [] session /\ conf.readonly -> "STORE_READ_ONLY"
                   [] session /\ ~conf.readonly /\ n = NoName -> "INVALID_DATASET"
                   [] session /\ ~conf.readonly /\ n # NoName /\ ~CanCreate(n, d) -> "ACCESS_DENIED"
                   [] OTHER -> "no"
  IN /\ IF refused # "no" THEN Respond(refused) /\ Unchanged
        ELSE LET h == IF Find(n) = {} THEN Len(entry) + 1 ELSE Min(Find(n))
             IN /\ h <= conf.room /\ Cardinality(DOMAIN disk \cup {n}) <= conf.room
                /\ disk' = [m \in DOMAIN disk \cup {n} |-> IF m = n THEN [dir |-> d, size |-> 0] ELSE disk[m]]
                /\ entry' = IF h <= Len(entry) THEN entry
                            ELSE Append(entry, [name |-> n, dir |-> d, size |-> IF d THEN 0 ELSE s, live |-> TRUE])
                /\ told' = [Forgotten({n}) EXCEPT ![h] = None]
                /\ sent' = [sent EXCEPT ![h] = w]
                /\ Respond("OK")
     /\ UNCHANGED <<conf, session, setprop>>

\* The only property with a case in setObjectPropValue.
Settable(p) == p = "OBJECT_FILE_NAME"

\* SetObjectPropValue, the command: no response yet.
SetObjectPropValue(h, p) ==
  /\ IF session THEN setprop' = [h |-> h, prop |-> p] /\ Respond("NO_RESPONSE")
                ELSE Respond("SESSION_NOT_OPEN") /\ UNCHANGED setprop
  /\ UNCHANGED <<conf, session>> /\ Unchanged

\* rename(2): the file is there, and what it replaces is of its kind.
CanRename(a, b) == a \in DOMAIN disk /\ (b \in DOMAIN disk => disk[a].dir = disk[b].dir)

\* setObjectPropValue; path2 is the path of the entry under its new name.
Rename(h, w) ==
  LET e     == entry[h]
      n     == NameSent(w)
      path  == PathOf(e.name)
      path2 == PathOf(n)
  IN IF path # NoName /\ n # NoName /\ path2 # NoName /\ CanRename(path, path2)
     THEN /\ disk' = [m \in (DOMAIN disk \ {path}) \cup {path2} |-> IF m = path2 THEN disk[path] ELSE disk[m]]
          /\ entry' = [entry EXCEPT ![h].name = n]
          /\ told' = [Forgotten({path, path2}) EXCEPT ![h] = told[h]]
          /\ sent' = [sent EXCEPT ![h] = w]
          /\ Respond("OK")
     ELSE Respond("GENERAL_ERROR") /\ Unchanged

\* SetObjectPropValue, the data: the handle of the command is used once.
SetObjectPropData(w) ==
  /\ CASE ~session -> Respond("SESSION_NOT_OPEN") /\ Unchanged
       [] session /\ setprop.h = None -> Respond("INVALID_OBJECT_HANDLE") /\ Unchanged
       [] session /\ setprop.h # None /\ ~Settable(setprop.prop) ->
            Respond("INVALID_OBJECT_PROP_CODE") /\ Unchanged
       [] OTHER -> IF ~Live(setprop.h) THEN Respond("GENERAL_ERROR") /\ Unchanged
                   ELSE IF conf.readonly THEN Respond("STORE_READ_ONLY") /\ Unchanged
                   ELSE Rename(setprop.h, w)
  /\ setprop' = IF session THEN [setprop EXCEPT !.h = None] ELSE setprop
  /\ UNCHANGED <<conf, session>>

-----------------------------------------------------------------------------
(* The host asks.                                                           *)

\* An operation that only answers; what it does about a session and a handle.
Asks(open, h, answer) ==
  /\ CASE open /\ ~session -> Respond("SESSION_NOT_OPEN")
       [] (open => session) /\ h # None /\ ~Live(h) -> Respond("INVALID_OBJECT_HANDLE")
       [] OTHER -> reply' = answer
  /\ UNCHANGED <<conf, session, setprop>>

Ok(data)             == Answer("OK", data)
OkUnless(data, code) == Answer(IF data = <<>> THEN code ELSE "OK", data)

\* Mutant: the size is told and not kept.
Refreshed_NotKept(h) ==
  /\ entry' = entry
  /\ told' = [told EXCEPT ![h] = FileOf(entry[h].name).size]

\* The size of the file is kept in the entry, where GetObject takes it from.
Refreshed(h) ==
  /\ entry' = [entry EXCEPT ![h].size = FileOf(entry[h].name).size]
  /\ told' = [told EXCEPT ![h] = FileOf(entry[h].name).size]

\* stat64 of the object's file.
SizeNow(h) == FileOf(entry[h].name).size

\* An answer that stats the file first; a file that is gone gets OK and nothing.
AsksAbout(h, dataset) ==
  LET there == session /\ Live(h) /\ Found(entry[h].name)
  IN /\ Asks(TRUE, h, Ok(IF there THEN dataset ELSE <<>>))
     /\ IF there THEN Refreshed(h) ELSE UNCHANGED <<entry, told>>
     /\ UNCHANGED <<disk, sent>>

GetObjectInfo(h) == AsksAbout(h, build_objectinfo_dataset(h, SizeNow(h)))

\* Without a property or with the group code 0 in its place it is refused; a
\* group and a format are not looked at otherwise.  "zero" is the property 0.
GetObjectPropList(h, asked, group) ==
  IF session /\ asked = "zero" /\ group = 0
  THEN Respond("PARAMETER_NOT_SUPPORTED") /\ UNCHANGED <<conf, session, setprop>> /\ Unchanged
  ELSE AsksAbout(h, build_objectproplist_dataset(h, SizeNow(h), asked))

GetObjectPropValue(h, p) ==
  /\ Asks(TRUE, h, Ok(IF Live(h) THEN build_ObjectPropValue_dataset(h, p) ELSE <<>>))
  /\ Unchanged

GetObjectPropDesc(p, f) ==
  Asks(TRUE, None, OkUnless(build_properties_dataset(p, f), "OPERATION_NOT_SUPPORTED")) /\ Unchanged

GetObjectPropsSupported(f) == Asks(TRUE, None, Ok(fmt_properties(f))) /\ Unchanged

\* No object refers to another.
GetObjectReferences(h) == Asks(TRUE, h, Ok(<<>>)) /\ Unchanged

\* GetDeviceInfo needs no session.
GetDeviceInfo == Asks(FALSE, None, Ok(build_deviceinfo_dataset)) /\ Unchanged

GetDevicePropDesc(p) ==
  Asks(TRUE, None, OkUnless(build_device_properties_dataset(p), "OPERATION_NOT_SUPPORTED")) /\ Unchanged

GetDevicePropValue(p) ==
  Asks(TRUE, None, OkUnless(build_DevicePropValue_dataset(p), "DEVICE_PROP_NOT_SUPPORTED")) /\ Unchanged

GetStorageInfo(id) ==
  Asks(TRUE, None, IF id = Storage THEN Ok(build_storageinfo_dataset)
                   ELSE Answer("INVALID_STORAGE_ID", <<>>)) /\ Unchanged

-----------------------------------------------------------------------------
Init ==
  /\ conf \in Confs
  /\ session = FALSE
  /\ disk = <<>>
  /\ entry = <<>>
  /\ setprop = [h |-> None, prop |-> "OBJECT_FILE_NAME"]
  /\ reply = Answer("none", <<>>)
  /\ told = [h \in Handles |-> None]
  /\ sent = [h \in Handles |-> None]

Query ==
  \/ \E h \in Handles :
       \/ GetObjectInfo(h) \/ GetObjectReferences(h)
       \/ \E p \in Asked : GetObjectPropValue(h, p)
       \/ \E p \in Asked \cup {"all"} : GetObjectPropList(h, p, 0)
       \/ \E g \in {0, 1} : GetObjectPropList(h, "zero", g)
  \/ \E f \in Formats : GetObjectPropsSupported(f) \/ \E p \in Asked \cup {"0xFFFF"} : GetObjectPropDesc(p, f)
  \/ \E p \in DevAsked : GetDevicePropDesc(p) \/ GetDevicePropValue(p)
  \/ GetDeviceInfo
  \/ \E id \in {Storage, 0} : GetStorageInfo(id)

Host ==
  \/ OpenSession \/ CloseSession \/ GetObjectHandles
  \/ \E w \in SentNames : SetObjectPropData(w) \/ \E d \in BOOLEAN, s \in Sizes : SendObjectInfo(w, d, s)
  \/ \E h \in Handles, p \in {"OBJECT_FILE_NAME", "NAME"} : SetObjectPropValue(h, p)

Local ==
  \/ \E n \in LocalNames \cup DOMAIN disk, d \in BOOLEAN, s \in Sizes : LocalWrite(n, d, s)
  \/ \E n \in DOMAIN disk : LocalRemove(n)
  \/ \E h \in DOMAIN entry : InotifyDelete(h)

Next == Query \/ Host \/ Local

Spec == Init /\ [][Next]_vars

-----------------------------------------------------------------------------
(* Properties.                                                              *)

\* Every variable keeps its type; an entry is only there with a session.
TypeOK ==
  /\ conf \in Confs /\ session \in BOOLEAN
  /\ \A n \in DOMAIN disk : disk[n].dir \in BOOLEAN /\ disk[n].size \in Sizes
  /\ Len(entry) <= MaxEntries /\ (entry # <<>> => session)
  /\ \A h \in DOMAIN entry : entry[h].dir \in BOOLEAN /\ entry[h].size \in Sizes /\ entry[h].live \in BOOLEAN
  /\ setprop.h \in Handles \cup {None}
  /\ told \in [Handles -> Sizes \cup {None}] /\ sent \in [Handles -> SentNames \cup {None}]
  /\ \A h \in Handles : told[h] # None \/ sent[h] # None => h \in DOMAIN entry

\* The size a host was told by GetObjectInfo or GetObjectPropList is the one
\* GetObject sends by and GetObjectPropValue tells, through listings, renames and
\* removals, until someone changes that file (the refreshes of entry->size in
\* mtp_datasets.c, mtp_properties.c and scan_and_add_folder).
SizeHolds == \A h \in DOMAIN entry : Live(h) /\ told[h] # None => entry[h].size = told[h]

\* What is left of a name: the characters a file system or Windows refuses are
\* '_', spaces in front, spaces and dots behind are gone.
Cleaned(w, v) ==
  LET Known(u) == IF is_forbidden_ascii(u) THEN Under ELSE u
  IN \E i, j \in DOMAIN w :
       /\ i <= j /\ v = [k \in 1..j - i + 1 |-> Known(w[i + k - 1])]
       /\ \A k \in 1..i - 1 : w[k] = Space
       /\ \A k \in j + 1..Len(w) : w[k] \in {Dot, Space}
       /\ w[i] # Space /\ w[j] \notin {Dot, Space}

\* A host that names an object is told that name, cleaned, unless it is longer
\* than the buffers: UTF-16 to UTF-8, sanitize_name and UTF-8 to UTF-16 together.
NameAsSent ==
  \A h \in DOMAIN entry :
    Live(h) /\ sent[h] # None /\ Len(Encoded(sent[h])) <= MaxBytes /\ Len(sent[h]) <= MaxUnits
      => Cleaned(sent[h], char2unicodestring(entry[h].name))

\* A host that sends back the name it is told names the same file: cleaning a
\* clean name changes nothing.  (Not so for names local users give.)
ResentSame ==
  \A h \in DOMAIN entry :
    Live(h) /\ entry[h].name \notin LocalNames /\ Len(entry[h].name) <= MaxUnits
      => NameSent(char2unicodestring(entry[h].name)) = entry[h].name

\* The five places of mtp_properties.c that know the properties agree: each
\* property listed as supported for an object is described, has a value of the
\* described type, is in the list of all properties once with that type and the
\* same value (dates and the unique id apart), and can be set iff it says so.
\* The same for the device.
AnswersAgree ==
  /\ \A h \in DOMAIN entry :
       LET f    == FormatOf(entry[h])
           list == build_objectproplist_dataset(h, entry[h].size, "all")
       IN /\ Len(list) = Len(fmt_properties(f))
          /\ \A p \in ToSet(fmt_properties(f)) :
               LET desc  == build_properties_dataset(p, f)
                   value == build_ObjectPropValue_dataset(h, p)
               IN /\ desc # <<>> /\ Len(value) = 1
                  /\ value[1].type = desc[1].type
                  /\ desc[1].set <=> Settable(p)
                  /\ \E i \in DOMAIN list :
                       /\ list[i].prop = p /\ list[i].type = desc[1].type
                       /\ p \notin {"DATE_CREATED", "DATE_MODIFIED", "PERSISTENT_UID"}
                            => list[i].value = value[1].value
  /\ \A p \in DevAsked \ {"0xFFFF"} :
       LET desc  == build_device_properties_dataset(p)
           value == build_DevicePropValue_dataset(p)
       IN IF p \in ToSet(build_deviceinfo_dataset)
          THEN Len(desc) = 1 /\ Len(value) = 1 /\ desc[1].type = value[1].type
          ELSE desc = <<>> /\ value = <<>>

-----------------------------------------------------------------------------
(* What documents and comments say and the code does not do.                *)

\* README.md: "Unicode support."  A file name in UTF-8 is told whole.
UnicodeTold ==
  \A h \in DOMAIN entry :
    utf8_validate(entry[h].name) /\ Len(entry[h].name) <= MaxUnits
      => Encoded(char2unicodestring(entry[h].name)) = entry[h].name

\* A name that is accepted is kept whole.
NamesWhole ==
  \A h \in DOMAIN entry : Live(h) /\ sent[h] # None => Cleaned(sent[h], char2unicodestring(entry[h].name))

\* Two names a host sends are two objects.
OneNameOneObject ==
  [][\A h \in DOMAIN entry :
        h \in DOMAIN entry' /\ sent[h] # None /\ sent'[h] # sent[h] => entry'[h].name # entry[h].name]_vars

\* fs_handles_db.c: "The final object probably doesn't exist yet".  An object
\* whose file is gone is not taken for another one.
ToldOfItsFile ==
  [][\A h \in DOMAIN entry : told'[h] \notin {None, told[h]} => entry[h].name \in DOMAIN disk]_vars

\* Only properties of the device are described.
DescribedExist == build_device_properties_dataset("0xFFFF") = <<>>
=============================================================================
