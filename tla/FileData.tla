------------------------------- MODULE FileData -------------------------------
(***************************************************************************)
(* The data phase of the operations that carry the content of one object:  *)
(* GetObject and GetPartialObject (send_file_data: the file is read page   *)
(* by page into the read cache, sent in USB writes of at most the buffer   *)
(* size and closed by a zero length packet when the last packet is full),  *)
(* SendObject and SendPartialObject (reads from USB until a short one,     *)
(* written to the file), and the edit operations around them.              *)
(*                                                                         *)
(* fs_entry.size is what the database believes of the file; the file is    *)
(* on a disk which local users and the host change.  A byte is a number,   *)
(* so that a byte out of place is seen.                                    *)
(***************************************************************************)
EXTENDS Integers, Sequences

CONSTANTS
  HeaderSize,  \* sizeof(MTP_PACKET_HEADER)
  TxBuffer,    \* usb_wr_buffer_max_size
  RxBuffer,    \* usb_rd_buffer_max_size
  CacheSize,   \* read_file_buffer_size
  PacketSize,  \* max_packet_size
  Word,        \* 2^32: sizes pass through int and uint32_t
  MaxSize,     \* bound: length of the file
  Confs        \* bound: what is checked together, see conf

ASSUME FileDataAssumption ==
  /\ PacketSize \in Nat \ {0} /\ Word \in Nat \ {0} /\ MaxSize \in Nat
  /\ TxBuffer \in Nat /\ TxBuffer > HeaderSize /\ TxBuffer % PacketSize = 0
  /\ RxBuffer \in Nat /\ RxBuffer > HeaderSize /\ RxBuffer % PacketSize = 0
  /\ HeaderSize \in Nat \ {0}
  /\ CacheSize \in Nat \ {0} /\ \E k \in 0..CacheSize : CacheSize = 2^k
  /\ Word % PacketSize = 0
  /\ \A c \in Confs :
       /\ c.uses \subseteq {"get", "partial", "send", "send_partial", "truncate"}
       /\ c.size \in 0..MaxSize /\ c.local \in Nat

VARIABLES
  conf,      \* chosen once: the operations used, the length a file may have, the
             \* number of changes local users make
  file,      \* the file on disk, a sequence of bytes
  size,      \* entry->size
  fd,        \* entry->file_descriptor is open
  op,        \* the operation of the MTP thread
  pc,        \* where it is
  offset,    \* its file offset
  actual,    \* actualsize, or the bytes the host means to send
  done,      \* j, or the bytes received
  page,      \* buf_index
  cache,     \* ctx->read_file_buffer, which outlives the transfer
  out,       \* the USB write being prepared
  wire,      \* the bytes of the data phase the host has so far
  writes,    \* the lengths of the USB writes that brought them
  announced, \* ContainerLength
  cancelled, \* ctx->cancel_req
  resp,      \* its response
  locals,    \* changes of local users so far
  asked,     \* history: the bytes the host asked for
  base,      \* history: the file when the operation started
  low,       \* history: the smallest length of the file since then
  failed     \* history: a call to the file system failed

dataVars == <<offset, actual, done, page, cache, out, wire, writes, announced>>
history  == <<locals, asked, base, low, failed>>
vars == <<conf, file, size, fd, op, pc, dataVars, cancelled, resp, history>>

Header == -1   \* a byte of the container header
Blank  == 0    \* a byte nobody wrote
Stray  == -2   \* a byte from outside the read cache

Old(p)    == p             \* the byte the file first had at position p
Sent(p)   == MaxSize + p   \* byte p of what the host sends

\* A 32-bit number as an int.
AsInt(n) == IF 2 * n < Word THEN n ELSE n - Word

Minimum(a, b) == IF a <= b THEN a ELSE b
Maximum(a, b) == IF a >= b THEN a ELSE b

\* ftruncate and the like.
Resized(f, n) == [p \in 1..n |-> IF p <= Len(f) THEN f[p] ELSE Blank]

\* write(2) at file offset o.
Written(f, o, bytes) ==
  IF bytes = <<>> THEN f
  ELSE [p \in 1..Maximum(Len(f), o + Len(bytes)) |->
          IF p \in o + 1..o + Len(bytes) THEN bytes[p - o]
          ELSE IF p <= Len(f) THEN f[p] ELSE Blank]

\* entry_read of a page: what lies past the end of the file stays as it was.
Loaded(c, o) ==
  [b \in 0..CacheSize - 1 |-> IF o + b < Len(file) THEN file[o + b + 1] ELSE c[b]]

\* n bytes of the cache from index b.
FromCache(c, b, n) == [k \in 1..n |-> IF b + k <= CacheSize THEN c[b + k - 1] ELSE Stray]

-----------------------------------------------------------------------------
(* GetObject and GetPartialObject.                                          *)

\* Mutant: a request is not cut at the end of the file.
ToSend_Uncut(o, n) == IF o >= size THEN 0 ELSE n

\* Mutant: an offset past the end is not told from one before it.
ToSend_Negative(o, n) == IF o + n > size THEN size - o ELSE n

\* actualsize. A negative length stays one, unless the offset is past the end.
ToSend(o, n) == IF o >= size THEN 0 ELSE IF o + n > size THEN size - o ELSE n

\* Mutant: the page of the last transfer is taken for loaded.
NoPage_Kept == page

\* buf_index = -1
NoPage == -1

Begins(what) ==
  /\ pc = "idle"
  /\ op' = what
  /\ UNCHANGED <<conf, locals>>
  /\ base' = file

\* Nothing the operation asks of the file system has failed.
Fine == low' = Len(file) /\ failed' = FALSE

\* send_file_data of n bytes at o, up to its loop. A sum below 0 is a large
\* one to the comparison that caps ContainerLength.
Get(what, o, n) ==
  LET total == HeaderSize + ToSend(o, n)
  IN  /\ Begins(what) /\ Fine
      /\ offset' = o /\ actual' = ToSend(o, n) /\ done' = 0
      /\ announced' = IF total \in 0..Word - 1 THEN total ELSE Word - 1
      /\ page' = NoPage
      /\ out' = <<>> /\ wire' = <<>> /\ writes' = <<>>
      /\ fd' = TRUE
      /\ pc' = IF ToSend(o, n) < 0 THEN "overrun" ELSE "block"
      /\ resp' = "none"
      /\ UNCHANGED <<file, size, cache, cancelled>>

GetObject == Get("get", 0, size) /\ asked' = size

\* The length n of the request is kept in an int.
GetPartialObject(o, n) == Get("partial", o, AsInt(n)) /\ asked' = n

\* entry_open fails: GetPartialObject answers OK all the same.
OpenFails(what) ==
  /\ Begins(what) /\ ~fd
  /\ resp' = IF what = "get" THEN "incomplete" ELSE "ok"
  /\ wire' = <<>> /\ writes' = <<>> /\ out' = <<>>
  /\ failed' = TRUE
  /\ pc' = "respond"
  /\ UNCHANGED <<file, size, fd, offset, actual, done, page, cache, announced, cancelled,
                 asked, low>>

PageOf(x) == (x \div CacheSize) * CacheSize

NextPage(c, p) == Loaded(c, p + CacheSize)

\* One turn of the loop up to write_usb: the page is loaded unless it is there;
\* a block that reaches the end of its page continues in the next one.
Block ==
  LET head  == IF done = 0 THEN [k \in 1..HeaderSize |-> Header] ELSE <<>>
      room  == TxBuffer - Len(head)
      block == IF done + room < actual THEN room ELSE actual - done
      at    == PageOf(offset + done)
      here  == IF page = at THEN cache ELSE Loaded(cache, at)
      index == offset + done - at
      first == CacheSize - index
      next  == NextPage(here, at)
  IN  /\ pc = "block"
      /\ IF index + block < CacheSize
         THEN /\ page' = at /\ cache' = here
              /\ out' = head \o FromCache(here, index, block)
         ELSE /\ page' = at + CacheSize /\ cache' = next
              /\ out' = head \o FromCache(here, index, first) \o FromCache(next, 0, block - first)
      /\ done' = done + block
      /\ pc' = "write"
      /\ UNCHANGED <<conf, file, size, fd, op, offset, actual, wire, writes, announced, cancelled,
                     resp, history>>

\* The one turn of the loop for a negative length: write_usb gets what is left
\* of the header's length, a number below 0 is refused. The memcpy before it
\* has a size_t that is negative: either it comes to nothing here or the process dies.
Overrun ==
  LET left == HeaderSize + actual
  IN  /\ pc = "overrun"
      /\ page' = PageOf(offset) /\ cache' = Loaded(cache, PageOf(offset))
      /\ done' = actual
      /\ IF cancelled \/ left < 0 THEN UNCHANGED <<wire, writes>>
         ELSE wire' = [k \in 1..left |-> Header] /\ writes' = <<left>>
      /\ fd' = FALSE
      /\ resp' = IF cancelled \/ actual = -2 THEN "no_response" ELSE "ok"
      /\ cancelled' = FALSE
      /\ pc' = "respond"
      /\ UNCHANGED <<conf, file, size, op, offset, actual, out, announced, history>>

\* entry_read fails: the transfer ends at once, a cancel is left for the next.
ReadFails ==
  /\ pc \in {"block", "overrun"}
  /\ resp' = IF op = "get" THEN "incomplete" ELSE "ok"
  /\ fd' = FALSE /\ pc' = "respond" /\ failed' = TRUE
  /\ UNCHANGED <<conf, file, size, op, dataVars, cancelled, locals, asked, base, low>>

\* write_usb, and the loop condition.
Write ==
  /\ pc = "write"
  /\ wire' = IF cancelled THEN wire ELSE wire \o out
  /\ writes' = IF cancelled THEN writes ELSE Append(writes, Len(out))
  /\ pc' = IF done < actual /\ ~cancelled THEN "block" ELSE "verdict"
  /\ UNCHANGED <<conf, file, size, fd, op, offset, actual, done, page, cache, out, announced,
                 cancelled, resp, history>>

\* Mutant: the length of the data decides, without the header.
ZlpNeeded_DataOnly(n) ==
  LET s == AsInt((n - HeaderSize) % Word)
  IN  s >= PacketSize /\ s % PacketSize = 0

\* check_and_send_USB_ZLP, whose size is an int.
ZlpNeeded(n) ==
  LET s == AsInt(n % Word)
  IN  s >= PacketSize /\ s % PacketSize = 0

\* The verdict under cancel_mutex, and the response.
GetVerdict ==
  /\ pc = "verdict" /\ op \in {"get", "partial"}
  /\ fd' = FALSE
  /\ writes' = IF ~cancelled /\ ZlpNeeded(HeaderSize + actual) THEN Append(writes, 0) ELSE writes
  /\ resp' = IF cancelled THEN "no_response" ELSE "ok"
  /\ cancelled' = FALSE
  /\ pc' = "respond"
  /\ UNCHANGED <<conf, file, size, op, offset, actual, done, page, cache, out, wire, announced,
                 history>>

-----------------------------------------------------------------------------
(* SendObject and SendPartialObject.  actual: what the host has to send.    *)

\* The data phase reads until a read is shorter than the buffer. A first read
\* that filled the buffer counts as full though the header was taken off it.
\* Mutant: it does not.
ReadsOn_Header(got, first) == got = RxBuffer

ReadsOn(got, first) == got = IF first THEN RxBuffer - HeaderSize ELSE RxBuffer

\* The n bytes the host sends after those received.
NextBytes(n) == [k \in 1..n |-> Sent(done' - n + k)]

\* The data part of the container that brought got bytes. A file left open by
\* SendPartialObject is not truncated by open(); SendObjectInfo did that by name.
Receive(what, o, n, got) ==
  /\ Begins(what)
  /\ offset' = o /\ actual' = n /\ done' = got
  /\ fd' = TRUE
  /\ \E stored \in {0, got} :   \* 0: the disk is full
       /\ file' = Written(IF what = "send" /\ ~fd THEN <<>> ELSE file, o, NextBytes(stored))
       /\ failed' = (stored < got)
  /\ pc' = IF ReadsOn(got, TRUE) \/ (what = "send_partial" /\ n > got) THEN "read" ELSE "stored"
  /\ resp' = "none"
  /\ low' = Len(file') /\ asked' = n
  /\ UNCHANGED <<size, page, cache, out, wire, writes, announced, cancelled>>

\* Hosts send the first data with the header or the header alone.
FirstData(n) == {0, Minimum(n, RxBuffer - HeaderSize)}

\* SendObjectInfo has truncated the file. After the header alone SendObject
\* reads no more; what comes is taken for a request, and refused.
SendObject(n) == \E got \in FirstData(n) : Receive("send", 0, n, got)

\* SendPartialObject knows that there is more to read.
SendPartialObject(o, n) == \E got \in FirstData(n) : Receive("send_partial", o, n, got)

\* SendObjectInfo of a file that is in the database: open(O_TRUNC), the entry
\* keeps its size. The SendObject it announces is the next operation or never
\* comes.
SendObjectInfo ==
  /\ pc = "idle"
  /\ file' = <<>> /\ op' = "info"
  /\ UNCHANGED <<conf, size, fd, pc, dataVars, cancelled, resp, history>>

\* read_usb and write. A write that fails (the disk is full, and stays so)
\* stores nothing, and the code does not look.
ReadUsb ==
  LET got == Minimum(RxBuffer, actual - done)
  IN  /\ pc = "read" /\ ~cancelled
      /\ done' = done + got
      /\ \/ /\ ~failed
            /\ file' = Written(file, offset + done, NextBytes(got))
            /\ UNCHANGED failed
         \/ got > 0 /\ failed' = TRUE /\ UNCHANGED file
         \/ got = 0 /\ failed /\ UNCHANGED <<failed, file>>
      /\ pc' = IF ReadsOn(got, FALSE) THEN "read" ELSE "stored"
      /\ UNCHANGED <<conf, size, fd, op, offset, actual, page, cache, out, wire, writes,
                     announced, cancelled, resp, locals, asked, base, low>>

\* The loop ends on a cancel, or because the read failed.
ReadEnds ==
  /\ pc = "read"
  /\ \/ cancelled /\ UNCHANGED failed
     \/ ~cancelled /\ failed' = TRUE
  /\ pc' = "stored"
  /\ UNCHANGED <<conf, file, size, fd, op, dataVars, cancelled, resp, locals, asked, base, low>>

\* SendPartialObject leaves the file open for the edits that follow.
SendVerdict ==
  /\ pc = "stored"
  /\ size' = Len(file)
  /\ fd' = (op = "send_partial")
  /\ resp' = IF cancelled THEN "no_response" ELSE "ok"
  /\ cancelled' = FALSE
  /\ pc' = "respond"
  /\ UNCHANGED <<conf, file, op, dataVars, history>>

-----------------------------------------------------------------------------
\* The variables of the operation are gone.
Cleared ==
  /\ pc' = "idle" /\ op' = "none" /\ resp' = "none"
  /\ offset' = 0 /\ actual' = 0 /\ done' = 0 /\ page' = NoPage
  /\ out' = <<>> /\ wire' = <<>> /\ writes' = <<>> /\ announced' = 0
  /\ asked' = 0 /\ base' = <<>> /\ low' = 0 /\ failed' = FALSE
  /\ UNCHANGED <<conf, file, locals>>

\* process_in_packet sends the response.
Respond == pc = "respond" /\ Cleared /\ UNCHANGED <<size, fd, cache, cancelled>>

NewCache == [b \in 0..CacheSize - 1 |-> Blank]

\* The memcpy of Overrun ends the process; a new one scans the object.
OverrunKills ==
  /\ pc = "overrun" /\ Cleared
  /\ size' = Len(file) /\ fd' = FALSE /\ cache' = NewCache /\ cancelled' = FALSE

-----------------------------------------------------------------------------
(* The operations around them, the USB side and the local users.           *)

EndEditObject ==
  /\ pc = "idle" /\ fd
  /\ fd' = FALSE /\ op' = "none"
  /\ UNCHANGED <<conf, file, size, pc, dataVars, cancelled, resp, history>>

\* TruncateObject changes the file, not the entry.
TruncateObject(n) ==
  /\ pc = "idle" /\ n # Len(file)
  /\ file' = Resized(file, n) /\ op' = "none"
  /\ UNCHANGED <<conf, size, fd, pc, dataVars, cancelled, resp, history>>

\* GetObjectInfo, GetObjectPropList and the scan of the folder call stat.
Stat ==
  /\ pc = "idle" /\ size # Len(file)
  /\ size' = Len(file) /\ op' = "none"
  /\ UNCHANGED <<conf, file, fd, pc, dataVars, cancelled, resp, history>>

\* MTP_REQ_CANCEL during a transfer (module Gadget).
Cancel ==
  /\ pc \notin {"idle", "respond"} /\ ~cancelled
  /\ cancelled' = TRUE
  /\ UNCHANGED <<conf, file, size, fd, op, pc, dataVars, resp, history>>

LocalResize(n) ==
  /\ n # Len(file) /\ locals < conf.local
  /\ locals' = locals + 1
  /\ file' = Resized(file, n) /\ low' = IF pc = "idle" THEN low ELSE Minimum(low, n)
  /\ UNCHANGED <<conf, size, fd, op, pc, dataVars, cancelled, resp, asked, base, failed>>

-----------------------------------------------------------------------------
Init ==
  /\ conf \in Confs
  /\ \E n \in 0..conf.size : file = [p \in 1..n |-> Old(p)]
  /\ size = Len(file) /\ fd = FALSE
  /\ op = "none" /\ pc = "idle" /\ offset = 0 /\ actual = 0 /\ done = 0
  /\ page = -1 /\ cache = NewCache
  /\ out = <<>> /\ wire = <<>> /\ writes = <<>> /\ announced = 0
  /\ cancelled = FALSE /\ resp = "none"
  /\ locals = 0 /\ asked = 0 /\ base = <<>> /\ low = 0 /\ failed = FALSE

Next ==
  \/ "get" \in conf.uses /\ (GetObject \/ OpenFails("get"))
  \/ /\ "partial" \in conf.uses
     /\ \/ OpenFails("partial")
        \/ \E o \in 0..conf.size, n \in 0..Word - 1 : GetPartialObject(o, n)
  \/ Overrun \/ OverrunKills
  \/ Block \/ ReadFails \/ Write \/ GetVerdict \/ Respond
  \/ /\ "send" \in conf.uses
     /\ \/ SendObjectInfo
        \/ \E n \in 0..conf.size : op = "info" /\ SendObject(n)
  \/ /\ "send_partial" \in conf.uses
     /\ \/ EndEditObject
        \/ \E o, n \in 0..conf.size : o + n <= conf.size /\ SendPartialObject(o, n)
  \/ ReadUsb \/ ReadEnds \/ SendVerdict
  \/ "truncate" \in conf.uses /\ \E n \in 0..conf.size : TruncateObject(n)
  \/ Stat \/ Cancel
  \/ \E n \in 0..conf.size : LocalResize(n)

Spec == Init /\ [][Next]_vars

-----------------------------------------------------------------------------
(* Correctness.                                                             *)

\* Types of all variables; the file is open while it is transferred; only a
\* length that the host asked for is ever negative.
TypeOK ==
  /\ conf \in Confs
  /\ file \in Seq(0..2 * MaxSize) /\ Len(file) <= MaxSize /\ size \in 0..MaxSize
  /\ fd \in BOOLEAN /\ (pc \notin {"idle", "respond"} => fd)
  /\ pc \in {"idle", "block", "write", "overrun", "verdict", "read", "stored", "respond"}
  /\ resp \in {"none", "ok", "incomplete", "no_response"}
  /\ offset \in 0..MaxSize /\ actual \in -Word..MaxSize
  /\ IF actual >= 0 THEN done \in 0..actual
     ELSE op = "partial" /\ pc \in {"overrun", "respond"} /\ actual = AsInt(asked)
  /\ page \in {-1} \cup {k * CacheSize : k \in 0..2 * MaxSize}
  /\ cache \in [0..CacheSize - 1 -> -2..2 * MaxSize]
  /\ Len(out) <= TxBuffer /\ low \in 0..MaxSize
  /\ cancelled \in BOOLEAN /\ failed \in BOOLEAN

\* Answered OK without a failure that GetPartialObject does not tell. Left out
\* are lengths of 2^31 and more before the end of the file (PartialIsComplete).
Completed ==
  /\ pc = "respond" /\ resp = "ok"
  /\ op = "get" \/ (op = "partial" /\ ~failed /\ actual >= 0)

\* The host gets the header and then the bytes of the file from the offset on,
\* each in its place, wherever blocks and cache pages meet and whatever an
\* earlier transfer left in the cache; only bytes that were cut off the file
\* since the transfer started may be others.
SentIsFile ==
  \A k \in DOMAIN wire :
    IF k <= HeaderSize THEN wire[k] = Header
    ELSE LET p == offset + k - HeaderSize IN p <= low => wire[k] = file[p]

\* GetObject answers OK only when the host got as many bytes as were announced,
\* the bytes asked for that the object has; so does GetPartialObject unless
\* the file system failed or the length is negative as an int.
OkIsComplete ==
  Completed =>
    /\ Len(wire) = HeaderSize + Minimum(asked, Maximum(0, size - offset))
    /\ announced = Minimum(Len(wire), Word - 1)

\* What tells the host that the data phase is over.
EndSeen(k) == writes[k] % PacketSize # 0 \/ writes[k] = 0

\* The host sees the end of the data phase once, with the last byte; sizes at
\* which the int of check_and_send_USB_ZLP is 0 or negative are left out
\* (EndAlwaysSeen).
EndSeenOnce ==
  /\ \A k \in DOMAIN writes : EndSeen(k) => k = Len(writes) /\ done = actual
  /\ Completed /\ AsInt((HeaderSize + actual) % Word) > 0 => EndSeen(Len(writes))

\* SendObject and SendPartialObject: the file has the bytes received at the
\* offset, however they were cut into reads, and its other bytes as they were;
\* OK means all of them, unless a call failed, a local user changed the file as
\* well, or the header of SendObject came alone (SentIsStored).
StoredIsGiven ==
  op \in {"send", "send_partial"} /\ ~failed /\ locals = 0 =>
    /\ file = Written(base, offset, [k \in 1..done |-> Sent(k)])
    /\ resp = "ok" => done = actual \/ (op = "send" /\ done = 0)

-----------------------------------------------------------------------------
(* What the documentation says and the code does not do (see the README).   *)

\* Release-notes.txt: "Update the file size information to the dataset when
\* modifying the file content.": GetObject of a file nobody changes meanwhile
\* sends all of it.
WholeFileSent ==
  Completed /\ op = "get" /\ file = base => Len(wire) = HeaderSize + Len(file)

\* mtp_op_getpartialobject.c: "Get param 3 - Max size in bytes": OK to a
\* request of any length means the bytes there are.
PartialIsComplete ==
  pc = "respond" /\ resp = "ok" /\ op = "partial" /\ ~failed =>
    Len(wire) = HeaderSize + Minimum(asked, Maximum(0, size - offset))

\* mtp_op_sendobject.c: "no response to send, wait for the data...": OK to
\* SendObject means that the data came.
SentIsStored == op = "send" /\ ~failed /\ resp = "ok" => done = actual

\* Release-notes.txt: "Fix >=4GiB files transfer support on Windows systems.":
\* the host sees the end of the data phase of a file of any size.
EndAlwaysSeen == Completed => EndSeen(Len(writes))

=============================================================================
